---------------------------- MODULE MCToolServer ----------------------------
(* Two workers, and clients that search, for a query and for a batch that  *)
(* has it, or that visit one page, twice in a request.                     *)
EXTENDS ToolServer
AllCalls == {[op |-> "search", args |-> <<"q1">>],
             [op |-> "search", args |-> <<"q2", "q1">>],
             [op |-> "visit", args |-> <<"u", "u">>]}

VARIABLE clients   \* what the clients of a behaviour do
ClientsInit == Init /\ clients \in {"search", "visit"}
ClientsNext == Next /\ UNCHANGED clients /\ \A r \in DOMAIN req' : req'[r].op = clients
ClientsSpec == /\ ClientsInit /\ [][ClientsNext]_<<vars, clients>>
               /\ WF_vars(\E r \in DOMAIN req : Serve(r))
=============================================================================
