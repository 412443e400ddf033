--------------------------- MODULE MCSystemProxy ---------------------------
EXTENDS SystemProxy, TLC

\* No proxy, and a proxy of the user's own.
Direct == [mode |-> "none", http |-> "user", https |-> "user",
           socks |-> "user", rest |-> "user"]
Corporate == [Direct EXCEPT !.mode = "manual"]
Automatic == [Direct EXCEPT !.mode = "auto"]

\* WinInet settings that never had a proxy server.
Fresh == [mode |-> "auto", http |-> "absent", https |-> "absent",
          socks |-> "absent", rest |-> "absent"]

\* The runs without faults and races, and the one with every fault.
OnGSettings == [GSettings |-> {Direct, Corporate, Automatic}]
Everywhere == [GSettings |-> {Direct, Corporate}, WinInet |-> {Corporate, Fresh}]

ListenSymmetry == Permutations(Listens)
=============================================================================
