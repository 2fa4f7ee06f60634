---------------------------- MODULE MCShellLocks -----------------------------
(* ShellLocks for TLC: which client asks for what.                          *)
EXTENDS ShellLocks, TLC

CONSTANTS h1, h2, h3, h4

\* Two clients that type, resize and take the shell from each other, and liveshctl.
ClientsAndKill == h1 :> {"input", "open"} @@ h2 :> {"input", "resize", "steal"}
                  @@ h3 :> {"list", "kill"}

\* One types, one attaches, one lists, one kills.
OneEach == h1 :> {"open", "input"} @@ h2 :> {"steal"} @@ h3 :> {"list"} @@ h4 :> {"kill"}
=============================================================================
