------------------------- MODULE MCCommandRegistry -------------------------
(* Two modules, each of which overrides a host command that declines some  *)
(* lines, and messages of one or two lines.                                *)
EXTENDS CommandRegistry, TLC

CONSTANTS p, q, t1, t2

(* A host command and a longer one that starts with it, the host command   *)
(* that changes the registry, and a command too long to be looked up.      *)
MCCommands == {"get", "get size", "change", "long"}
MCWords    == [c \in MCCommands |-> CASE c = "get size" -> 2
                                      [] c = "long" -> 3
                                      [] OTHER -> 1]
MCHostCommands == <<"get", "change", "get size">>

LineOf(prefixes, verdict, subject) ==
  [prefixes |-> prefixes, subject |-> subject,
   verdict |-> [c \in MCCommands |-> IF c \in DOMAIN verdict THEN verdict[c]
                                                             ELSE "not_handled"]]

Get       == LineOf({"get"}, "get" :> "reply", "get")
GetSize   == LineOf({"get", "get size"}, "get" :> "handled", "get")
Long      == LineOf({"get", "long"}, "get" :> "not_handled", "get")
OverGet   == LineOf({"change"}, "change" :> "register", "get")
Restore   == LineOf({"change"}, "change" :> "unregister", "get")
Malformed == LineOf({"change"}, "change" :> "refuse", "long")

MCMessages == {<<OverGet>>, <<Get, GetSize>>, <<Long, Restore>>, <<Malformed>>}
MCStartupLists == {<<"get size", "long">>}
MCIssuers == (t1 :> {p}) @@ (t2 :> {p, q})
=============================================================================
