-------------------------- MODULE MCSettingsStore --------------------------
(* SettingsStore for TLC: the default settings and the requests of a host.  *)
EXTENDS SettingsStore

CONSTANTS NoValue

DefaultSettings == [mt |-> 20, limit |-> TRUE, password |-> "default", over |-> {}]

Write(mt, limit, entered) ==
    [write |-> [mt |-> mt, limit |-> limit, entered |-> entered],
     password |-> NoValue, reset |-> FALSE]

Commands == [write |-> NoValue, password |-> NoValue, reset |-> FALSE]

HostRequests ==
    { Write(NoValue, NoValue, NoValue),    \* read
      Write(21, NoValue, NoValue),         \* an unprotected value
      Write(19, NoValue, "default"),       \* out of range
      Write(NoValue, FALSE, NoValue),      \* a protected value
      Write(NoValue, NoValue, "default"),  \* enter the password
      [Commands EXCEPT !.password = "other"],
      [Commands EXCEPT !.reset = TRUE] }
=============================================================================
