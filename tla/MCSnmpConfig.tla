----------------------------- MODULE MCSnmpConfig -----------------------------
(***************************************************************************)
(* Small files: every two lines of numbers around the ends of the ranges    *)
(* and of the types, and of every other kind; and three about one member.   *)
(***************************************************************************)
EXTENDS SnmpConfig

CONSTANTS secret

TwoTexts == {Public, secret}

Line(k, v) == [key |-> k, value |-> v]

Corners == {-65535, -1, 0, 1, 1161, 65535, 65536, 65537, 131072, 2147483647,
            -2147483647 - 1, Unreadable}
PortLines  == {Line("port", v) : v \in Corners}
OtherLines ==
  {Line("trap_port", v) : v \in {0, 65538}}
  \cup {Line("max_connections", v) : v \in {-1, 0, 65536, Unreadable}}
  \cup {Line("timeout_seconds", v) : v \in {0, 1}}
  \cup {Line("log_level", v) : v \in {"debug", "warn", "warning", "other"}}
  \cup {Line("enable_ipv6", v) : v \in BOOLEAN}
  \cup {Line("enable_trap", TRUE), Line("community", secret)}
  \cup {Line(k, Unreadable) : k \in {"unknown", "blank", "junk"}}

UpTo(S, n) == UNION {[1..k -> S] : k \in 0..n}
TheFiles == UpTo(PortLines \cup OtherLines, 2)
            \cup UpTo({Line("port", v) : v \in {0, 1, 65537, Unreadable}}, 3)
=============================================================================
