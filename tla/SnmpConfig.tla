------------------------------ MODULE SnmpConfig ------------------------------
(***************************************************************************)
(* SNMPConfig::load(), line by line, and what main() does with its result.  *)
(*                                                                         *)
(* A line is what load() makes of it once comments and blanks are gone: a   *)
(* key with its value, or one of the kinds "blank" and "junk" (no '=').  A  *)
(* number is what std::stoi() reads of the text, or Unreadable where it     *)
(* throws; a switch is whether its text is one of the three for true.       *)
(***************************************************************************)
EXTENDS Integers, Sequences

CONSTANTS
  Files,        \* the files that may lie at the path
  Texts,        \* communities
  Unreadable    \* no number, or none that fits an int

Members16 == {"port", "trap_port"}
Members32 == {"max_connections", "timeout_seconds"}
Switches  == {"enable_ipv6", "enable_trap"}
Numbers   == Members16 \cup Members32
Members   == Numbers \cup Switches \cup {"community", "log_level"}

\* The levels that parse_config_value() knows, and those that the documents list.
Levels    == {"debug", "info", "warning", "error", "fatal"}
DocLevels == {"debug", "info", "warn", "error", "fatal"}
Public == "public"

IsInt32(n)  == n \in Int /\ -2147483647 - 1 <= n /\ n <= 2147483647
IsUint16(n) == n \in Int /\ 0 <= n /\ n <= 65535

\* What may stand behind the '=' of each key.  Other keys are "unknown".
IsLine(l) ==
  \/ l.key \in Numbers /\ (l.value = Unreadable \/ IsInt32(l.value))
  \/ l.key \in Switches /\ l.value \in BOOLEAN
  \/ l.key = "community" /\ l.value \in Texts
  \/ l.key = "log_level" /\ l.value \in Levels \cup DocLevels \cup {"other"}
  \/ l.key \in {"unknown", "blank", "junk"}

ASSUME ConfigAssumption ==
  /\ \A f \in Files : Len(f) \in Nat /\ \A k \in 1..Len(f) : IsLine(f[k])
  /\ Public \in Texts /\ ~IsInt32(Unreadable)

VARIABLES
  at,         \* where load() or main() is
  file, test, \* the file that is read; the option -t
  line,       \* line_number
  config,     \* the members; a uint32_t as the int with the same bits
  reported    \* the lines that load() or parse_config_value() complained of

vars == <<at, file, test, line, config, reported>>

\* The constructor.
Default ==
  [port |-> 161, trap_port |-> 162, max_connections |-> 100, timeout_seconds |-> 30,
   community |-> Public, log_level |-> "info", enable_ipv6 |-> TRUE, enable_trap |-> FALSE]

Init ==
  /\ at = "open" /\ file \in Files /\ test \in BOOLEAN
  /\ line = 1 /\ config = Default /\ reported = {}

-----------------------------------------------------------------------------
(* load() and parse_config_value().                                        *)

OpenFile ==
  /\ at = "open" /\ at' = "reading"
  /\ UNCHANGED <<file, test, line, config, reported>>

\* main() returns 1.
OpenFails ==
  /\ at = "open" /\ at' = "failed"
  /\ UNCHANGED <<file, test, line, config, reported>>

Reading    == at = "reading" /\ line <= Len(file)
Key        == file[line].key
Value      == file[line].value
Advance    == line' = line + 1 /\ UNCHANGED <<at, file, test>>
Assign(v)  == config' = [config EXCEPT ![Key] = v]
Report     == reported' = reported \cup {line}
ReportIf(b) == IF b THEN Report ELSE UNCHANGED reported

Skip ==
  /\ Reading /\ Key = "blank"
  /\ Advance /\ UNCHANGED <<config, reported>>

\* No '=', or a key that no branch knows.
ReportLine ==
  /\ Reading /\ Key \in {"junk", "unknown"}
  /\ Report /\ Advance /\ UNCHANGED config

\* Mutant: the member is as wide as an int.
NarrowNothing(m, n) == n

\* The assignment narrows the int to the type of the member.
Narrow(m, n) == IF m \in Members16 THEN n % 65536 ELSE n

\* Mutants: negative numbers only; the last port is no port.
InvalidBelowZero(m, v) == v < 0
InvalidAtMax(m, v) == v = 0 \/ (m \in Members16 /\ v >= 65535)

\* The comparison of the member, after the assignment: < 1 of an unsigned
\* number, and > 65535 of a 16-bit one.
Invalid(m, v) == v = 0 \/ (m \in Members16 /\ v > 65535)

AssignNumber ==
  /\ Reading /\ Key \in Numbers /\ Value # Unreadable
  /\ Assign(Narrow(Key, Value))
  /\ ReportIf(Invalid(Key, Narrow(Key, Value)))
  /\ Advance

\* Mutant: what is no number is read as 0, as atoi() does.
UnreadableIsZero ==
  /\ Reading /\ Key \in Numbers /\ Value = Unreadable
  /\ Assign(0) /\ Report /\ Advance

\* stoi() throws before the assignment.
RejectNumber ==
  /\ Reading /\ Key \in Numbers /\ Value = Unreadable
  /\ Report /\ Advance /\ UNCHANGED config

AssignText ==
  /\ Reading /\ Key \in Switches \cup {"community"}
  /\ Assign(Value) /\ Advance /\ UNCHANGED reported

AssignLevel ==
  /\ Reading /\ Key = "log_level"
  /\ IF Value \in Levels THEN Assign(Value) ELSE UNCHANGED config
  /\ ReportIf(Value \notin Levels)
  /\ Advance

EndOfFile ==
  /\ at = "reading" /\ line > Len(file)
  /\ at' = IF test THEN "passed" ELSE "serving"
  /\ UNCHANGED <<file, test, line, config, reported>>

Load == \/ OpenFile \/ OpenFails
        \/ Skip \/ ReportLine \/ AssignNumber \/ RejectNumber
        \/ AssignText \/ AssignLevel \/ EndOfFile

\* "passed" and "failed" end the process; a server goes on.
Ended == at \in {"passed", "failed", "serving"} /\ UNCHANGED vars

Next == Load \/ Ended

Spec == Init /\ [][Next]_vars
-----------------------------------------------------------------------------
(* Properties.                                                             *)

TypeOK ==
  /\ at \in {"open", "reading", "passed", "serving", "failed"}
  /\ file \in Files /\ test \in BOOLEAN
  /\ line \in 1..(Len(file) + 1) /\ reported \subseteq 1..(line - 1)
  /\ DOMAIN config = Members
  /\ \A m \in Members16 : IsUint16(config[m])
  /\ \A m \in Members32 : IsInt32(config[m])

Readable(l) == \/ l.key \in Numbers /\ l.value # Unreadable
               \/ l.key \in Switches \cup {"community"}
               \/ l.key = "log_level" /\ l.value \in Levels

\* The lines read so far that give m a value.
Given(m) == {k \in 1..(line - 1) : file[k].key = m /\ Readable(file[k])}

\* What load() has made of the file: each member is that of the last line that
\* gives it a readable value, in the member's width, and its default if there
\* is none; a complaint about one line disturbs no other's.
LastReadableWins ==
  \A m \in Members :
    IF Given(m) = {} THEN config[m] = Default[m]
    ELSE \E k \in Given(m) : /\ \A j \in Given(m) : j <= k
                             /\ config[m] = IF m \in Numbers
                                            THEN Narrow(m, file[k].value)
                                            ELSE file[k].value

\* A port, limit or timeout of zero never goes unnoticed.
ZeroIsReported ==
  \A m \in Numbers : config[m] = 0 => \E k \in reported : file[k].key = m

\* A line with a value that is readable and in range, by the code and by the
\* documents: they disagree about the level between info and error, which
\* load() takes as "warning" and reports as "warn".
Highest(m) == IF m \in Members16 THEN 65535 ELSE 2147483647
Valid(l) == \/ l.key = "blank"
            \/ /\ Readable(l)
               /\ l.key \in Numbers => 1 <= l.value /\ l.value <= Highest(l.key)
               /\ l.key = "log_level" => l.value \in DocLevels

\* A line that is as it should be is taken as it stands: not complained of,
\* and, if it is the last to give its member a value, that is the value.
ValidIsTaken ==
  \A k \in 1..(line - 1) : Valid(file[k]) =>
    /\ k \notin reported
    /\ file[k].key \in Members /\ (\A j \in Given(file[k].key) : j <= k) =>
         config[file[k].key] = file[k].value
-----------------------------------------------------------------------------
\* The inductive invariant.
IInv == TypeOK /\ LastReadableWins /\ ZeroIsReported /\ ValidIsTaken
=============================================================================
