--------------------------- MODULE SnmpConfigProofs ---------------------------
(***************************************************************************)
(* Proofs about SnmpConfig, for files of any length and any numbers.        *)
(***************************************************************************)
EXTENDS SnmpConfig, TLAPS

\* The lower 16 bits of an int.
LEMMA ModuloFacts ==
  ASSUME NEW n \in Int
  PROVE  n % 65536 \in Int /\ 0 <= n % 65536 /\ n % 65536 <= 65535
BY SMT

LEMMA ModuloSame ==
  ASSUME NEW n \in Int, 0 <= n, n <= 65535
  PROVE  n % 65536 = n
BY SMT

\* What an assignment leaves of a number.
LEMMA NarrowFacts ==
  ASSUME NEW m \in Numbers, NEW n \in Int, IsInt32(n)
  PROVE  /\ IsInt32(Narrow(m, n))
         /\ m \in Members16 => IsUint16(Narrow(m, n))
         /\ 1 <= n /\ n <= Highest(m) => Narrow(m, n) = n /\ ~Invalid(m, n)
<1>1. CASE m \in Members16
  <2> DEFINE r == n % 65536
  <2>1. Narrow(m, n) = r /\ Highest(m) = 65535
    BY <1>1, SMT DEF Narrow, Highest
  <2>2. r \in Int /\ 0 <= r /\ r <= 65535
    BY ModuloFacts, SMT
  <2>3. ASSUME 1 <= n, n <= 65535 PROVE r = n /\ ~Invalid(m, n)
    <3>1. 0 <= n
      BY <2>3, SMT
    <3>2. r = n
      BY <2>3, <3>1, ModuloSame, SMT
    <3>3. n # 0 /\ ~(n > 65535)
      BY <2>3, SMT
    <3> QED BY <3>2, <3>3, SMT DEF Invalid
  <2> HIDE DEF r
  <2>4. IsUint16(r) /\ IsInt32(r)
    BY <2>2, SMT DEF IsInt32, IsUint16
  <2> QED BY <2>1, <2>3, <2>4, SMT
<1>2. CASE m \notin Members16
  <2>1. Narrow(m, n) = n
    BY <1>2, SMT DEF Narrow
  <2>2. ASSUME 1 <= n PROVE ~Invalid(m, n)
    BY <1>2, <2>2, SMT DEF Invalid
  <2> QED BY <1>2, <2>1, <2>2, SMT
<1> QED BY <1>1, <1>2

\* The line in hand.
LEMMA LineFacts ==
  ASSUME TypeOK, Reading
  PROVE  /\ line \in Nat /\ line \in 1..Len(file) /\ Len(file) \in Nat
         /\ IsLine(file[line])
         /\ reported \subseteq 1..(line - 1)
<1>1. file \in Files
  BY DEF TypeOK
<1>2. Len(file) \in Nat /\ \A k \in 1..Len(file) : IsLine(file[k])
  BY <1>1, ConfigAssumption DEF ConfigAssumption
<1> QED BY <1>2 DEF TypeOK, Reading

\* A line read adds itself to the lines of its key, if it is readable.
LEMMA GivenFacts ==
  ASSUME TypeOK, Reading, Advance, NEW m
  PROVE  /\ Given(m)' = Given(m) \cup
              {k \in {line} : file[line].key = m /\ Readable(file[line])}
         /\ Given(m) \subseteq 1..(line - 1)
BY LineFacts DEF Given, Advance

LEMMA InvInit == Init => IInv
<1> SUFFICES ASSUME Init PROVE IInv
  OBVIOUS
<1>1. file \in Files /\ Len(file) \in Nat /\ line = 1
  BY ConfigAssumption DEF Init, ConfigAssumption
<1>2. \A m \in Numbers : config[m] \in {161, 162, 100, 30}
  BY SMT DEF Init, Default, Numbers, Members16, Members32
<1>3. TypeOK
  <2>1. DOMAIN config = Members
    BY DEF Init, Default, Members, Numbers, Members16, Members32, Switches
  <2>2. \A m \in Members16 : IsUint16(config[m])
    <3> SUFFICES ASSUME NEW m \in Members16 PROVE IsUint16(config[m])
      OBVIOUS
    <3>1. config[m] \in {161, 162, 100, 30}
      BY <1>2 DEF Numbers
    <3> QED BY <3>1, SMT DEF IsUint16
  <2>3. \A m \in Members32 : IsInt32(config[m])
    BY <1>2, SMT DEF Numbers, IsInt32
  <2> QED BY <1>1, <2>1, <2>2, <2>3 DEF Init, TypeOK
<1>4. 1..(line - 1) = {}
  BY <1>1
<1>5. LastReadableWins
  BY <1>4 DEF LastReadableWins, Given, Init
<1>6. ZeroIsReported
  BY <1>2 DEF ZeroIsReported
<1>7. ValidIsTaken
  BY <1>4 DEF ValidIsTaken
<1> QED BY <1>3, <1>5, <1>6, <1>7 DEF IInv

\* A line that gives its member no value: it is blank, or it is reported.
LEMMA NoValueInv ==
  ASSUME IInv, Reading, Advance, UNCHANGED config, ~Readable(file[line]),
         \/ UNCHANGED reported
         \/ Report /\ ~Valid(file[line])
  PROVE  IInv'
<1> USE DEF IInv
<1>1. /\ line \in Nat /\ line \in 1..Len(file) /\ Len(file) \in Nat
      /\ reported \subseteq 1..(line - 1) /\ line' = line + 1
      /\ file' = file /\ at' = at /\ test' = test
      /\ reported \subseteq reported' /\ reported' \subseteq 1..line
  BY LineFacts DEF Advance, Report
<1>2. \A m : Given(m)' = Given(m)
  BY GivenFacts
<1>3. TypeOK'
  <2>1. line' \in 1..(Len(file) + 1) /\ reported' \subseteq 1..(line' - 1)
    BY <1>1
  <2> QED BY <1>1, <2>1 DEF TypeOK
<1>4. LastReadableWins'
  BY <1>1, <1>2 DEF LastReadableWins
<1>5. ZeroIsReported'
  BY <1>1 DEF ZeroIsReported
<1>6. ValidIsTaken'
  <2> SUFFICES ASSUME NEW k \in 1..line, Valid(file[k])
               PROVE  /\ k \notin reported'
                      /\ file[k].key \in Members
                           /\ (\A j \in Given(file[k].key)' : j <= k) =>
                             config'[file[k].key] = file[k].value
    BY <1>1 DEF ValidIsTaken
  <2>1. CASE k = line
    <3>1. file[k].key = "blank"
      BY <2>1 DEF Valid
    <3>2. k \notin reported'
      BY <1>1, <2>1 DEF Report
    <3> QED BY <3>1, <3>2 DEF Members, Numbers, Members16, Members32, Switches
  <2>2. CASE k # line
    <3>1. k \in 1..(line - 1)
      BY <1>1, <2>2
    <3> QED BY <1>1, <1>2, <2>2, <3>1 DEF ValidIsTaken, Report
  <2> QED BY <2>1, <2>2
<1> QED BY <1>3, <1>4, <1>5, <1>6

\* A line that gives its member a value.
LEMMA ValueInv ==
  ASSUME IInv, Reading, Advance, Readable(file[line]), NEW v, Assign(v),
         NEW b \in BOOLEAN, ReportIf(b),
         b => ~Valid(file[line]),
         v = IF Key \in Numbers THEN Narrow(Key, Value) ELSE Value,
         Key \in Numbers => b = Invalid(Key, v)
  PROVE  IInv'
<1> USE DEF IInv
<1>1. /\ line \in Nat /\ line \in 1..Len(file) /\ Len(file) \in Nat
      /\ reported \subseteq 1..(line - 1) /\ line' = line + 1
      /\ file' = file /\ at' = at /\ test' = test
      /\ reported \subseteq reported' /\ reported' \subseteq reported \cup {line}
      /\ b => line \in reported'
      /\ ~b => reported' = reported
  BY LineFacts DEF Advance, Report, ReportIf
<1>2. Key \in Members /\ (Key \in Numbers => Value \in Int /\ IsInt32(Value))
  <2>1. Key \in Members /\ (Key \in Numbers => IsInt32(Value))
    BY LineFacts DEF Readable, IsLine, Key, Value, Members, Numbers, Members16,
       Members32, Switches
  <2> QED BY <2>1, SMT DEF IsInt32
<1>3. /\ config' = [config EXCEPT ![Key] = v]
      /\ DOMAIN config = Members
  BY DEF Assign, TypeOK
<1>4. /\ DOMAIN config' = Members
      /\ config'[Key] = v
      /\ \A m \in Members : m # Key => config'[m] = config[m]
  BY <1>2, <1>3
<1>5. \A m : Given(m)' = Given(m) \cup {k \in {line} : m = Key}
  BY GivenFacts DEF Key
<1>6. TypeOK'
  <2>1. \A m \in Members16 : IsUint16(config'[m])
    <3> SUFFICES ASSUME NEW m \in Members16 PROVE IsUint16(config'[m])
      OBVIOUS
    <3>1. m \in Numbers /\ m \in Members
      BY DEF Members, Numbers
    <3>2. CASE m = Key
      BY <1>2, <1>4, <3>1, <3>2, NarrowFacts
    <3>3. CASE m # Key
      BY <1>4, <3>1, <3>3 DEF TypeOK
    <3> QED BY <3>2, <3>3
  <2>2. \A m \in Members32 : IsInt32(config'[m])
    <3> SUFFICES ASSUME NEW m \in Members32 PROVE IsInt32(config'[m])
      OBVIOUS
    <3>1. m \in Numbers /\ m \in Members
      BY DEF Members, Numbers
    <3>2. CASE m = Key
      BY <1>2, <1>4, <3>1, <3>2, NarrowFacts
    <3>3. CASE m # Key
      BY <1>4, <3>1, <3>3 DEF TypeOK
    <3> QED BY <3>2, <3>3
  <2>3. line' \in 1..(Len(file) + 1) /\ reported' \subseteq 1..(line' - 1)
    BY <1>1
  <2> QED BY <1>1, <1>4, <2>1, <2>2, <2>3 DEF TypeOK
<1>7. LastReadableWins'
  <2> SUFFICES ASSUME NEW m \in Members
               PROVE  IF Given(m)' = {} THEN config'[m] = Default[m]
                      ELSE \E k \in Given(m)' :
                             /\ \A j \in Given(m)' : j <= k
                             /\ config'[m] = IF m \in Numbers
                                             THEN Narrow(m, file[k].value)
                                             ELSE file[k].value
    BY <1>1 DEF LastReadableWins
  <2>1. CASE m = Key
    <3>1. line \in Given(m)'
      BY <1>5, <2>1
    <3>2. \A j \in Given(m)' : j <= line
      BY <1>1, <1>5, GivenFacts
    <3>3. config'[m] = IF m \in Numbers THEN Narrow(m, file[line].value)
                       ELSE file[line].value
      BY <1>4, <2>1 DEF Value
    <3> QED BY <3>1, <3>2, <3>3
  <2>2. CASE m # Key
    <3>1. Given(m)' = Given(m) /\ config'[m] = config[m]
      BY <1>4, <1>5, <2>2
    <3> QED BY <3>1 DEF LastReadableWins
  <2> QED BY <2>1, <2>2
<1>8. ZeroIsReported'
  <2> SUFFICES ASSUME NEW m \in Numbers, config'[m] = 0
               PROVE  \E k \in reported' : file[k].key = m
    BY <1>1 DEF ZeroIsReported
  <2>1. CASE m = Key
    BY <1>1, <1>4, <2>1, SMT DEF Invalid, Key
  <2>2. CASE m # Key
    BY <1>1, <1>4, <2>2 DEF ZeroIsReported, Members
  <2> QED BY <2>1, <2>2
<1>9. ValidIsTaken'
  <2> SUFFICES ASSUME NEW k \in 1..line, Valid(file[k])
               PROVE  /\ k \notin reported'
                      /\ file[k].key \in Members
                           /\ (\A j \in Given(file[k].key)' : j <= k) =>
                             config'[file[k].key] = file[k].value
    BY <1>1 DEF ValidIsTaken
  <2>1. CASE k = line
    <3>1. ~b /\ k \notin reported'
      BY <1>1, <2>1
    <3>2. Key \in Numbers => 1 <= Value /\ Value <= Highest(Key)
      BY <1>2, <2>1 DEF Valid, Key, Value, Members, Numbers, Members16, Members32,
         Switches
    <3>3. v = Value
      BY <1>2, <3>2, NarrowFacts
    <3> QED BY <1>4, <2>1, <3>1, <3>3 DEF Key, Value
  <2>2. CASE k # line
    <3>1. k \in 1..(line - 1) /\ line > k
      BY <1>1, <2>2
    <3>2. k \notin reported'
      BY <1>1, <2>2, <3>1 DEF ValidIsTaken
    <3>3. ASSUME file[k].key \in Members, \A j \in Given(file[k].key)' : j <= k
          PROVE  config'[file[k].key] = file[k].value
      <4> PICK m : m = file[k].key
        OBVIOUS
      <4>1. m \in Members /\ \A j \in Given(m)' : j <= k
        BY <1>1, <3>3
      <4>2. m # Key
        BY <1>1, <1>5, <3>1, <4>1
      <4>3. Given(m)' = Given(m)
        BY <1>5, <4>2
      <4>4. config[m] = file[k].value
        BY <3>1, <4>1, <4>3 DEF ValidIsTaken
      <4> QED BY <1>4, <4>1, <4>2, <4>4
    <3> QED BY <3>2, <3>3
  <2> QED BY <2>1, <2>2
<1> QED BY <1>6, <1>7, <1>8, <1>9

LEMMA InvStep == IInv /\ [Next]_vars => IInv'
<1> SUFFICES ASSUME IInv, [Next]_vars PROVE IInv'
  OBVIOUS
<1> USE DEF IInv
<1>1. CASE at' \in {"reading", "passed", "serving", "failed", at}
           /\ UNCHANGED <<file, test, line, config, reported>>
  <2>1. \A m : Given(m)' = Given(m)
    BY <1>1 DEF Given
  <2>2. TypeOK'
    BY <1>1 DEF TypeOK
  <2> QED BY <1>1, <2>1, <2>2 DEF LastReadableWins, ZeroIsReported, ValidIsTaken
<1>2. CASE Skip
  <2>1. ~Readable(file[line])
    BY <1>2 DEF Skip, Key, Readable, Numbers, Members16, Members32, Switches
  <2> QED BY <1>2, <2>1, NoValueInv DEF Skip
<1>3. CASE ReportLine
  <2>1. ~Readable(file[line]) /\ ~Valid(file[line])
    BY <1>3 DEF ReportLine, Key, Readable, Valid, Numbers, Members16, Members32, Switches
  <2> QED BY <1>3, <2>1, NoValueInv DEF ReportLine
<1>4. CASE RejectNumber
  <2>1. ~Readable(file[line]) /\ ~Valid(file[line])
    BY <1>4 DEF RejectNumber, Key, Value, Readable, Valid, Numbers, Members16,
       Members32, Switches
  <2> QED BY <1>4, <2>1, NoValueInv DEF RejectNumber
<1>5. CASE AssignNumber
  <2> DEFINE v == Narrow(Key, Value)
  <2>1. Readable(file[line])
    BY <1>5 DEF AssignNumber, Key, Value, Readable
  <2>2. Invalid(Key, v) => ~Valid(file[line])
    <3>1. Reading /\ Key \in Numbers /\ Value # Unreadable
      BY <1>5 DEF AssignNumber
    <3>2. IsInt32(Value)
      BY <3>1, LineFacts DEF IsLine, Key, Value, Numbers, Members16, Members32, Switches
    <3>3. Value \in Int
      BY <3>2, SMT DEF IsInt32
    <3>4. 1 <= Value /\ Value <= Highest(Key) => ~Invalid(Key, v)
      BY <3>1, <3>2, <3>3, NarrowFacts
    <3>5. Valid(file[line]) => 1 <= Value /\ Value <= Highest(Key)
      BY <3>1 DEF Valid, Key, Value, Numbers, Members16, Members32
    <3> QED BY <3>4, <3>5
  <2>3. Invalid(Key, v) \in BOOLEAN
    BY SMT DEF Invalid
  <2> QED BY <1>5, <2>1, <2>2, <2>3, ValueInv DEF AssignNumber
<1>6. CASE AssignText
  <2>1. Readable(file[line]) /\ Key \notin Numbers
    BY <1>6 DEF AssignText, Key, Readable, Numbers, Members16, Members32, Switches
  <2>2. Assign(Value) /\ ReportIf(FALSE)
    BY <1>6 DEF AssignText, ReportIf
  <2> QED BY <1>6, <2>1, <2>2, ValueInv DEF AssignText
<1>7. CASE AssignLevel
  <2>1. Key \notin Numbers
    BY <1>7 DEF AssignLevel, Numbers, Members16, Members32
  <2>2. CASE Value \in Levels
    <3>1. Readable(file[line])
      BY <1>7, <2>2 DEF AssignLevel, Key, Value, Readable
    <3>2. Assign(Value) /\ ReportIf(FALSE)
      BY <1>7, <2>2 DEF AssignLevel, ReportIf
    <3> QED BY <1>7, <2>1, <3>1, <3>2, ValueInv DEF AssignLevel
  <2>3. CASE Value \notin Levels
    <3>1. ~Readable(file[line]) /\ ~Valid(file[line])
      BY <1>7, <2>3 DEF AssignLevel, Key, Value, Readable, Valid, Numbers, Members16,
         Members32, Switches
    <3>2. Report /\ UNCHANGED config
      BY <1>7, <2>3 DEF AssignLevel, ReportIf
    <3> QED BY <1>7, <3>1, <3>2, NoValueInv DEF AssignLevel
  <2> QED BY <2>2, <2>3
<1> QED
  BY <1>1, <1>2, <1>3, <1>4, <1>5, <1>6, <1>7
     DEF Next, Load, OpenFile, OpenFails, EndOfFile, Ended, vars

\* The invariant holds for files of any length, with any numbers.
THEOREM Invariant == Spec => []IInv
BY InvInit, InvStep, PTL DEF Spec

\* The members keep the widths that they are declared with.
THEOREM TypeCorrect == Spec => []TypeOK
<1>1. IInv => TypeOK
  BY DEF IInv
<1> QED BY <1>1, Invariant, PTL

\* Every member is that of the last readable line of its key, however many lines
\* are rejected in between.
THEOREM MembersAreTheFiles == Spec => []LastReadableWins
<1>1. IInv => LastReadableWins
  BY DEF IInv
<1> QED BY <1>1, Invariant, PTL

\* A member that is zero never goes unnoticed.
THEOREM ZerosAreNoticed == Spec => []ZeroIsReported
<1>1. IInv => ZeroIsReported
  BY DEF IInv
<1> QED BY <1>1, Invariant, PTL

\* What a valid line says is what the daemon gets.
THEOREM ValidLinesCount == Spec => []ValidIsTaken
<1>1. IInv => ValidIsTaken
  BY DEF IInv
<1> QED BY <1>1, Invariant, PTL
=============================================================================
