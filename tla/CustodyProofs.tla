---------------------------- MODULE CustodyProofs ---------------------------
(***************************************************************************)
(* review/secret_custody_h2.py for any number of processes, operations,    *)
(* edits of the administrator and account numbers.  The argument goes from *)
(* the scripts outwards.  A process is at one of 46 places of the code     *)
(* (Placed), so a step is a step from a place to the next.  ForeignInv     *)
(* keeps what the administrator owns out of every receipt, with or without *)
(* a working lock.  While os.open and flock are not separated (AtomicLock) *)
(* LockInv gives the state directory one owner; HostInv says what that     *)
(* owner relies on at each place and what any stop leaves; SeenInv carries *)
(* what the unlocked verify has read to its answer.                        *)
(***************************************************************************)
EXTENDS CustodyInstall, SequenceTheorems, TLAPS

(***************************************************************************)
(* The scripts as places in one code.                                      *)
(***************************************************************************)
HostSteps ==
    {"make", "own", "open", "flock", "useradd", "identity", "replace", "reload", "receipt", "files",
     "unit", "answer", "check", "drop", "record", "groupdel", "confirm", "userdel"}
    \X {"state", "receipt", "next", "opt", "etc", "gates", "unit", "user", "group", "identity",
        "adopt", "full", "installed", "loaded", "any", "partial", "gone", "rolled_back"}

\* Steps 1 to 25 are an apply (the last five a verify), 26 to 41 a rollback,
\* 42 to 50 its removal of an account, which ends as 37 to 41 do.
Code ==
    << <<"make", "state">>, <<"own", "state">>, <<"open", "state">>, <<"flock", "state">>,
       <<"make", "receipt">>, <<"own", "receipt">>, <<"useradd", "user">>, <<"identity", "adopt">>,
       <<"make", "next">>, <<"own", "next">>, <<"replace", "next">>,
       <<"make", "opt">>, <<"own", "opt">>, <<"make", "etc">>, <<"own", "etc">>,
       <<"make", "gates">>, <<"own", "gates">>, <<"make", "unit">>, <<"own", "unit">>,
       <<"reload", "unit">>, <<"receipt", "installed">>, <<"identity", "full">>, <<"files", "full">>,
       <<"unit", "loaded">>, <<"answer", "installed">>,
       <<"open", "state">>, <<"flock", "state">>, <<"receipt", "any">>, <<"check", "partial">>,
       <<"drop", "gates">>, <<"drop", "unit">>, <<"drop", "etc">>, <<"drop", "opt">>,
       <<"reload", "unit">>, <<"unit", "gone">>, <<"record", "user">>, <<"groupdel", "group">>,
       <<"confirm", "identity">>, <<"drop", "receipt">>, <<"drop", "state">>,
       <<"answer", "rolled_back">>,
       <<"make", "next">>, <<"own", "next">>, <<"replace", "next">>, <<"userdel", "user">>,
       <<"groupdel", "group">>, <<"confirm", "identity">>, <<"drop", "receipt">>,
       <<"drop", "state">>, <<"answer", "rolled_back">> >>

Places == 0..45

Part(m, n) == SubSeq(Code, m, n)

Todo(n) == IF n = 0 THEN <<>>
           ELSE Part(n, IF n <= 25 THEN 25 ELSE IF n <= 41 THEN 41 ELSE 50)

After(n) == IF n \in {25, 41} THEN 0 ELSE IF n = 45 THEN 37 ELSE n + 1

\* The places of all scripts are fifty host steps.
LEMMA CodeType == Code \in Seq(HostSteps) /\ Len(Code) = 50
  BY DEF Code, HostSteps

\* The end of rollback is the same whether or not it removes an account.
LEMMA SameEnd == Part(46, 50) = Part(37, 41)
  BY DEF Code, Part

\* Each helper the scripts are built from is a stretch of the code.
LEMMA Pieces ==
    /\ MakeOwn("state") = Part(1, 2) /\ LockState = Part(3, 4)
    /\ MakeOwn("receipt") = Part(5, 6)
    /\ << <<"useradd", "user">>, <<"identity", "adopt">> >> = Part(7, 8)
    /\ MakeOwn("next") = Part(9, 10)
    /\ << <<"replace", "next">> >> = Part(11, 11)
    /\ MakeOwn("opt") = Part(12, 13) /\ MakeOwn("etc") = Part(14, 15)
    /\ MakeOwn("gates") = Part(16, 17) /\ MakeOwn("unit") = Part(18, 19)
    /\ << <<"reload", "unit">> >> = Part(20, 20)
    /\ VerifySteps = Part(21, 24)
    /\ << <<"answer", "installed">> >> = Part(25, 25)
    /\ LockState = Part(26, 27) /\ RemoveScript = Part(28, 41)
    /\ MakeOwn("next") = Part(42, 43)
    /\ << <<"replace", "next">> >> = Part(44, 44)
    /\ << <<"userdel", "user">> >> = Part(45, 45)
  BY DEF Code, Part, MakeOwn, LockState, VerifySteps, RemoveScript

Adjacent(m, k, j, n) ==
    m \in 1..50 /\ k \in 1..50 /\ n \in 1..50 /\ m <= k /\ k < n /\ j = k + 1

\* Two stretches of the code that meet are one stretch.
LEMMA Join ==
    \A m, k, j, n : Adjacent(m, k, j, n) =>
      Part(m, k) \o Part(j, n) = Part(m, n)
<1>. SUFFICES ASSUME NEW m, NEW k, NEW j, NEW n, Adjacent(m, k, j, n)
              PROVE  Part(m, k) \o Part(j, n) = Part(m, n)
  OBVIOUS
<1>1. j = k + 1 /\ m \in 1..(Len(Code) + 1) /\ k \in (m - 1)..Len(Code) /\ n \in k..Len(Code)
  BY CodeType DEF Adjacent
<1>. QED
  BY <1>1, CodeType, ConcatAdjacentSubSeq DEF Part

\* The meetings that building the scripts from their pieces needs.
LEMMA Joints ==
    /\ Part(1, 2) \o Part(3, 4) = Part(1, 4)
    /\ Part(1, 4) \o Part(5, 25) = Part(1, 25)
    /\ Part(5, 6) \o Part(7, 8) = Part(5, 8)
    /\ Part(5, 8) \o Part(9, 11) = Part(5, 11)
    /\ Part(5, 11) \o Part(12, 13) = Part(5, 13)
    /\ Part(5, 13) \o Part(14, 15) = Part(5, 15)
    /\ Part(5, 15) \o Part(16, 17) = Part(5, 17)
    /\ Part(5, 17) \o Part(18, 19) = Part(5, 19)
    /\ Part(5, 19) \o Part(20, 20) = Part(5, 20)
    /\ Part(5, 20) \o Part(21, 25) = Part(5, 25)
    /\ Part(9, 10) \o Part(11, 11) = Part(9, 11)
    /\ Part(21, 24) \o Part(25, 25) = Part(21, 25)
    /\ Part(26, 27) \o Part(28, 41) = Part(26, 41)
    /\ Part(42, 43) \o Part(44, 44) = Part(42, 44)
    /\ Part(42, 44) \o Part(45, 45) = Part(42, 45)
    /\ Part(42, 45) \o Part(46, 50) = Part(42, 50)
<1>1. Part(1, 2) \o Part(3, 4) = Part(1, 4)
  <2>1. Adjacent(1, 2, 3, 4)
    BY DEF Adjacent
  <2>. QED
    BY <2>1, Join
<1>2. Part(1, 4) \o Part(5, 25) = Part(1, 25)
  <2>1. Adjacent(1, 4, 5, 25)
    BY DEF Adjacent
  <2>. QED
    BY <2>1, Join
<1>3. Part(5, 6) \o Part(7, 8) = Part(5, 8)
  <2>1. Adjacent(5, 6, 7, 8)
    BY DEF Adjacent
  <2>. QED
    BY <2>1, Join
<1>4. Part(5, 8) \o Part(9, 11) = Part(5, 11)
  <2>1. Adjacent(5, 8, 9, 11)
    BY DEF Adjacent
  <2>. QED
    BY <2>1, Join
<1>5. Part(5, 11) \o Part(12, 13) = Part(5, 13)
  <2>1. Adjacent(5, 11, 12, 13)
    BY DEF Adjacent
  <2>. QED
    BY <2>1, Join
<1>6. Part(5, 13) \o Part(14, 15) = Part(5, 15)
  <2>1. Adjacent(5, 13, 14, 15)
    BY DEF Adjacent
  <2>. QED
    BY <2>1, Join
<1>7. Part(5, 15) \o Part(16, 17) = Part(5, 17)
  <2>1. Adjacent(5, 15, 16, 17)
    BY DEF Adjacent
  <2>. QED
    BY <2>1, Join
<1>8. Part(5, 17) \o Part(18, 19) = Part(5, 19)
  <2>1. Adjacent(5, 17, 18, 19)
    BY DEF Adjacent
  <2>. QED
    BY <2>1, Join
<1>9. Part(5, 19) \o Part(20, 20) = Part(5, 20)
  <2>1. Adjacent(5, 19, 20, 20)
    BY DEF Adjacent
  <2>. QED
    BY <2>1, Join
<1>10. Part(5, 20) \o Part(21, 25) = Part(5, 25)
  <2>1. Adjacent(5, 20, 21, 25)
    BY DEF Adjacent
  <2>. QED
    BY <2>1, Join
<1>11. Part(9, 10) \o Part(11, 11) = Part(9, 11)
  <2>1. Adjacent(9, 10, 11, 11)
    BY DEF Adjacent
  <2>. QED
    BY <2>1, Join
<1>12. Part(21, 24) \o Part(25, 25) = Part(21, 25)
  <2>1. Adjacent(21, 24, 25, 25)
    BY DEF Adjacent
  <2>. QED
    BY <2>1, Join
<1>13. Part(26, 27) \o Part(28, 41) = Part(26, 41)
  <2>1. Adjacent(26, 27, 28, 41)
    BY DEF Adjacent
  <2>. QED
    BY <2>1, Join
<1>14. Part(42, 43) \o Part(44, 44) = Part(42, 44)
  <2>1. Adjacent(42, 43, 44, 44)
    BY DEF Adjacent
  <2>. QED
    BY <2>1, Join
<1>15. Part(42, 44) \o Part(45, 45) = Part(42, 45)
  <2>1. Adjacent(42, 44, 45, 45)
    BY DEF Adjacent
  <2>. QED
    BY <2>1, Join
<1>16. Part(42, 45) \o Part(46, 50) = Part(42, 50)
  <2>1. Adjacent(42, 45, 46, 50)
    BY DEF Adjacent
  <2>. QED
    BY <2>1, Join
<1>. QED
  BY <1>1, <1>2, <1>3, <1>4, <1>5, <1>6, <1>7, <1>8, <1>9, <1>10, <1>11, <1>12, <1>13, <1>14, <1>15, <1>16

\* A stretch of the code is its first step and the stretch after it.
LEMMA Cut ==
    ASSUME NEW m \in 1..50, NEW n \in m..50
    PROVE  /\ Part(m, n) # <<>> /\ Head(Part(m, n)) = Code[m]
           /\ Tail(Part(m, n)) = Part(m + 1, n)
           /\ Part(m, n) \in Seq(HostSteps)
           /\ Len(Part(m, n)) = n - m + 1 
           /\ Part(m, n)[n - m + 1] = Code[n]
<1>1. \A i \in m..n : Code[i] \in HostSteps
  <2>1. \A i \in 1..50 : Code[i] \in HostSteps
    BY CodeType, ElementOfSeq
  <2>. QED
    BY <2>1
<1>2. /\ Len(Part(m, n)) = n - m + 1 /\ Part(m, n) \in Seq(HostSteps)
      /\ \A i \in 1..(n - m + 1) : Part(m, n)[i] = Code[m + i - 1]
  BY <1>1, SubSeqProperties DEF Part
<1>3. Part(m, n)[n - m + 1] = Code[n]
  <2>1. PICK j \in 1..(n - m + 1) : j = n - m + 1
    OBVIOUS
  <2>2. m + j - 1 = n
    BY <2>1
  <2>. QED
    BY <1>2, <2>1, <2>2
<1>4. Part(m, n) # <<>>
  BY <1>2, EmptySeq
<1>5. m \in 1..Len(Code) /\ n \in m..Len(Code)
  BY CodeType
<1>6. /\ Head(Part(m, n)) = Code[m]
      /\ Tail(Part(m, n)) = Part(m + 1, n)
  BY <1>5, CodeType, HeadTailOfSubSeq DEF Part
<1>. QED
  BY <1>2, <1>3, <1>4, <1>6

\* What apply, verify and rollback begin with is what is left to do at places
\* 1, 21 and 26.
LEMMA Scripts ==
    /\ ApplyScript = Todo(1) /\ VerifyScript = Todo(21) /\ RollbackScript = Todo(26)
    /\ UserdelScript \o Todo(37) = Todo(42)
<1>1. VerifyScript = Part(21, 25)
  BY Pieces, Joints DEF VerifyScript
<1>2. SaveReceipt = Part(9, 11)
  BY Pieces, Joints DEF SaveReceipt
<1>3. InstallScript = Part(5, 25)
  <2>1. MakeOwn("receipt") \o << <<"useradd", "user">>, <<"identity", "adopt">> >> = Part(5, 8)
    BY Pieces, Joints
  <2>2. /\ Part(5, 8) \o SaveReceipt = Part(5, 11)
        /\ Part(5, 11) \o MakeOwn("opt") = Part(5, 13)
        /\ Part(5, 13) \o MakeOwn("etc") = Part(5, 15)
        /\ Part(5, 15) \o MakeOwn("gates") = Part(5, 17)
        /\ Part(5, 17) \o MakeOwn("unit") = Part(5, 19)
    BY <1>2, Pieces, Joints
  <2>3. /\ Part(5, 19) \o << <<"reload", "unit">> >> = Part(5, 20)
        /\ Part(5, 20) \o VerifyScript = Part(5, 25)
    BY <1>1, Pieces, Joints
  <2>. QED
    BY <2>1, <2>2, <2>3 DEF InstallScript
<1>4. ApplyScript = Part(1, 25)
  BY <1>3, Pieces, Joints DEF ApplyScript
<1>5. RollbackScript = Part(26, 41)
  BY Pieces, Joints DEF RollbackScript
<1>6. UserdelScript = Part(42, 45)
  BY Pieces, Joints DEF UserdelScript, SaveReceipt
<1>7. UserdelScript \o Part(37, 41) = Part(42, 50)
  BY <1>6, SameEnd, Joints
<1>8. Todo(1) = Part(1, 25) /\ Todo(21) = Part(21, 25) /\ Todo(26) = Part(26, 41)
      /\ Todo(37) = Part(37, 41) /\ Todo(42) = Part(42, 50)
  BY DEF Todo
<1>. QED
  BY <1>1, <1>4, <1>5, <1>7, <1>8

\* What is left to do at a place is its step, then what is left at the next
\* place.
LEMMA Walk ==
    ASSUME NEW n \in Places, n # 0
    PROVE  /\ Todo(n) # <<>> /\ Head(Todo(n)) = Code[n] /\ Tail(Todo(n)) = Todo(After(n))
           /\ After(n) \in Places
<1>. DEFINE e == IF n <= 25 THEN 25 ELSE IF n <= 41 THEN 41 ELSE 50
<1>1. n \in 1..50 /\ e \in n..50 /\ Todo(n) = Part(n, e)
  BY DEF Places, Todo
<1>. HIDE DEF e
<1>2. Todo(n) # <<>> /\ Head(Todo(n)) = Code[n] /\ Tail(Todo(n)) = Part(n + 1, e)
  BY <1>1, Cut
<1>. USE DEF e
<1>3. CASE n = 25
  <2>1. Part(26, 25) = <<>>
    BY SubSeqEmpty DEF Part
  <2>2. Todo(After(n)) = <<>> /\ n + 1 = 26 /\ e = 25
    BY <1>3 DEF Todo, After
  <2>. QED
    BY <1>2, <1>3, <2>1, <2>2 DEF Places, After
<1>4. CASE n = 41
  <2>1. Part(42, 41) = <<>>
    BY SubSeqEmpty DEF Part
  <2>2. Todo(After(n)) = <<>> /\ n + 1 = 42 /\ e = 41
    BY <1>4 DEF Todo, After
  <2>. QED
    BY <1>2, <1>4, <2>1, <2>2 DEF Places, After
<1>5. CASE n = 45
  <2>1. Todo(After(n)) = Part(37, 41) /\ n + 1 = 46 /\ e = 50
    BY <1>5 DEF Todo, After
  <2>. QED
    BY <1>2, <1>5, <2>1, SameEnd DEF Places, After
<1>6. CASE n \notin {25, 41, 45}
  <2>1. After(n) = n + 1 /\ After(n) \in Places /\ Todo(n + 1) = Part(n + 1, e)
    BY <1>6 DEF Places, After, Todo
  <2>. QED
    BY <1>2, <2>1
<1>. QED
  BY <1>3, <1>4, <1>5, <1>6

\* Different places have different work left to do.
LEMMA Distinct ==
    ASSUME NEW m \in Places, NEW n \in Places, Todo(m) = Todo(n)
    PROVE  m = n
<1>0. CASE m = 0 \/ n = 0
  BY <1>0, Walk DEF Todo
<1>. DEFINE e(k) == IF k <= 25 THEN 25 ELSE IF k <= 41 THEN 41 ELSE 50
<1>1. ASSUME NEW k \in Places, k # 0
      PROVE  /\ Len(Todo(k)) = e(k) - k + 1 /\ Head(Todo(k)) = Code[k]
             /\ Todo(k)[e(k) - k + 1] = Code[e(k)]
  <2>1. PICK l \in k..50 : l = e(k) /\ Todo(k) = Part(k, l)
    BY <1>1 DEF Places, Todo
  <2>2. k \in 1..50
    BY <1>1 DEF Places
  <2>3. /\ Len(Part(k, l)) = l - k + 1 /\ Head(Part(k, l)) = Code[k]
        /\ Part(k, l)[l - k + 1] = Code[l]
    BY <2>2, Cut
  <2>. HIDE DEF e
  <2>. QED
    BY <2>1, <2>3
<1>2. CASE m # 0 /\ n # 0
  <2>1. e(m) - m + 1 = e(n) - n + 1 /\ Code[m] = Code[n] /\ Code[e(m)] = Code[e(n)]
    <3>. HIDE DEF e
    <3>1. /\ Len(Todo(m)) = e(m) - m + 1 /\ Head(Todo(m)) = Code[m]
          /\ Todo(m)[e(m) - m + 1] = Code[e(m)]
      BY <1>1, <1>2
    <3>2. /\ Len(Todo(n)) = e(n) - n + 1 /\ Head(Todo(n)) = Code[n]
          /\ Todo(n)[e(n) - n + 1] = Code[e(n)]
      BY <1>1, <1>2
    <3>. QED
      BY <3>1, <3>2
  <2>2. CASE e(m) = e(n)
    BY <2>1, <2>2 DEF Places
  <2>3. CASE e(m) # e(n)
    <3>1. Code[25] # Code[41] /\ Code[25] # Code[50]
      BY DEF Code
    <3>2. Code[33] # Code[42] /\ Code[34] # Code[43] /\ Code[35] # Code[44] /\ Code[36] # Code[45]
      BY DEF Code
    <3>3. (e(m) = 41 /\ e(n) = 50) \/ (e(m) = 50 /\ e(n) = 41)
      BY <2>1, <2>3, <3>1
    <3>4. CASE e(m) = 41 /\ e(n) = 50
      <4>1. m = n - 9 /\ n \in 42..45
        BY <1>2, <2>1, <3>4 DEF Places
      <4>. QED
        BY <2>1, <3>2, <4>1
    <3>5. CASE e(m) = 50 /\ e(n) = 41
      <4>1. n = m - 9 /\ m \in 42..45
        BY <1>2, <2>1, <3>5 DEF Places
      <4>. QED
        BY <2>1, <3>2, <4>1
    <3>. QED
      BY <3>3, <3>4, <3>5
  <2>. QED
    BY <2>2, <2>3
<1>. QED
  BY <1>0, <1>2

(***************************************************************************)
(* Types, and the moves of a process from place to place.                  *)
(***************************************************************************)
place == [p \in Procs |-> CHOOSE n \in Places : proc[p].todo = Todo(n)]

Receipts == [id : Nat, uid : Nat]

Users == [tag : Nat, uid : Nat, clean : BOOLEAN]

Groups == [gid : Nat, own : BOOLEAN, clean : {TRUE}]

\* The administrator edits no path of the state directory.
Hosts == {o \in [Paths -> Conditions] : \A x \in {"state", "receipt", "next"} : o[x] # "foreign"}

Processes == [todo : Seq(HostSteps), r : Receipts, dir : Nat, locked : BOOLEAN]

CustodyType ==
    /\ obj \in Hosts
    /\ dirs \in Nat /\ saved \in Receipts /\ draft \in Receipts
    /\ user \in Users /\ group \in Groups
    /\ loaded \in BOOLEAN /\ ops \in Nat
    /\ proc \in [Procs -> Processes]
    /\ answer \in [Procs -> {"none", "installed", "rolled_back"}] /\ seen \subseteq Procs

\* Every process stands at a step of a script, or is idle.
Placed ==
    /\ place \in [Procs -> Places]
    /\ \A p \in Procs : proc[p].todo = Todo(place[p]) /\ (place[p] = 0 => proc[p] = Idle)

\* Where a step stands in the code.
StandsAt(n, kind, x) ==
    /\ kind = "make" =>
         \/ x = "state" /\ n = 1
         \/ x = "receipt" /\ n = 5
         \/ x = "next" /\ n \in {9, 42}
         \/ x = "opt" /\ n = 12
         \/ x = "etc" /\ n = 14
         \/ x = "gates" /\ n = 16
         \/ x = "unit" /\ n = 18
    /\ kind = "own" =>
         \/ x = "state" /\ n = 2
         \/ x = "receipt" /\ n = 6
         \/ x = "next" /\ n \in {10, 43}
         \/ x = "opt" /\ n = 13
         \/ x = "etc" /\ n = 15
         \/ x = "gates" /\ n = 17
         \/ x = "unit" /\ n = 19
    /\ kind = "open" => n \in {3, 26}
    /\ kind = "flock" => n \in {4, 27}
    /\ kind = "useradd" => n = 7
    /\ kind = "identity" =>
         \/ x = "adopt" /\ n = 8
         \/ x = "full" /\ n = 22
    /\ kind = "replace" => n \in {11, 44}
    /\ kind = "reload" => n \in {20, 34}
    /\ kind = "receipt" =>
         \/ x = "installed" /\ n = 21
         \/ x = "any" /\ n = 28
    /\ kind = "files" => n = 23
    /\ kind = "unit" =>
         \/ x = "loaded" /\ n = 24
         \/ x = "gone" /\ n = 35
    /\ kind = "answer" =>
         \/ x = "installed" /\ n = 25
         \/ x = "rolled_back" /\ n = 41
    /\ kind = "check" => n = 29
    /\ kind = "drop" =>
         \/ x = "gates" /\ n = 30
         \/ x = "unit" /\ n = 31
         \/ x = "etc" /\ n = 32
         \/ x = "opt" /\ n = 33
         \/ x = "receipt" /\ n = 39
         \/ x = "state" /\ n = 40
    /\ kind = "record" => n = 36
    /\ kind = "groupdel" => n = 37
    /\ kind = "confirm" => n = 38
    /\ kind = "userdel" => n = 45

\* The step at a place says what kind of step is due there.
LEMMA Where ==
    ASSUME NEW n \in 1..45, NEW kind, NEW x, Code[n] = <<kind, x>>
    PROVE  StandsAt(n, kind, x)
  BY DEF Code, StandsAt

\* A step of process p takes it to place n, with these registers.
Moved(p, n, r, d, l) ==
    /\ n \in Places /\ r \in Receipts /\ d \in Nat /\ l \in BOOLEAN
    /\ n = 0 => r = NoReceipt /\ d = 0 /\ l = FALSE
    /\ proc' = [proc EXCEPT ![p] = [todo |-> Todo(n), r |-> r, dir |-> d, locked |-> l]]

\* What is left to do at a place is a sequence of host steps.
LEMMA TodoType == \A n \in Places : Todo(n) \in Seq(HostSteps)
<1>. TAKE n \in Places
<1>1. CASE n = 0
  BY <1>1 DEF Todo
<1>2. CASE n # 0
  <2>1. PICK l \in n..50 : Todo(n) = Part(n, l)
    BY <1>2 DEF Places, Todo
  <2>2. n \in 1..50
    BY <1>2 DEF Places
  <2>. QED
    BY <2>1, <2>2, Cut
<1>. QED
  BY <1>1, <1>2

\* A process that moves to a place is there, and everybody else is where they
\* were.
LEMMA MovedPlaced ==
    ASSUME CustodyType, Placed, NEW p \in Procs, NEW n, NEW r, NEW d, NEW l, Moved(p, n, r, d, l)
    PROVE  /\ proc' \in [Procs -> Processes] /\ Placed'
           /\ place' = [place EXCEPT ![p] = n]
           /\ proc'[p].r = r /\ proc'[p].dir = d /\ proc'[p].locked = l
           /\ \A q \in Procs \ {p} : proc'[q] = proc[q]
<1>. DEFINE c == [todo |-> Todo(n), r |-> r, dir |-> d, locked |-> l]
<1>1. c \in Processes /\ c.todo = Todo(n) /\ c.r = r /\ c.dir = d /\ c.locked = l /\ n \in Places
  BY TodoType DEF Moved, Processes
<1>2. n = 0 => c = Idle
  BY DEF Moved, Idle, Todo
<1>3. proc' = [proc EXCEPT ![p] = c] /\ proc \in [Procs -> Processes]
  BY DEF Moved, CustodyType
<1>. HIDE DEF c
<1>4. /\ proc' \in [Procs -> Processes] /\ proc'[p] = c
      /\ \A q \in Procs \ {p} : proc'[q] = proc[q]
  BY <1>1, <1>3
<1>5. \A q \in Procs : place'[q] = [place EXCEPT ![p] = n][q]
  <2>. SUFFICES ASSUME NEW q \in Procs PROVE place'[q] = [place EXCEPT ![p] = n][q]
    OBVIOUS
  <2>1. CASE q = p
    <3>1. (CHOOSE m \in Places : proc'[p].todo = Todo(m)) \in Places
          /\ proc'[p].todo = Todo(CHOOSE m \in Places : proc'[p].todo = Todo(m))
      BY <1>1, <1>4
    <3>. QED
      BY <1>1, <1>4, <2>1, <3>1, Distinct DEF place
  <2>2. CASE q # p
    BY <1>4, <2>2 DEF place
  <2>. QED
    BY <2>1, <2>2
<1>6. place' = [place EXCEPT ![p] = n]
  BY <1>5 DEF place
<1>7. Placed'
  BY <1>1, <1>2, <1>4, <1>6 DEF Placed
<1>. QED
  BY <1>1, <1>4, <1>6, <1>7

\* A process record with its remaining work replaced.
LEMMA SetTodo ==
    ASSUME NEW c \in Processes, NEW t
    PROVE  [c EXCEPT !.todo = t] = [todo |-> t, r |-> c.r, dir |-> c.dir, locked |-> c.locked]
  BY DEF Processes

\* A process record with its remaining work and its receipt replaced.
LEMMA SetTodoReceipt ==
    ASSUME NEW c \in Processes, NEW t, NEW r
    PROVE  [c EXCEPT !.todo = t, !.r = r] = [todo |-> t, r |-> r, dir |-> c.dir, locked |-> c.locked]
<1>1. [c EXCEPT !.todo = t, !.r = r] = [[c EXCEPT !.todo = t] EXCEPT !.r = r]
  OBVIOUS
<1>2. [[todo |-> t, r |-> c.r, dir |-> c.dir, locked |-> c.locked] EXCEPT !.r = r]
        = [todo |-> t, r |-> r, dir |-> c.dir, locked |-> c.locked]
  OBVIOUS
<1>. QED
  BY <1>1, <1>2, SetTodo

\* A process record with its remaining work and its directory handle
\* replaced.
LEMMA SetTodoDir ==
    ASSUME NEW c \in Processes, NEW t, NEW d
    PROVE  [c EXCEPT !.todo = t, !.dir = d] = [todo |-> t, r |-> c.r, dir |-> d, locked |-> c.locked]
<1>1. [c EXCEPT !.todo = t, !.dir = d] = [[c EXCEPT !.todo = t] EXCEPT !.dir = d]
  OBVIOUS
<1>2. [[todo |-> t, r |-> c.r, dir |-> c.dir, locked |-> c.locked] EXCEPT !.dir = d]
        = [todo |-> t, r |-> c.r, dir |-> d, locked |-> c.locked]
  OBVIOUS
<1>. QED
  BY <1>1, <1>2, SetTodo

\* A process record with its remaining work and its lock replaced.
LEMMA SetTodoLocked ==
    ASSUME NEW c \in Processes, NEW t, NEW l
    PROVE  [c EXCEPT !.todo = t, !.locked = l] = [todo |-> t, r |-> c.r, dir |-> c.dir, locked |-> l]
<1>1. [c EXCEPT !.todo = t, !.locked = l] = [[c EXCEPT !.todo = t] EXCEPT !.locked = l]
  OBVIOUS
<1>2. [[todo |-> t, r |-> c.r, dir |-> c.dir, locked |-> c.locked] EXCEPT !.locked = l]
        = [todo |-> t, r |-> c.r, dir |-> c.dir, locked |-> l]
  OBVIOUS
<1>. QED
  BY <1>1, <1>2, SetTodo

\* A process about to take a step stands at a place of that step.
LEMMA AtPlace ==
    ASSUME Placed, NEW p \in Procs, NEW kind, NEW x, At(p, kind, x)
    PROVE  place[p] \in 1..45 /\ StandsAt(place[p], kind, x)
<1>1. place[p] \in Places /\ proc[p].todo = Todo(place[p])
  BY DEF Placed
<1>2. place[p] # 0
  BY <1>1 DEF At, Active, Todo
<1>3. place[p] \in 1..45
  BY <1>1, <1>2 DEF Places
<1>4. Code[place[p]] = Head(Todo(place[p]))
  BY <1>1, <1>2, Walk
<1>5. Code[place[p]] = <<kind, x>>
  BY <1>1, <1>4 DEF At
<1>. QED
  BY <1>3, <1>5, Where

\* A process is at work exactly when it is at a place.
LEMMA ActivePlace ==
    ASSUME Placed, NEW p \in Procs
    PROVE  Active(p) <=> place[p] # 0
  BY Walk DEF Placed, Active, Todo

\* A process that drops its first step goes on to the next place.
LEMMA Advances ==
    ASSUME CustodyType, Placed, NEW p \in Procs, place[p] \notin {0, 25, 41}, NEW r, NEW d, NEW l,
           r \in Receipts, d \in Nat, l \in BOOLEAN,
           proc' = [proc EXCEPT ![p] = [todo |-> Tail(proc[p].todo), r |-> r, dir |-> d, locked |-> l]]
    PROVE  Moved(p, After(place[p]), r, d, l)
<1>1. place[p] \in Places /\ proc[p].todo = Todo(place[p])
  BY DEF Placed
<1>2. Tail(proc[p].todo) = Todo(After(place[p])) /\ After(place[p]) \in Places
  BY <1>1, Walk
<1>3. After(place[p]) # 0
  <2>1. \A n \in Places : n \notin {25, 41} => After(n) # 0
    BY DEF After, Places
  <2>. QED
    BY <1>1, <2>1
<1>. QED
  BY <1>2, <1>3 DEF Moved

\* A process goes on and nothing but its place changes.
LEMMA Goes ==
    ASSUME CustodyType, Placed, NEW p \in Procs, place[p] \notin {0, 25, 41}, Advance(p)
    PROVE  Moved(p, After(place[p]), proc[p].r, proc[p].dir, proc[p].locked)
<1>1. proc[p] \in Processes /\ proc[p].r \in Receipts /\ proc[p].dir \in Nat /\ proc[p].locked \in BOOLEAN
  BY DEF CustodyType, Processes
<1>2. proc' = [proc EXCEPT ![p] = [proc[p] EXCEPT !.todo = Tail(proc[p].todo)]]
  BY DEF Advance
<1>. QED
  BY <1>1, <1>2, SetTodo, Advances

\* A process that goes on with another receipt goes to the next place with
\* it.
LEMMA GoesWith ==
    ASSUME CustodyType, Placed, NEW p \in Procs, place[p] \notin {0, 25, 41},
           NEW r \in Receipts, AdvanceWith(p, r)
    PROVE  Moved(p, After(place[p]), r, proc[p].dir, proc[p].locked)
<1>1. proc[p] \in Processes /\ proc[p].dir \in Nat /\ proc[p].locked \in BOOLEAN
  BY DEF CustodyType, Processes
<1>2. proc' = [proc EXCEPT ![p] = [proc[p] EXCEPT !.todo = Tail(proc[p].todo), !.r = r]]
  BY DEF AdvanceWith
<1>. QED
  BY <1>1, <1>2, SetTodoReceipt, Advances

\* A process that becomes idle is at no place and keeps nothing.
LEMMA Ends ==
    ASSUME NEW p \in Procs, proc' = [proc EXCEPT ![p] = Idle]
    PROVE  Moved(p, 0, NoReceipt, 0, FALSE)
  BY DEF Moved, Idle, NoReceipt, Receipts, Places, Todo

\* A process that begins was idle and starts at the first place of its
\* script.
LEMMA Begins ==
    ASSUME Placed, NEW p \in Procs, NEW n \in Places, n # 0, NEW id \in Nat, Begin(p, Todo(n), id)
    PROVE  place[p] = 0 /\ Moved(p, n, [id |-> id, uid |-> 0], 0, FALSE)
<1>1. place[p] = 0
  BY ActivePlace DEF Begin
<1>2. Idle \in Processes /\ Idle.r = NoReceipt /\ Idle.dir = 0 /\ Idle.locked = FALSE
  BY DEF Idle, Processes, NoReceipt, Receipts
<1>3. [Idle EXCEPT !.todo = Todo(n), !.r.id = id]
        = [Idle EXCEPT !.todo = Todo(n), !.r = [Idle.r EXCEPT !.id = id]]
  OBVIOUS
<1>4. [NoReceipt EXCEPT !.id = id] = [id |-> id, uid |-> 0]
  BY DEF NoReceipt
<1>5. [Idle EXCEPT !.todo = Todo(n), !.r.id = id]
        = [todo |-> Todo(n), r |-> [id |-> id, uid |-> 0], dir |-> 0, locked |-> FALSE]
  <2>. DEFINE rec == [Idle.r EXCEPT !.id = id]
  <2>1. rec = [id |-> id, uid |-> 0]
    BY <1>2, <1>4
  <2>. HIDE DEF rec
  <2>2. [Idle EXCEPT !.todo = Todo(n), !.r = rec]
          = [todo |-> Todo(n), r |-> rec, dir |-> Idle.dir, locked |-> Idle.locked]
    BY <1>2, SetTodoReceipt
  <2>. QED
    BY <1>2, <1>3, <2>1, <2>2 DEF rec
<1>6. proc' = [proc EXCEPT ![p] = [Idle EXCEPT !.todo = Todo(n), !.r.id = id]]
  BY DEF Begin
<1>7. [id |-> id, uid |-> 0] \in Receipts
  BY DEF Receipts
<1>. QED
  BY <1>1, <1>5, <1>6, <1>7 DEF Moved

\* Opening the state directory leads from place 3 or 26 to the next, with the
\* directory that is there now.
LEMMA MoveOpen ==
    ASSUME CustodyType, Placed, NEW p \in Procs, Open(p)
    PROVE  place[p] \in {3, 26} /\ Moved(p, place[p] + 1, proc[p].r, dirs, proc[p].locked)
<1>1. place[p] \in {3, 26} /\ After(place[p]) = place[p] + 1
  BY AtPlace DEF Open, StandsAt, After
<1>2. proc[p] \in Processes /\ dirs \in Nat /\ proc[p].r \in Receipts /\ proc[p].locked \in BOOLEAN
  BY DEF CustodyType, Processes
<1>3. proc' = [proc EXCEPT ![p] = [proc[p] EXCEPT !.todo = Tail(proc[p].todo), !.dir = dirs]]
  BY DEF Open
<1>4. Moved(p, After(place[p]), proc[p].r, dirs, proc[p].locked)
  <2>1. place[p] \notin {0, 25, 41}
    BY <1>1
  <2>. QED
    BY <1>2, <1>3, <2>1, SetTodoDir, Advances
<1>. QED
  BY <1>1, <1>4

\* Taking the lock leads from place 4 or 27 to the next, with the lock.
LEMMA MoveFlock ==
    ASSUME CustodyType, Placed, NEW p \in Procs, Flock(p)
    PROVE  place[p] \in {4, 27} /\ Moved(p, place[p] + 1, proc[p].r, proc[p].dir, TRUE)
<1>1. place[p] \in {4, 27} /\ After(place[p]) = place[p] + 1
  BY AtPlace DEF Flock, StandsAt, After
<1>2. proc[p] \in Processes /\ proc[p].r \in Receipts /\ proc[p].dir \in Nat
  BY DEF CustodyType, Processes
<1>3. proc' = [proc EXCEPT ![p] = [proc[p] EXCEPT !.todo = Tail(proc[p].todo), !.locked = TRUE]]
  BY DEF Flock
<1>4. Moved(p, After(place[p]), proc[p].r, proc[p].dir, TRUE)
  <2>1. place[p] \notin {0, 25, 41}
    BY <1>1
  <2>. QED
    BY <1>2, <1>3, <2>1, SetTodoLocked, Advances
<1>. QED
  BY <1>1, <1>4

\* A step of the scripts that is no answer leads to the place after it.
LEMMA Onward ==
    ASSUME CustodyType, Placed, NEW p \in Procs, NEW kind, NEW x, At(p, kind, x), kind # "answer"
    PROVE  /\ place[p] \in 1..45 \ {25, 41} /\ StandsAt(place[p], kind, x)
           /\ Advance(p) => Moved(p, After(place[p]), proc[p].r, proc[p].dir, proc[p].locked)
           /\ \A r \in Receipts : AdvanceWith(p, r) =>
                Moved(p, After(place[p]), r, proc[p].dir, proc[p].locked)
<1>1. place[p] \in 1..45 /\ StandsAt(place[p], kind, x)
  BY AtPlace
<1>2. proc[p].todo = Todo(place[p]) /\ place[p] \in Places /\ place[p] # 0
  BY <1>1 DEF Placed
<1>3. Code[place[p]] = <<kind, x>>
  BY <1>2, Walk DEF At
<1>4. Code[25] = <<"answer", "installed">> /\ Code[41] = <<"answer", "rolled_back">>
  BY DEF Code
<1>5. place[p] \notin {25, 41}
  BY <1>3, <1>4
<1>6. place[p] \in 1..45 \ {25, 41} /\ place[p] \notin {0, 25, 41}
  BY <1>1, <1>5
<1>. QED
  BY <1>1, <1>6, Goes, GoesWith

\* Rollback goes on with the removal of the account if there is one, past it
\* if not.
LEMMA MoveRecord ==
    ASSUME CustodyType, Placed, NEW p \in Procs, RecordUser(p)
    PROVE  /\ place[p] = 36
           /\ \/ user = NoUser /\ Moved(p, 37, proc[p].r, proc[p].dir, proc[p].locked)
              \/ /\ user # NoUser
                 /\ Moved(p, 42, [id |-> proc[p].r.id, uid |-> user.uid], proc[p].dir, proc[p].locked)
<1>1. At(p, "record", "user") /\ place[p] = 36 /\ After(place[p]) = 37
  BY AtPlace DEF RecordUser, StandsAt, After
<1>2. CASE user = NoUser
  BY <1>1, <1>2, Onward DEF RecordUser
<1>3. CASE user # NoUser
  <2>. DEFINE rest == UserdelScript \o Tail(proc[p].todo)
              rec == [proc[p].r EXCEPT !.uid = user.uid]
  <2>1. proc[p] \in Processes /\ proc[p].r \in Receipts /\ proc[p].dir \in Nat
        /\ proc[p].locked \in BOOLEAN /\ user.uid \in Nat
    BY DEF CustodyType, Processes, Users
  <2>2. proc' = [proc EXCEPT ![p] = [proc[p] EXCEPT !.todo = rest, !.r = rec]]
    <3>1. proc' = [proc EXCEPT ![p].todo = rest, ![p].r.uid = user.uid]
      BY <1>3 DEF RecordUser
    <3>2. [proc EXCEPT ![p].todo = rest, ![p].r.uid = user.uid]
            = [[proc EXCEPT ![p].todo = rest] EXCEPT ![p].r.uid = user.uid]
      OBVIOUS
    <3>3. [proc EXCEPT ![p].todo = rest][p] = [proc[p] EXCEPT !.todo = rest]
      BY DEF CustodyType
    <3>4. [[proc[p] EXCEPT !.todo = rest] EXCEPT !.r.uid = user.uid]
            = [proc[p] EXCEPT !.todo = rest, !.r = rec]
      BY <2>1 DEF Processes
    <3>. QED
      BY <3>1, <3>2, <3>3, <3>4 DEF CustodyType
  <2>3. rec = [id |-> proc[p].r.id, uid |-> user.uid] /\ rec \in Receipts
    BY <2>1 DEF Receipts
  <2>4. rest = Todo(42)
    <3>1. proc[p].todo = Todo(36) /\ 36 \in Places /\ After(36) = 37
      BY <1>1 DEF Placed, Places, After
    <3>2. Tail(proc[p].todo) = Todo(37)
      BY <3>1, Walk
    <3>. QED
      BY <3>2, Scripts
  <2>. HIDE DEF rest, rec
  <2>5. [proc[p] EXCEPT !.todo = rest, !.r = rec]
          = [todo |-> rest, r |-> rec, dir |-> proc[p].dir, locked |-> proc[p].locked]
    BY <2>1, SetTodoReceipt
  <2>6. Moved(p, 42, rec, proc[p].dir, proc[p].locked)
    <3>1. proc' = [proc EXCEPT ![p] = [todo |-> Todo(42), r |-> rec, dir |-> proc[p].dir,
                                       locked |-> proc[p].locked]]
      BY <2>2, <2>4, <2>5
    <3>2. 42 \in Places /\ 42 # 0 /\ rec \in Receipts
      BY <2>3 DEF Places
    <3>. QED
      BY <2>1, <3>1, <3>2 DEF Moved
  <2>. QED
    BY <1>1, <1>3, <2>3, <2>6
<1>. QED
  BY <1>1, <1>2, <1>3

\* The registers stay as they are.
Stays(p, n) == Moved(p, n, proc[p].r, proc[p].dir, proc[p].locked)

\* At which place each path is created.
LEMMA MoveMake ==
    ASSUME CustodyType, Placed, NEW p \in Procs, NEW x, Make(p, x)
    PROVE  /\ Stays(p, place[p] + 1)
           /\ \/ x = "state" /\ place[p] = 1
              \/ x = "receipt" /\ place[p] = 5
              \/ x = "next" /\ place[p] \in {9, 42}
              \/ x = "opt" /\ place[p] = 12
              \/ x = "etc" /\ place[p] = 14
              \/ x = "gates" /\ place[p] = 16
              \/ x = "unit" /\ place[p] = 18
<1>1. At(p, "make", x) /\ Advance(p)
  BY DEF Make
<1>2. StandsAt(place[p], "make", x) /\ Stays(p, After(place[p]))
  BY <1>1, Onward DEF Stays
<1>3. place[p] \in {1, 5, 9, 42, 12, 14, 16, 18}
  BY <1>2 DEF StandsAt
<1>4. After(place[p]) = place[p] + 1
  BY <1>3 DEF After
<1>5. Stays(p, place[p] + 1)
  BY <1>2, <1>4
<1>. QED
  BY <1>2, <1>5 DEF StandsAt

\* At which place each path gets its owner and mode.
LEMMA MoveOwn ==
    ASSUME CustodyType, Placed, NEW p \in Procs, NEW x, Own(p, x)
    PROVE  /\ Stays(p, place[p] + 1)
           /\ \/ x = "state" /\ place[p] = 2
              \/ x = "receipt" /\ place[p] = 6
              \/ x = "next" /\ place[p] \in {10, 43}
              \/ x = "opt" /\ place[p] = 13
              \/ x = "etc" /\ place[p] = 15
              \/ x = "gates" /\ place[p] = 17
              \/ x = "unit" /\ place[p] = 19
<1>1. At(p, "own", x) /\ Advance(p)
  BY DEF Own
<1>2. StandsAt(place[p], "own", x) /\ Stays(p, After(place[p]))
  BY <1>1, Onward DEF Stays
<1>3. place[p] \in {2, 6, 10, 43, 13, 15, 17, 19}
  BY <1>2 DEF StandsAt
<1>4. After(place[p]) = place[p] + 1
  BY <1>3 DEF After
<1>5. Stays(p, place[p] + 1)
  BY <1>2, <1>4
<1>. QED
  BY <1>2, <1>5 DEF StandsAt

\* At which place each path is removed.
LEMMA MoveDrop ==
    ASSUME CustodyType, Placed, NEW p \in Procs, NEW x, Drop(p, x)
    PROVE  /\ Stays(p, place[p] + 1)
           /\ \/ x = "gates" /\ place[p] = 30
              \/ x = "unit" /\ place[p] = 31
              \/ x = "etc" /\ place[p] = 32
              \/ x = "opt" /\ place[p] = 33
              \/ x = "receipt" /\ place[p] = 39
              \/ x = "state" /\ place[p] = 40
<1>1. At(p, "drop", x) /\ Advance(p)
  BY DEF Drop
<1>2. StandsAt(place[p], "drop", x) /\ Stays(p, After(place[p]))
  BY <1>1, Onward DEF Stays
<1>3. place[p] \in {30, 31, 32, 33, 39, 40}
  BY <1>2 DEF StandsAt
<1>4. After(place[p]) = place[p] + 1
  BY <1>3 DEF After
<1>5. Stays(p, place[p] + 1)
  BY <1>2, <1>4
<1>. QED
  BY <1>2, <1>5 DEF StandsAt

\* The receipt is replaced at place 11 or 44.
LEMMA MoveReplace ==
    ASSUME CustodyType, Placed, NEW p \in Procs, Replace(p)
    PROVE  place[p] \in {11, 44} /\ Stays(p, place[p] + 1)
<1>1. At(p, "replace", "next") /\ Advance(p)
  BY DEF Replace
<1>2. place[p] \in {11, 44} /\ After(place[p]) = place[p] + 1
  BY <1>1, Onward DEF StandsAt, After
<1>. QED
  BY <1>1, <1>2, Onward DEF Stays

\* verify looks at the installed files at place 23.
LEMMA MoveFiles ==
    ASSUME CustodyType, Placed, NEW p \in Procs, CheckFiles(p)
    PROVE  place[p] = 23 /\ Stays(p, 24)
<1>1. At(p, "files", "full") /\ Advance(p)
  BY DEF CheckFiles
<1>2. place[p] = 23 /\ After(place[p]) = 24
  BY <1>1, Onward DEF StandsAt, After
<1>. QED
  BY <1>1, <1>2, Onward DEF Stays

\* rollback looks at what is left of an installation at place 29.
LEMMA MovePartial ==
    ASSUME CustodyType, Placed, NEW p \in Procs, CheckPartial(p)
    PROVE  place[p] = 29 /\ Stays(p, 30)
<1>1. At(p, "check", "partial") /\ Advance(p)
  BY DEF CheckPartial
<1>2. place[p] = 29 /\ After(place[p]) = 30
  BY <1>1, Onward DEF StandsAt, After
<1>. QED
  BY <1>1, <1>2, Onward DEF Stays

\* The service manager is reloaded at place 20 or 34.
LEMMA MoveReload ==
    ASSUME CustodyType, Placed, NEW p \in Procs, Reload(p)
    PROVE  place[p] \in {20, 34} /\ Stays(p, place[p] + 1)
<1>1. At(p, "reload", "unit") /\ Advance(p)
  BY DEF Reload
<1>2. place[p] \in {20, 34} /\ After(place[p]) = place[p] + 1
  BY <1>1, Onward DEF StandsAt, After
<1>. QED
  BY <1>1, <1>2, Onward DEF Stays

\* The account is removed at place 45.
LEMMA MoveUserdel ==
    ASSUME CustodyType, Placed, NEW p \in Procs, remove_user(p)
    PROVE  place[p] = 45 /\ Stays(p, 37)
<1>1. At(p, "userdel", "user") /\ Advance(p)
  BY DEF remove_user
<1>2. place[p] = 45 /\ After(place[p]) = 37
  BY <1>1, Onward DEF StandsAt, After
<1>. QED
  BY <1>1, <1>2, Onward DEF Stays

\* The group is removed at place 37.
LEMMA MoveGroupdel ==
    ASSUME CustodyType, Placed, NEW p \in Procs, remove_group(p)
    PROVE  place[p] = 37 /\ Stays(p, 38)
<1>1. At(p, "groupdel", "group") /\ Advance(p)
  BY DEF remove_group
<1>2. place[p] = 37 /\ After(place[p]) = 38
  BY <1>1, Onward DEF StandsAt, After
<1>. QED
  BY <1>1, <1>2, Onward DEF Stays

\* rollback looks for what is left of account and group at place 38.
LEMMA MoveConfirm ==
    ASSUME CustodyType, Placed, NEW p \in Procs, ConfirmRemoval(p)
    PROVE  place[p] = 38 /\ Stays(p, 39)
<1>1. At(p, "confirm", "identity") /\ Advance(p)
  BY DEF ConfirmRemoval
<1>2. place[p] = 38 /\ After(place[p]) = 39
  BY <1>1, Onward DEF StandsAt, After
<1>. QED
  BY <1>1, <1>2, Onward DEF Stays

\* verify wants the unit loaded at place 24, rollback wants it gone at 35.
LEMMA MoveUnit ==
    ASSUME CustodyType, Placed, NEW p \in Procs, CheckUnit(p)
    PROVE  /\ Stays(p, place[p] + 1)
           /\ (place[p] = 24 /\ loaded) \/ (place[p] = 35 /\ ~loaded)
<1>1. CASE At(p, "unit", "loaded") /\ loaded
  <2>1. place[p] = 24 /\ After(place[p]) = place[p] + 1
    BY <1>1, Onward DEF StandsAt, After
  <2>. QED
    BY <1>1, <2>1, Onward DEF Stays, CheckUnit
<1>2. CASE At(p, "unit", "gone") /\ ~loaded
  <2>1. place[p] = 35 /\ After(place[p]) = place[p] + 1
    BY <1>2, Onward DEF StandsAt, After
  <2>. QED
    BY <1>2, <2>1, Onward DEF Stays, CheckUnit
<1>. QED
  BY <1>1, <1>2 DEF CheckUnit

\* The receipt is read at place 21 or 28, and is what the process goes on
\* with.
LEMMA MoveRead ==
    ASSUME CustodyType, Placed, NEW p \in Procs, ReadReceipt(p)
    PROVE  /\ place[p] \in {21, 28} /\ Moved(p, place[p] + 1, saved, proc[p].dir, proc[p].locked)
<1>1. saved \in Receipts
  BY DEF CustodyType
<1>2. PICK x : At(p, "receipt", x) /\ AdvanceWith(p, saved)
  BY DEF ReadReceipt
<1>3. place[p] \in {21, 28} /\ After(place[p]) = place[p] + 1
  BY <1>2, Onward DEF StandsAt, After
<1>4. Moved(p, After(place[p]), saved, proc[p].dir, proc[p].locked)
  BY <1>1, <1>2, Onward
<1>. QED
  BY <1>3, <1>4

\* verify compares the account at place 22; apply adopts its number at place
\* 8.
LEMMA MoveIdentity ==
    ASSUME CustodyType, Placed, NEW p \in Procs, CheckIdentity(p)
    PROVE  \/ place[p] = 22 /\ Stays(p, 23)
           \/ /\ place[p] = 8
              /\ Moved(p, 9, [id |-> proc[p].r.id, uid |-> user.uid], proc[p].dir, proc[p].locked)
<1>1. CASE At(p, "identity", "full") /\ Advance(p)
  <2>1. place[p] = 22 /\ After(place[p]) = 23
    BY <1>1, Onward DEF StandsAt, After
  <2>. QED
    BY <1>1, <2>1, Onward DEF Stays
<1>2. CASE At(p, "identity", "adopt") /\ AdvanceWith(p, [proc[p].r EXCEPT !.uid = user.uid])
  <2>1. place[p] = 8 /\ After(place[p]) = 9
    BY <1>2, Onward DEF StandsAt, After
  <2>2. proc[p].r \in Receipts /\ user.uid \in Nat
    BY DEF CustodyType, Processes, Users
  <2>3. [proc[p].r EXCEPT !.uid = user.uid] = [id |-> proc[p].r.id, uid |-> user.uid]
    BY <2>2 DEF Receipts
  <2>5. PICK r : r = [id |-> proc[p].r.id, uid |-> user.uid]
    OBVIOUS
  <2>6. r \in Receipts /\ AdvanceWith(p, r)
    BY <1>2, <2>2, <2>3, <2>5 DEF Receipts
  <2>4. Moved(p, After(place[p]), r, proc[p].dir, proc[p].locked)
    BY <1>2, <2>6, Onward
  <2>. QED
    BY <2>1, <2>4, <2>5
<1>. QED
  BY <1>1, <1>2 DEF CheckIdentity

\* The account is created at place 7, and an apply that could not create it
\* ends.
LEMMA MoveUseradd ==
    ASSUME CustodyType, Placed, NEW p \in Procs, create_user(p)
    PROVE  place[p] = 7 /\ (Stays(p, 8) \/ (user' = NoUser /\ Moved(p, 0, NoReceipt, 0, FALSE)))
<1>1. At(p, "useradd", "user")
  BY DEF create_user
<1>2. place[p] = 7 /\ After(place[p]) = 8
  BY <1>1, Onward DEF StandsAt, After
<1>3. CASE Advance(p)
  BY <1>1, <1>2, <1>3, Onward DEF Stays
<1>4. CASE user' = NoUser /\ proc' = [proc EXCEPT ![p] = Idle]
  BY <1>2, <1>4, Ends
<1>. QED
  BY <1>3, <1>4 DEF create_user

\* verify and apply answer at place 25, rollback at place 41.
LEMMA MoveAnswer ==
    ASSUME CustodyType, Placed, NEW p \in Procs, Answer(p)
    PROVE  /\ Moved(p, 0, NoReceipt, 0, FALSE)
           /\ \/ place[p] = 25 /\ answer' = [answer EXCEPT ![p] = "installed"]
              \/ place[p] = 41 /\ answer' = [answer EXCEPT ![p] = "rolled_back"]
<1>1. PICK line \in {"installed", "rolled_back"} :
        At(p, "answer", line) /\ answer' = [answer EXCEPT ![p] = line]
  BY DEF Answer
<1>2. (line = "installed" /\ place[p] = 25) \/ (line = "rolled_back" /\ place[p] = 41)
  BY <1>1, AtPlace DEF StandsAt
<1>. QED
  BY <1>1, <1>2, Ends DEF Answer

\* A process that stops on the way was at work, and is idle.
LEMMA MoveAbort ==
    ASSUME CustodyType, Placed, NEW p \in Procs, Abort(p)
    PROVE  place[p] # 0 /\ Moved(p, 0, NoReceipt, 0, FALSE)
  BY ActivePlace, Ends DEF Abort

\* An operation begins at the first place of its script and touches nothing
\* on the host.
LEMMA MoveBegin ==
    ASSUME CustodyType, Placed, NEW p \in Procs, apply(p) \/ verify(p) \/ rollback(p)
    PROVE  /\ place[p] = 0 /\ ops' = ops + 1
           /\ UNCHANGED <<host, edits>> /\ answer' = [answer EXCEPT ![p] = "none"]
           /\ \/ Moved(p, 1, [id |-> ops + 1, uid |-> 0], 0, FALSE)
              \/ Moved(p, 21, [id |-> 0, uid |-> 0], 0, FALSE)
              \/ Moved(p, 26, [id |-> 0, uid |-> 0], 0, FALSE)
<1>1. 1 \in Places /\ 21 \in Places /\ 26 \in Places /\ ops + 1 \in Nat /\ 0 \in Nat
  BY DEF Places, CustodyType
<1>2. ApplyScript = Todo(1) /\ VerifyScript = Todo(21) /\ RollbackScript = Todo(26)
  BY Scripts
<1>3. CASE apply(p)
  <2>1. Begin(p, Todo(1), ops + 1)
    BY <1>2, <1>3 DEF apply
  <2>2. place[p] = 0 /\ Moved(p, 1, [id |-> ops + 1, uid |-> 0], 0, FALSE)
    <3>1. 1 \in Places /\ 1 # 0
      BY <1>1
    <3>. QED
      BY <1>1, <2>1, <3>1, Begins
  <2>. QED
    BY <2>1, <2>2 DEF Begin
<1>4. CASE verify(p)
  <2>1. Begin(p, Todo(21), 0)
    BY <1>2, <1>4 DEF verify
  <2>2. place[p] = 0 /\ Moved(p, 21, [id |-> 0, uid |-> 0], 0, FALSE)
    <3>1. 21 \in Places /\ 21 # 0
      BY <1>1
    <3>. QED
      BY <1>1, <2>1, <3>1, Begins
  <2>. QED
    BY <2>1, <2>2 DEF Begin
<1>5. CASE rollback(p)
  <2>1. Begin(p, Todo(26), 0)
    BY <1>2, <1>5 DEF rollback
  <2>2. place[p] = 0 /\ Moved(p, 26, [id |-> 0, uid |-> 0], 0, FALSE)
    <3>1. 26 \in Places /\ 26 # 0
      BY <1>1
    <3>. QED
      BY <1>1, <2>1, <3>1, Begins
  <2>. QED
    BY <2>1, <2>2 DEF Begin
<1>. QED
  BY <1>3, <1>4, <1>5

Answers == [Procs -> {"none", "installed", "rolled_back"}]

\* The records the model writes out are receipts, accounts and groups.
LEMMA Values ==
    /\ NoReceipt \in Receipts /\ NoUser \in Users /\ NoGroup \in Groups
    /\ \A t, u \in Nat : [tag |-> t, uid |-> u, clean |-> TRUE] \in Users
    /\ \A g \in Nat, b \in BOOLEAN : [gid |-> g, own |-> b, clean |-> TRUE] \in Groups
    /\ \A o \in Hosts : o \in [Paths -> Conditions]
<1>1. NoReceipt \in Receipts
  BY DEF NoReceipt, Receipts
<1>2. NoUser \in Users
  BY DEF NoUser, Users
<1>3. NoGroup \in Groups
  BY DEF NoGroup, Groups
<1>4. \A t, u \in Nat : [tag |-> t, uid |-> u, clean |-> TRUE] \in Users
  BY DEF Users
<1>5. \A g \in Nat, b \in BOOLEAN : [gid |-> g, own |-> b, clean |-> TRUE] \in Groups
  BY DEF Groups
<1>. QED
  BY <1>1, <1>2, <1>3, <1>4, <1>5 DEF Hosts

\* A host with the condition of one path replaced is a host.
LEMMA SetPath ==
    ASSUME NEW o \in Hosts, NEW x \in Paths, NEW c \in Conditions, c = "foreign" => x \in Targets
    PROVE  [o EXCEPT ![x] = c] \in Hosts
<1>1. o \in [Paths -> Conditions]
  BY DEF Hosts
<1>2. [o EXCEPT ![x] = c] \in [Paths -> Conditions]
  BY <1>1
<1>3. ASSUME NEW y \in {"state", "receipt", "next"} PROVE [o EXCEPT ![x] = c][y] # "foreign"
  <2>1. y \in Paths /\ y \notin Targets /\ o[y] # "foreign"
    BY DEF Paths, Targets, Hosts
  <2>. QED
    BY <1>1, <2>1
<1>. QED
  BY <1>2, <1>3 DEF Hosts

\* When all processes are idle everybody is at place 0.
LEMMA IdlePlaced ==
    ASSUME proc = [p \in Procs |-> Idle]
    PROVE  /\ proc \in [Procs -> Processes] /\ Placed
           /\ \A p \in Procs : place[p] = 0 /\ proc[p] = Idle
<1>1. Idle \in Processes /\ Idle.todo = Todo(0) /\ 0 \in Places
  BY DEF Idle, Processes, NoReceipt, Receipts, Todo, Places
<1>2. proc \in [Procs -> Processes] /\ \A p \in Procs : proc[p] = Idle
  BY <1>1
<1>3. \A p \in Procs : place[p] = 0
  <2>. SUFFICES ASSUME NEW p \in Procs PROVE place[p] = 0
    OBVIOUS
  <2>. DEFINE n == CHOOSE m \in Places : proc[p].todo = Todo(m)
  <2>1. n \in Places /\ proc[p].todo = Todo(n)
    BY <1>1, <1>2
  <2>2. place[p] = n
    BY DEF place
  <2>. HIDE DEF n
  <2>. QED
    BY <1>1, <1>2, <2>1, <2>2, Distinct
<1>4. Placed
  BY <1>1, <1>2, <1>3 DEF Placed, place
<1>. QED
  BY <1>2, <1>3, <1>4

\* A host to begin with: nothing of the package on it, or all of it.
InstallInit == Init \/ Installed

\* The initial states are of the type, and everybody is at a place.
LEMMA TypeInit == InstallInit => CustodyType /\ Placed
<1>1. ASSUME Init PROVE CustodyType /\ Placed
  <2>1. proc \in [Procs -> Processes] /\ Placed
    BY <1>1, IdlePlaced DEF Init
  <2>2. obj \in Hosts
    BY <1>1 DEF Init, Hosts, Paths, Targets, Conditions
  <2>. QED
    BY <1>1, <2>1, <2>2, Values DEF Init, CustodyType
<1>2. ASSUME Installed PROVE CustodyType /\ Placed
  <2>1. proc \in [Procs -> Processes] /\ Placed
    BY <1>2, IdlePlaced DEF Installed
  <2>2. obj \in Hosts
    BY <1>2 DEF Installed, Hosts, Paths, Targets, Conditions
  <2>3. PICK n \in Uids :
           /\ saved = [id |-> 1, uid |-> n]
           /\ user = [tag |-> 1, uid |-> n, clean |-> TRUE]
           /\ group = [gid |-> n, own |-> TRUE, clean |-> TRUE]
    BY <1>2 DEF Installed
  <2>4. n \in Nat
    BY CustodyAssumption
  <2>5. saved \in Receipts /\ user \in Users /\ group \in Groups
    BY <2>3, <2>4, Values DEF Receipts
  <2>. QED
    BY <1>2, <2>1, <2>2, <2>5, Values DEF Installed, CustodyType
<1>. QED
  BY <1>1, <1>2 DEF InstallInit

HostType ==
    /\ obj \in Hosts
    /\ dirs \in Nat /\ saved \in Receipts /\ draft \in Receipts
    /\ user \in Users /\ group \in Groups
    /\ loaded \in BOOLEAN

\* A move keeps the type and the places, when what it leaves on the host is
\* of the type.
LEMMA TypeMove ==
    ASSUME CustodyType, Placed, NEW p \in Procs, NEW n, NEW r, NEW d, NEW l, Moved(p, n, r, d, l),
           HostType', Observe, ops' \in Nat, answer' \in Answers
    PROVE  CustodyType' /\ Placed'
<1>1. proc' \in [Procs -> Processes] /\ Placed'
  BY MovedPlaced
<1>2. seen' \subseteq Procs
  BY DEF Observe
<1>. QED
  BY <1>1, <1>2 DEF CustodyType, HostType, Answers

\* Every step of a script keeps the type and the places.
LEMMA TypeStep ==
    ASSUME CustodyType, Placed, NEW p \in Procs, HostStep(p), Observe
    PROVE  CustodyType' /\ Placed'
<1>0. HostType /\ ops \in Nat /\ answer \in Answers
  BY DEF CustodyType, HostType, Answers
<1>1. CASE Abort(p)
  BY <1>0, <1>1, MoveAbort, TypeMove DEF Abort, host, HostType
<1>2. CASE Open(p)
  BY <1>0, <1>2, MoveOpen, TypeMove DEF Open, host, HostType
<1>3. CASE Flock(p)
  BY <1>0, <1>3, MoveFlock, TypeMove DEF Flock, host, HostType
<1>4. CASE Replace(p)
  <2>1. HostType'
    <3>1. obj["next"] \in Conditions \ {"foreign"} /\ "next" \in Paths /\ "receipt" \in Paths
          /\ "absent" \in Conditions
      BY <1>0 DEF HostType, Hosts, Paths, Conditions
    <3>2. obj' = [[obj EXCEPT !["receipt"] = obj["next"]] EXCEPT !["next"] = "absent"]
      BY <1>4 DEF Replace
    <3>3. [obj EXCEPT !["receipt"] = obj["next"]] \in Hosts
      BY <1>0, <3>1, SetPath DEF HostType
    <3>4. obj' \in Hosts
      BY <3>1, <3>2, <3>3, SetPath
    <3>. QED
      BY <1>0, <1>4, <3>4, Values DEF Replace, HostType
  <2>. QED
    BY <1>0, <1>4, <2>1, MoveReplace, TypeMove DEF Replace, Stays
<1>5. CASE create_user(p)
  <2>1. HostType'
    <3>1. PICK k \in Uids :
            /\ group' = [gid |-> k, own |-> TRUE, clean |-> TRUE]
            /\ user' \in {[tag |-> proc[p].r.id, uid |-> k, clean |-> TRUE], NoUser}
      BY <1>5 DEF create_user
    <3>2. k \in Nat /\ proc[p].r.id \in Nat
      BY CustodyAssumption DEF CustodyType, Processes, Receipts
    <3>3. user' \in Users
      BY <3>1, <3>2, Values
    <3>4. group' \in Groups
      BY <3>1, <3>2, Values
    <3>. QED
      BY <1>0, <1>5, <3>3, <3>4 DEF create_user, HostType
  <2>. QED
    BY <1>0, <1>5, <2>1, MoveUseradd, TypeMove DEF create_user, Stays
<1>6. CASE ReadReceipt(p)
  <2>1. HostType' /\ ops' \in Nat /\ answer' \in Answers
    BY <1>0, <1>6 DEF ReadReceipt, host, HostType
  <2>. QED
    BY <1>6, <2>1, MoveRead, TypeMove
<1>7. CASE CheckIdentity(p)
  BY <1>0, <1>7, MoveIdentity, TypeMove DEF CheckIdentity, host, HostType, Stays
<1>8. CASE CheckFiles(p)
  BY <1>0, <1>8, MoveFiles, TypeMove DEF CheckFiles, host, HostType, Stays
<1>9. CASE CheckPartial(p)
  BY <1>0, <1>9, MovePartial, TypeMove DEF CheckPartial, host, HostType, Stays
<1>10. CASE CheckUnit(p)
  BY <1>0, <1>10, MoveUnit, TypeMove DEF CheckUnit, host, HostType, Stays
<1>11. CASE Reload(p)
  <2>1. HostType'
    BY <1>0, <1>11 DEF Reload, HostType
  <2>. QED
    BY <1>0, <1>11, <2>1, MoveReload, TypeMove DEF Reload, Stays
<1>12. CASE RecordUser(p)
  <2>1. HostType' /\ ops' \in Nat /\ answer' \in Answers
    BY <1>0, <1>12 DEF RecordUser, host, HostType
  <2>. QED
    BY <1>12, <2>1, MoveRecord, TypeMove
<1>13. CASE remove_user(p)
  <2>1. HostType'
    BY <1>0, <1>13, Values DEF remove_user, HostType
  <2>. QED
    BY <1>0, <1>13, <2>1, MoveUserdel, TypeMove DEF remove_user, Stays
<1>14. CASE remove_group(p)
  <2>1. HostType'
    BY <1>0, <1>14, Values DEF remove_group, HostType
  <2>. QED
    BY <1>0, <1>14, <2>1, MoveGroupdel, TypeMove DEF remove_group, Stays
<1>15. CASE ConfirmRemoval(p)
  BY <1>0, <1>15, MoveConfirm, TypeMove DEF ConfirmRemoval, host, HostType, Stays
<1>16. CASE Answer(p)
  <2>1. answer' \in Answers /\ ops' \in Nat /\ HostType'
    BY <1>0, <1>16, MoveAnswer DEF Answer, Answers, host, HostType
  <2>. QED
    BY <2>1, <1>16, MoveAnswer, TypeMove
<1>17. ASSUME NEW x \in Paths, Make(p, x) PROVE CustodyType' /\ Placed'
  <2>1. HostType'
    <3>1. obj' \in Hosts
      BY <1>0, <1>17, SetPath DEF Make, HostType, Conditions
    <3>2. dirs' \in Nat
      BY <1>0, <1>17 DEF Make, HostType
    <3>. QED
      BY <1>0, <1>17, <3>1, <3>2 DEF Make, HostType
  <2>. QED
    BY <1>0, <1>17, <2>1, MoveMake, TypeMove DEF Make, Stays
<1>18. ASSUME NEW x \in Paths, Own(p, x) PROVE CustodyType' /\ Placed'
  <2>1. proc[p].r \in Receipts
    BY DEF CustodyType, Processes
  <2>2. HostType'
    <3>1. obj' \in Hosts
      BY <1>0, <1>18, SetPath DEF Own, HostType, Conditions
    <3>. QED
      BY <1>0, <1>18, <2>1, <3>1 DEF Own, HostType
  <2>. QED
    BY <1>0, <1>18, <2>2, MoveOwn, TypeMove DEF Own, Stays
<1>19. ASSUME NEW x \in Paths, Drop(p, x) PROVE CustodyType' /\ Placed'
  <2>1. HostType'
    <3>1. obj' \in Hosts
      BY <1>0, <1>19, SetPath DEF Drop, HostType, Conditions
    <3>. QED
      BY <1>0, <1>19, <3>1, Values DEF Drop, HostType
  <2>. QED
    BY <1>0, <1>19, <2>1, MoveDrop, TypeMove DEF Drop, Stays
<1>. QED
  BY <1>1, <1>2, <1>3, <1>4, <1>5, <1>6, <1>7, <1>8, <1>9, <1>10, <1>11, <1>12, <1>13, <1>14,
     <1>15, <1>16, <1>17, <1>18, <1>19 DEF HostStep

\* An edit of the administrator keeps the type and moves nobody.
LEMMA TypeAdmin ==
    ASSUME CustodyType, Placed, AdminEdit, Observe
    PROVE  CustodyType' /\ Placed' /\ place' = place
<1>1. proc' = proc /\ place' = place /\ Placed'
  BY DEF AdminEdit, Placed, place
<1>2. CASE AdminFile
  <2>1. obj' \in Hosts
    BY <1>2, SetPath DEF AdminFile, CustodyType, Conditions, Paths
  <2>. QED
    BY <1>1, <1>2, <2>1 DEF AdminEdit, AdminFile, CustodyType, Observe
<1>3. CASE AdminAccount
  <2>1. user' \in Users /\ group' \in Groups
    <3>1. CASE \E k \in Uids : /\ group' = [gid |-> k, own |-> FALSE, clean |-> TRUE]
                               /\ user' \in {NoUser, [tag |-> 0, uid |-> k, clean |-> TRUE]}
      BY <3>1, CustodyAssumption, Values
    <3>2. CASE user' = [user EXCEPT !.clean = ~@] /\ group' = group
      BY <3>2 DEF CustodyType, Users
    <3>. QED
      BY <1>3, <3>1, <3>2 DEF AdminAccount
  <2>. QED
    BY <1>1, <1>3, <2>1 DEF AdminEdit, AdminAccount, CustodyType, Observe
<1>. QED
  BY <1>1, <1>2, <1>3 DEF AdminEdit

\* The start of an operation keeps the type and the places.
LEMMA TypeBegin ==
    ASSUME CustodyType, Placed, NEW p \in Procs, apply(p) \/ verify(p) \/ rollback(p), Observe
    PROVE  CustodyType' /\ Placed'
<1>0. HostType /\ ops \in Nat /\ answer \in Answers
  BY DEF CustodyType, HostType, Answers
<1>1. /\ ops' = ops + 1 /\ UNCHANGED host /\ answer' = [answer EXCEPT ![p] = "none"]
  BY MoveBegin
<1>2. ops' \in Nat /\ answer' \in Answers
  BY <1>0, <1>1 DEF Answers
<1>3. HostType'
  BY <1>0, <1>1 DEF HostType, host
<1>. QED
  BY <1>2, <1>3, MoveBegin, TypeMove

(***************************************************************************)
(* What is the administrator's.                                            *)
(***************************************************************************)
NoForeign == \A x \in Targets : obj[x] # "foreign"

ForeignAt(n, r) ==
    /\ n = 13 => obj["opt"] # "foreign"
    /\ n = 15 => obj["etc"] # "foreign"
    /\ n = 17 => obj["gates"] # "foreign"
    /\ n = 19 => obj["unit"] # "foreign"
    /\ n \in 30..45 => NoForeign /\ (user = NoUser \/ user.tag # 0)
    /\ n \in 1..20 \cup 29..45 => r.id # 0

ForeignGroup == group # NoGroup /\ ~group.own

ReceiptsNamed ==
    /\ obj["receipt"] = "ok" => saved.id # 0
    /\ obj["next"] = "ok" => draft.id # 0

OwnAccountOwnGroup == user.tag # 0 => group.own \/ group = NoGroup

\* No receipt on disk or in a process names the number of a foreign group.
GroupUnnamed ==
    ForeignGroup =>
      /\ group.gid # 0 /\ group.gid # saved.uid
      /\ \A p \in Procs : group.gid # proc[p].r.uid /\ (place[p] \in {11, 44} => group.gid # draft.uid)

ForeignInv ==
    /\ \A p \in Procs : ForeignAt(place[p], proc[p].r)
    /\ ReceiptsNamed /\ OwnAccountOwnGroup /\ GroupUnnamed

\* What other programs may do meanwhile: nothing to the host and the scripts,
\* but their processes, those under the account's number too, come and go.
Others == UNCHANGED <<host, proc, answer, ops, edits>>

InstallNext == (Step \/ Others) /\ Observe

\* One step of ForeignUntouched.
ForeignStays ==
    /\ \A x \in Targets : obj[x] = "foreign" => obj'[x] = "foreign"
    /\ user # NoUser /\ (user.tag = 0 \/ ~user.clean) => user'.uid = user.uid
    /\ group # NoGroup /\ ~group.own => group' = group

\* A move keeps ForeignInv, when it makes nothing foreign and takes no number
\* of a foreign group.
LEMMA ForeignMove ==
    ASSUME CustodyType, Placed, ForeignInv,
           NEW p \in Procs, NEW n, NEW r, NEW d, NEW l, Moved(p, n, r, d, l),
           \A x \in Targets : obj'[x] = "foreign" => obj[x] = "foreign",
           user' = user \/ user' = NoUser \/ user'.tag # 0,
           ForeignGroup' => group' = group,
           ForeignAt(n, r)', ReceiptsNamed', OwnAccountOwnGroup',
           ForeignGroup' => /\ group.gid # saved'.uid /\ group.gid # r.uid
                            /\ draft' = draft \/ group.gid # draft'.uid
                            /\ n \in {11, 44} => group.gid # draft'.uid
    PROVE  ForeignInv'
<1>1. /\ place' = [place EXCEPT ![p] = n] /\ proc'[p].r = r
      /\ \A q \in Procs \ {p} : proc'[q] = proc[q]
      /\ place \in [Procs -> Places]
  BY MovedPlaced DEF Placed
<1>2. /\ place'[p] = n
      /\ \A q \in Procs \ {p} : place'[q] = place[q] /\ proc'[q].r = proc[q].r
  BY <1>1
<1>3. ASSUME NEW q \in Procs PROVE ForeignAt(place[q], proc[q].r)'
  <2>1. CASE q = p
    BY <1>1, <1>2, <2>1 DEF ForeignAt
  <2>2. CASE q # p
    <3>1. PICK m, t : m = place[q] /\ t = proc[q].r /\ ForeignAt(m, t)
      BY DEF ForeignInv
    <3>2. NoForeign => NoForeign'
      BY DEF NoForeign
    <3>3. {"opt", "etc", "gates", "unit"} \subseteq Targets
      BY DEF Targets
    <3>4. ForeignAt(m, t)'
      BY <3>1, <3>2, <3>3 DEF ForeignAt
    <3>5. place'[q] = m /\ proc'[q].r = t
      BY <1>2, <2>2, <3>1
    <3>. QED
      BY <3>4, <3>5 DEF ForeignAt
  <2>. QED
    BY <2>1, <2>2
<1>4. GroupUnnamed'
  <2>. SUFFICES ASSUME ForeignGroup'
                PROVE  /\ group'.gid # 0 /\ group'.gid # saved'.uid
                       /\ \A q \in Procs : /\ group'.gid # proc'[q].r.uid
                                           /\ place'[q] \in {11, 44} => group'.gid # draft'.uid
    BY DEF GroupUnnamed
  <2>1. group' = group /\ ForeignGroup
    BY DEF ForeignGroup
  <2>2. /\ group.gid # 0
        /\ \A q \in Procs : group.gid # proc[q].r.uid /\ (place[q] \in {11, 44} => group.gid # draft.uid)
    BY <2>1 DEF ForeignInv, GroupUnnamed
  <2>. QED
    BY <1>1, <1>2, <2>1, <2>2
<1>. QED
  BY <1>3, <1>4 DEF ForeignInv

\* Steps that read the host and leave it as it is.
LEMMA ForeignSame ==
    ASSUME CustodyType, Placed, ForeignInv,
           NEW p \in Procs, NEW n, NEW r, NEW d, NEW l, Moved(p, n, r, d, l), UNCHANGED host,
           ForeignAt(n, r), n \notin {11, 44}, ForeignGroup => group.gid # r.uid
    PROVE  ForeignInv' /\ ForeignStays
<1>1. obj' = obj /\ saved' = saved /\ draft' = draft /\ user' = user /\ group' = group
  BY DEF host
<1>2. ForeignAt(n, r)' /\ ReceiptsNamed' /\ OwnAccountOwnGroup' /\ (ForeignGroup' <=> ForeignGroup)
  BY <1>1 DEF ForeignAt, NoForeign, ForeignInv, ReceiptsNamed, OwnAccountOwnGroup, ForeignGroup
<1>3. ForeignGroup => group.gid # saved.uid
  BY DEF ForeignInv, GroupUnnamed
<1>4. ForeignInv'
  BY <1>1, <1>2, <1>3, ForeignMove
<1>. QED
  BY <1>1, <1>4 DEF ForeignStays

\* Creating a path keeps ForeignInv and leaves alone what is foreign.
LEMMA ForeignMake ==
    ASSUME CustodyType, Placed, ForeignInv, NEW p \in Procs, NEW x \in Paths, Make(p, x)
    PROVE  ForeignInv' /\ ForeignStays
<1>1. obj \in [Paths -> Conditions] /\ obj[x] = "absent" /\ obj' = [obj EXCEPT ![x] = "raw"]
  BY Values DEF CustodyType, Make
<1>2. saved' = saved /\ draft' = draft /\ user' = user /\ group' = group
  BY DEF Make
<1>3. \A y \in Paths : obj'[y] = (IF y = x THEN "raw" ELSE obj[y])
  BY <1>1
<1>4. Targets \subseteq Paths /\ {"receipt", "next"} \subseteq Paths /\ {"opt", "etc", "gates", "unit"} \subseteq Targets
  BY DEF Paths, Targets
<1>5. PICK n \in Places : n = place[p]
  BY DEF Placed
<1>6. PICK r : r = proc[p].r /\ ForeignAt(n, r)
  BY <1>5 DEF ForeignInv
<1>7. /\ Moved(p, n + 1, r, proc[p].dir, proc[p].locked) /\ n \in {1, 5, 9, 42, 12, 14, 16, 18}
      /\ n = 12 => x = "opt"
      /\ n = 14 => x = "etc"
      /\ n = 16 => x = "gates"
      /\ n = 18 => x = "unit"
  BY <1>5, <1>6, MoveMake DEF Stays
<1>8. ForeignAt(n + 1, r)'
  BY <1>2, <1>3, <1>4, <1>6, <1>7 DEF ForeignAt, NoForeign
<1>9. ReceiptsNamed' /\ OwnAccountOwnGroup'
  BY <1>2, <1>3, <1>4 DEF ForeignInv, ReceiptsNamed, OwnAccountOwnGroup
<1>10. ForeignGroup => group.gid # saved.uid /\ group.gid # r.uid
  BY <1>6 DEF ForeignInv, GroupUnnamed
<1>11. (ForeignGroup' <=> ForeignGroup) /\ n + 1 \notin {11, 44}
  BY <1>2, <1>7 DEF ForeignGroup
<1>12. ForeignInv'
  BY <1>2, <1>3, <1>4, <1>7, <1>8, <1>9, <1>10, <1>11, ForeignMove
<1>. QED
  BY <1>1, <1>2, <1>3, <1>4, <1>12 DEF ForeignStays

\* Finishing a path keeps ForeignInv and leaves alone what is foreign.
LEMMA ForeignOwn ==
    ASSUME CustodyType, Placed, ForeignInv, NEW p \in Procs, NEW x \in Paths, Own(p, x)
    PROVE  ForeignInv' /\ ForeignStays
<1>1. obj \in [Paths -> Conditions] /\ obj' = [obj EXCEPT ![x] = "ok"]
  BY Values DEF CustodyType, Own
<1>2. /\ user' = user /\ group' = group
      /\ saved' = IF x = "receipt" THEN proc[p].r ELSE saved
      /\ draft' = IF x = "next" THEN proc[p].r ELSE draft
  BY DEF Own
<1>3. \A y \in Paths : obj'[y] = (IF y = x THEN "ok" ELSE obj[y])
  BY <1>1
<1>4. Targets \subseteq Paths /\ {"receipt", "next"} \subseteq Paths /\ Targets = {"opt", "etc", "gates", "unit"}
  BY DEF Paths, Targets
<1>5. PICK n \in Places : n = place[p]
  BY DEF Placed
<1>6. PICK r : r = proc[p].r /\ ForeignAt(n, r)
  BY <1>5 DEF ForeignInv
<1>7. /\ Moved(p, n + 1, r, proc[p].dir, proc[p].locked) /\ n \in {2, 6, 10, 43, 13, 15, 17, 19}
      /\ x = "opt" => n = 13
      /\ x = "etc" => n = 15
      /\ x = "gates" => n = 17
      /\ x = "unit" => n = 19
      /\ n \in {10, 43} <=> x = "next"
  BY <1>5, <1>6, MoveOwn DEF Stays
<1>8. x \in Targets => obj[x] # "foreign"
  BY <1>4, <1>6, <1>7 DEF ForeignAt
<1>9. ForeignAt(n + 1, r)' /\ r.id # 0
  BY <1>2, <1>3, <1>4, <1>6, <1>7 DEF ForeignAt, NoForeign
<1>10. ReceiptsNamed' /\ OwnAccountOwnGroup'
  BY <1>2, <1>3, <1>4, <1>6, <1>9 DEF ForeignInv, ReceiptsNamed, OwnAccountOwnGroup
<1>11. ForeignGroup => group.gid # saved.uid /\ group.gid # r.uid
  BY <1>6 DEF ForeignInv, GroupUnnamed
<1>12. ForeignGroup' <=> ForeignGroup
  BY <1>2 DEF ForeignGroup
<1>13. n + 1 \in {11, 44} => draft' = r
  BY <1>2, <1>6, <1>7
<1>14. ForeignGroup' => /\ group.gid # saved'.uid /\ group.gid # r.uid
                        /\ draft' = draft \/ group.gid # draft'.uid
                        /\ n + 1 \in {11, 44} => group.gid # draft'.uid
  BY <1>2, <1>6, <1>11, <1>12, <1>13
<1>15. \A y \in Targets : obj'[y] = "foreign" => obj[y] = "foreign"
  BY <1>3, <1>4
<1>16. ForeignInv'
  BY <1>2, <1>7, <1>9, <1>10, <1>14, <1>15, ForeignMove
<1>. QED
  BY <1>2, <1>3, <1>4, <1>8, <1>16 DEF ForeignStays

\* Removing a path keeps ForeignInv and leaves alone what is foreign.
LEMMA ForeignDrop ==
    ASSUME CustodyType, Placed, ForeignInv, NEW p \in Procs, NEW x \in Paths, Drop(p, x)
    PROVE  ForeignInv' /\ ForeignStays
<1>1. obj \in [Paths -> Conditions] /\ obj' = [obj EXCEPT ![x] = "absent"]
  BY Values DEF CustodyType, Drop
<1>2. /\ user' = user /\ group' = group /\ draft' = draft
      /\ saved' = IF x = "receipt" THEN NoReceipt ELSE saved
  BY DEF Drop
<1>3. \A y \in Paths : obj'[y] = (IF y = x THEN "absent" ELSE obj[y])
  BY <1>1
<1>4. Targets \subseteq Paths /\ {"receipt", "next"} \subseteq Paths /\ Targets = {"opt", "etc", "gates", "unit"}
  BY DEF Paths, Targets
<1>5. PICK n \in Places : n = place[p]
  BY DEF Placed
<1>6. PICK r : r = proc[p].r /\ ForeignAt(n, r)
  BY <1>5 DEF ForeignInv
<1>7. Moved(p, n + 1, r, proc[p].dir, proc[p].locked) /\ n \in {30, 31, 32, 33, 39, 40}
  BY <1>5, <1>6, MoveDrop DEF Stays
<1>8. NoForeign
  BY <1>6, <1>7 DEF ForeignAt
<1>9. ForeignAt(n + 1, r)'
  BY <1>2, <1>3, <1>4, <1>6, <1>7 DEF ForeignAt, NoForeign
<1>10. ReceiptsNamed' /\ OwnAccountOwnGroup'
  BY <1>2, <1>3, <1>4 DEF ForeignInv, ReceiptsNamed, OwnAccountOwnGroup
<1>11. ForeignGroup => group.gid # saved.uid /\ group.gid # r.uid /\ group.gid # 0
  BY <1>6 DEF ForeignInv, GroupUnnamed
<1>12. (ForeignGroup' <=> ForeignGroup) /\ n + 1 \notin {11, 44} /\ NoReceipt.uid = 0
  BY <1>2, <1>7 DEF ForeignGroup, NoReceipt
<1>13. ForeignInv'
  BY <1>2, <1>3, <1>4, <1>7, <1>9, <1>10, <1>11, <1>12, ForeignMove
<1>. QED
  BY <1>2, <1>8, <1>13 DEF ForeignStays, NoForeign

\* Replacing the receipt keeps ForeignInv and leaves alone what is foreign.
LEMMA ForeignReplace ==
    ASSUME CustodyType, Placed, ForeignInv, NEW p \in Procs, Replace(p)
    PROVE  ForeignInv' /\ ForeignStays
<1>1. obj \in [Paths -> Conditions]
      /\ obj' = [obj EXCEPT !["receipt"] = obj["next"], !["next"] = "absent"]
  BY Values DEF CustodyType, Replace
<1>2. user' = user /\ group' = group /\ saved' = draft /\ draft' = NoReceipt
  BY DEF Replace
<1>4. Targets \subseteq Paths /\ {"receipt", "next"} \subseteq Paths /\ Targets = {"opt", "etc", "gates", "unit"}
  BY DEF Paths, Targets
<1>3. obj'["next"] = "absent" /\ obj'["receipt"] = obj["next"] /\ \A y \in Targets : obj'[y] = obj[y]
  BY <1>1, <1>4
<1>5. PICK n \in Places : n = place[p]
  BY DEF Placed
<1>6. PICK r : r = proc[p].r /\ ForeignAt(n, r)
  BY <1>5 DEF ForeignInv
<1>7. Moved(p, n + 1, r, proc[p].dir, proc[p].locked) /\ n \in {11, 44}
  BY <1>5, <1>6, MoveReplace DEF Stays
<1>9. ForeignAt(n + 1, r)'
  BY <1>2, <1>3, <1>4, <1>6, <1>7 DEF ForeignAt, NoForeign
<1>10. ReceiptsNamed' /\ OwnAccountOwnGroup'
  BY <1>2, <1>3 DEF ForeignInv, ReceiptsNamed, OwnAccountOwnGroup
<1>11. ForeignGroup => group.gid # draft.uid /\ group.gid # r.uid /\ group.gid # 0
  BY <1>5, <1>6, <1>7 DEF ForeignInv, GroupUnnamed
<1>12. (ForeignGroup' <=> ForeignGroup) /\ n + 1 \notin {11, 44} /\ NoReceipt.uid = 0
  BY <1>2, <1>7 DEF ForeignGroup, NoReceipt
<1>13. ForeignInv'
  BY <1>2, <1>3, <1>7, <1>9, <1>10, <1>11, <1>12, ForeignMove
<1>. QED
  BY <1>2, <1>3, <1>13 DEF ForeignStays

\* Creating the account keeps ForeignInv and leaves alone what is foreign.
LEMMA ForeignUseradd ==
    ASSUME CustodyType, Placed, ForeignInv, NEW p \in Procs, create_user(p)
    PROVE  ForeignInv' /\ ForeignStays
<1>1. /\ user = NoUser /\ group = NoGroup
      /\ obj' = obj /\ saved' = saved /\ draft' = draft
  BY DEF create_user
<1>2. PICK k \in Uids :
        /\ group' = [gid |-> k, own |-> TRUE, clean |-> TRUE]
        /\ user' = [tag |-> proc[p].r.id, uid |-> k, clean |-> TRUE] \/ user' = NoUser
  BY DEF create_user
<1>3. group'.own /\ ~ForeignGroup'
  BY <1>2 DEF ForeignGroup
<1>4. PICK r : r = proc[p].r /\ ForeignAt(7, r) /\ place[p] = 7
  BY MoveUseradd DEF ForeignInv
<1>5. r.id # 0
  BY <1>4 DEF ForeignAt
<1>6. user' = NoUser \/ user'.tag # 0
  BY <1>2, <1>4, <1>5
<1>7. ReceiptsNamed' /\ OwnAccountOwnGroup'
  BY <1>1, <1>3 DEF ForeignInv, ReceiptsNamed, OwnAccountOwnGroup
<1>8. ForeignAt(8, r)' /\ ForeignAt(0, NoReceipt)'
  BY <1>5 DEF ForeignAt
<1>9. Moved(p, 8, r, proc[p].dir, proc[p].locked) \/ Moved(p, 0, NoReceipt, 0, FALSE)
  BY <1>4, MoveUseradd DEF Stays
<1>10. ForeignInv'
  BY <1>1, <1>3, <1>6, <1>7, <1>8, <1>9, ForeignMove
<1>. QED
  BY <1>1, <1>10 DEF ForeignStays

\* A reload keeps ForeignInv and leaves alone what is foreign.
LEMMA ForeignReload ==
    ASSUME CustodyType, Placed, ForeignInv, NEW p \in Procs, Reload(p)
    PROVE  ForeignInv' /\ ForeignStays
<1>1. obj' = obj /\ saved' = saved /\ draft' = draft /\ user' = user /\ group' = group
  BY DEF Reload
<1>2. PICK n \in Places : n = place[p]
  BY DEF Placed
<1>3. PICK r : r = proc[p].r /\ ForeignAt(n, r)
  BY <1>2 DEF ForeignInv
<1>4. Moved(p, n + 1, r, proc[p].dir, proc[p].locked) /\ n \in {20, 34}
  BY <1>2, <1>3, MoveReload DEF Stays
<1>5. ForeignAt(n + 1, r)'
  BY <1>1, <1>3, <1>4 DEF ForeignAt, NoForeign
<1>6. ReceiptsNamed' /\ OwnAccountOwnGroup'
  BY <1>1 DEF ForeignInv, ReceiptsNamed, OwnAccountOwnGroup
<1>7. ForeignGroup => group.gid # saved.uid /\ group.gid # r.uid
  BY <1>3 DEF ForeignInv, GroupUnnamed
<1>8. (ForeignGroup' <=> ForeignGroup) /\ n + 1 \notin {11, 44}
  BY <1>1, <1>4 DEF ForeignGroup
<1>9. ForeignInv'
  BY <1>1, <1>4, <1>5, <1>6, <1>7, <1>8, ForeignMove
<1>. QED
  BY <1>1, <1>9 DEF ForeignStays

\* Removing the account keeps ForeignInv and leaves alone what is foreign.
LEMMA ForeignUserdel ==
    ASSUME CustodyType, Placed, ForeignInv, NEW p \in Procs, remove_user(p)
    PROVE  ForeignInv' /\ ForeignStays
<1>1. /\ obj' = obj /\ saved' = saved /\ draft' = draft /\ user' = NoUser /\ group' \in {group, NoGroup}
      /\ user.tag = proc[p].r.id /\ user.clean
  BY DEF remove_user, Identity
<1>2. PICK r : r = proc[p].r /\ ForeignAt(45, r) /\ place[p] = 45
  BY MoveUserdel DEF ForeignInv
<1>3. r.id # 0 /\ NoForeign
  BY <1>2 DEF ForeignAt
<1>4. group.own \/ group = NoGroup
  BY <1>1, <1>2, <1>3 DEF ForeignInv, OwnAccountOwnGroup
<1>5. ~ForeignGroup' /\ NoUser.tag = 0
  BY <1>1, <1>4 DEF ForeignGroup, NoUser
<1>6. ReceiptsNamed' /\ OwnAccountOwnGroup'
  BY <1>1, <1>5 DEF ForeignInv, ReceiptsNamed, OwnAccountOwnGroup
<1>7. ForeignAt(37, r)'
  BY <1>1, <1>3 DEF ForeignAt, NoForeign
<1>8. Moved(p, 37, r, proc[p].dir, proc[p].locked)
  BY <1>2, MoveUserdel DEF Stays
<1>9. ForeignInv'
  BY <1>1, <1>5, <1>6, <1>7, <1>8, ForeignMove
<1>. QED
  BY <1>1, <1>2, <1>3, <1>4, <1>9 DEF ForeignStays

\* Removing the group keeps ForeignInv and leaves alone what is foreign.
LEMMA ForeignGroupdel ==
    ASSUME CustodyType, Placed, ForeignInv, NEW p \in Procs, remove_group(p)
    PROVE  ForeignInv' /\ ForeignStays
<1>1. /\ obj' = obj /\ saved' = saved /\ draft' = draft /\ user' = user /\ group' = NoGroup
      /\ PartialIdentity(proc[p].r)
  BY DEF remove_group
<1>2. PICK r : r = proc[p].r /\ ForeignAt(37, r) /\ place[p] = 37
  BY MoveGroupdel DEF ForeignInv
<1>3. r.id # 0 /\ NoForeign /\ (user = NoUser \/ user.tag # 0)
  BY <1>2 DEF ForeignAt
<1>4. ~ForeignGroup
  <2>1. CASE user = NoUser
    BY <1>1, <1>2, <2>1 DEF PartialIdentity, ForeignInv, GroupUnnamed, ForeignGroup
  <2>2. CASE user # NoUser
    BY <1>3, <2>2 DEF ForeignInv, OwnAccountOwnGroup, ForeignGroup
  <2>. QED
    BY <2>1, <2>2
<1>5. ~ForeignGroup'
  BY <1>1 DEF ForeignGroup
<1>6. ReceiptsNamed' /\ OwnAccountOwnGroup'
  BY <1>1 DEF ForeignInv, ReceiptsNamed, OwnAccountOwnGroup
<1>7. ForeignAt(38, r)'
  BY <1>1, <1>3 DEF ForeignAt, NoForeign
<1>8. Moved(p, 38, r, proc[p].dir, proc[p].locked)
  BY <1>2, MoveGroupdel DEF Stays
<1>9. ForeignInv'
  BY <1>1, <1>5, <1>6, <1>7, <1>8, ForeignMove
<1>. QED
  BY <1>1, <1>4, <1>9 DEF ForeignStays, ForeignGroup

\* A step that only looks or moves keeps ForeignInv and leaves alone what is
\* foreign.
LEMMA ForeignChecks ==
    ASSUME CustodyType, Placed, ForeignInv, NEW p \in Procs,
           \/ Abort(p) \/ Open(p) \/ Flock(p) \/ ReadReceipt(p) \/ CheckIdentity(p) \/ CheckFiles(p)
           \/ CheckPartial(p) \/ CheckUnit(p) \/ RecordUser(p) \/ ConfirmRemoval(p) \/ Answer(p)
    PROVE  ForeignInv' /\ ForeignStays
<1>1. UNCHANGED host
  BY DEF Abort, Open, Flock, ReadReceipt, CheckIdentity, CheckFiles, CheckPartial, CheckUnit,
         RecordUser, ConfirmRemoval, Answer
<1>2. PICK n \in Places : n = place[p]
  BY DEF Placed
<1>3. PICK r : r = proc[p].r /\ ForeignAt(n, r)
  BY <1>2 DEF ForeignInv
<1>4. ForeignGroup => group.gid # r.uid /\ group.gid # saved.uid /\ group.gid # 0
  BY <1>3 DEF ForeignInv, GroupUnnamed
<1>5. CASE Abort(p) \/ Answer(p)
  <2>1. Moved(p, 0, NoReceipt, 0, FALSE)
    BY <1>5, MoveAbort, MoveAnswer
  <2>2. ForeignAt(0, NoReceipt) /\ 0 \notin {11, 44}
    BY DEF ForeignAt
  <2>3. NoReceipt.uid = 0
    BY DEF NoReceipt
  <2>. QED
    BY <1>1, <1>4, <2>1, <2>2, <2>3, ForeignSame
<1>6. CASE Open(p)
  <2>1. Moved(p, n + 1, r, dirs, proc[p].locked) /\ n \in {3, 26}
    BY <1>2, <1>3, <1>6, MoveOpen
  <2>2. ForeignAt(n + 1, r) /\ n + 1 \notin {11, 44}
    BY <1>3, <2>1 DEF ForeignAt
  <2>. QED
    BY <1>1, <1>4, <2>1, <2>2, ForeignSame
<1>7. CASE Flock(p)
  <2>1. Moved(p, n + 1, r, proc[p].dir, TRUE) /\ n \in {4, 27}
    BY <1>2, <1>3, <1>7, MoveFlock
  <2>2. ForeignAt(n + 1, r) /\ n + 1 \notin {11, 44}
    BY <1>3, <2>1 DEF ForeignAt
  <2>. QED
    BY <1>1, <1>4, <2>1, <2>2, ForeignSame
<1>8. CASE ReadReceipt(p)
  <2>1. Moved(p, n + 1, saved, proc[p].dir, proc[p].locked) /\ n \in {21, 28}
    BY <1>2, <1>3, <1>8, MoveRead
  <2>2. saved.id # 0
    BY <1>8 DEF ReadReceipt, ReceiptReadable, ForeignInv, ReceiptsNamed
  <2>3. ForeignAt(n + 1, saved) /\ n + 1 \notin {11, 44}
    BY <2>1, <2>2 DEF ForeignAt
  <2>. QED
    BY <1>1, <1>4, <2>1, <2>3, ForeignSame
<1>9. CASE CheckIdentity(p)
  <2>1. CASE n = 22 /\ Stays(p, 23)
    <3>1. Moved(p, 23, r, proc[p].dir, proc[p].locked) /\ ForeignAt(23, r)
      BY <1>3, <2>1 DEF Stays, ForeignAt
    <3>. QED
      BY <1>1, <1>4, <3>1, ForeignSame
  <2>2. CASE n = 8 /\ Moved(p, 9, [id |-> r.id, uid |-> user.uid], proc[p].dir, proc[p].locked)
    <3>1. PICK t : t = [id |-> r.id, uid |-> user.uid]
      OBVIOUS
    <3>2. r.id # 0 /\ t.id = r.id /\ user.tag = r.id
      BY <1>3, <1>9, <2>2, <3>1 DEF ForeignAt, CheckIdentity, Identity
    <3>3. ForeignAt(9, t) /\ ~ForeignGroup
      BY <3>2 DEF ForeignAt, ForeignInv, OwnAccountOwnGroup, ForeignGroup
    <3>. QED
      BY <1>1, <2>2, <3>1, <3>3, ForeignSame
  <2>. QED
    BY <1>2, <1>3, <1>9, <2>1, <2>2, MoveIdentity
<1>10. CASE CheckFiles(p)
  <2>1. Moved(p, 24, r, proc[p].dir, proc[p].locked) /\ ForeignAt(24, r)
    BY <1>3, <1>10, MoveFiles DEF Stays, ForeignAt
  <2>. QED
    BY <1>1, <1>4, <2>1, ForeignSame
<1>11. CASE CheckPartial(p)
  <2>1. Moved(p, 30, r, proc[p].dir, proc[p].locked) /\ n = 29
    BY <1>2, <1>3, <1>11, MovePartial DEF Stays
  <2>2. PartialIdentity(r) /\ PartialFiles(r) /\ r.id # 0
    BY <1>3, <1>11, <2>1 DEF CheckPartial, ForeignAt
  <2>3. NoForeign /\ (user = NoUser \/ user.tag # 0)
    BY <2>2 DEF PartialIdentity, PartialFiles, Identity, NoForeign
  <2>4. ForeignAt(30, r)
    BY <2>2, <2>3 DEF ForeignAt
  <2>. QED
    BY <1>1, <1>4, <2>1, <2>4, ForeignSame
<1>12. CASE CheckUnit(p)
  <2>1. Moved(p, n + 1, r, proc[p].dir, proc[p].locked) /\ n \in {24, 35}
    BY <1>2, <1>3, <1>12, MoveUnit DEF Stays
  <2>2. ForeignAt(n + 1, r) /\ n + 1 \notin {11, 44}
    BY <1>3, <2>1 DEF ForeignAt
  <2>. QED
    BY <1>1, <1>4, <2>1, <2>2, ForeignSame
<1>13. CASE RecordUser(p)
  <2>0. n = 36
    BY <1>2, <1>13, MoveRecord
  <2>1. r.id # 0 /\ NoForeign /\ (user = NoUser \/ user.tag # 0)
    BY <1>3, <2>0 DEF ForeignAt
  <2>2. CASE user = NoUser /\ Moved(p, 37, r, proc[p].dir, proc[p].locked)
    <3>1. ForeignAt(37, r)
      BY <2>1 DEF ForeignAt
    <3>. QED
      BY <1>1, <1>4, <2>2, <3>1, ForeignSame
  <2>3. CASE user # NoUser /\ Moved(p, 42, [id |-> r.id, uid |-> user.uid], proc[p].dir, proc[p].locked)
    <3>1. PICK t : t = [id |-> r.id, uid |-> user.uid]
      OBVIOUS
    <3>2. t.id = r.id
      BY <3>1
    <3>3. ForeignAt(42, t) /\ ~ForeignGroup
      BY <2>1, <2>3, <3>2 DEF ForeignAt, ForeignInv, OwnAccountOwnGroup, ForeignGroup
    <3>. QED
      BY <1>1, <2>3, <3>1, <3>3, ForeignSame
  <2>. QED
    BY <1>3, <1>13, <2>2, <2>3, MoveRecord
<1>14. CASE ConfirmRemoval(p)
  <2>1. Moved(p, 39, r, proc[p].dir, proc[p].locked) /\ n = 38
    BY <1>2, <1>3, <1>14, MoveConfirm DEF Stays
  <2>2. ForeignAt(39, r)
    BY <1>3, <2>1 DEF ForeignAt
  <2>. QED
    BY <1>1, <1>4, <2>1, <2>2, ForeignSame
<1>. QED
  BY <1>5, <1>6, <1>7, <1>8, <1>9, <1>10, <1>11, <1>12, <1>13, <1>14

\* The start of an operation keeps ForeignInv and leaves alone what is
\* foreign.
LEMMA ForeignBegin ==
    ASSUME CustodyType, Placed, ForeignInv, NEW p \in Procs, apply(p) \/ verify(p) \/ rollback(p)
    PROVE  ForeignInv' /\ ForeignStays
<1>1. ForeignGroup => group.gid # 0
  BY DEF ForeignInv, GroupUnnamed
<1>2. UNCHANGED host /\ ops \in Nat
  BY MoveBegin DEF CustodyType
<1>3. ASSUME NEW n \in {1, 21, 26}, NEW id \in Nat, n = 1 => id # 0,
             Moved(p, n, [id |-> id, uid |-> 0], 0, FALSE)
      PROVE  ForeignInv' /\ ForeignStays
  <2>1. PICK t : t = [id |-> id, uid |-> 0]
    OBVIOUS
  <2>2. t.id = id /\ t.uid = 0
    BY <2>1
  <2>3. ForeignAt(n, t) /\ n \notin {11, 44}
    BY <1>3, <2>2 DEF ForeignAt
  <2>. QED
    BY <1>1, <1>2, <1>3, <2>1, <2>2, <2>3, ForeignSame
<1>4. PICK k \in Nat : k = ops + 1 /\ k # 0
  BY <1>2
<1>5. \/ Moved(p, 1, [id |-> k, uid |-> 0], 0, FALSE)
      \/ Moved(p, 21, [id |-> 0, uid |-> 0], 0, FALSE)
      \/ Moved(p, 26, [id |-> 0, uid |-> 0], 0, FALSE)
  BY <1>4, MoveBegin
<1>6. CASE Moved(p, 1, [id |-> k, uid |-> 0], 0, FALSE)
  <2>1. 1 \in {1, 21, 26}
    OBVIOUS
  <2>. QED
    BY <1>3, <1>4, <1>6, <2>1
<1>7. CASE Moved(p, 21, [id |-> 0, uid |-> 0], 0, FALSE)
  <2>1. 21 \in {1, 21, 26} /\ 21 # 1 /\ 0 \in Nat
    OBVIOUS
  <2>. QED
    BY <1>3, <1>7, <2>1
<1>8. CASE Moved(p, 26, [id |-> 0, uid |-> 0], 0, FALSE)
  <2>1. 26 \in {1, 21, 26} /\ 26 # 1 /\ 0 \in Nat
    OBVIOUS
  <2>. QED
    BY <1>3, <1>8, <2>1
<1>. QED
  BY <1>5, <1>6, <1>7, <1>8

\* An edit of the administrator keeps ForeignInv and leaves alone what is
\* foreign.
LEMMA ForeignAdmin ==
    ASSUME CustodyType, Placed, ForeignInv, AdminEdit
    PROVE  ForeignInv' /\ ForeignStays
<1>1. proc' = proc /\ place' = place /\ saved' = saved /\ draft' = draft
  BY DEF AdminEdit, place
<1>2. \A p \in Procs : place[p] = 0 /\ proc[p].r.uid = 0
  BY ActivePlace DEF AdminEdit, Quiet, Placed, Idle, NoReceipt
<1>3. \A p \in Procs : ForeignAt(place[p], proc[p].r)'
  BY <1>1, <1>2 DEF ForeignAt
<1>4. obj \in [Paths -> Conditions]
  BY Values DEF CustodyType
<1>5. CASE AdminFile
  <2>1. user' = user /\ group' = group
    BY <1>5 DEF AdminFile
  <2>2. PICK x \in Targets : obj' = [obj EXCEPT ![x] = "foreign"]
    BY <1>5 DEF AdminFile
  <2>3. obj'["receipt"] = obj["receipt"] /\ obj'["next"] = obj["next"]
    BY <1>4, <2>2 DEF Targets, Paths
  <2>4. \A y \in Targets : obj[y] = "foreign" => obj'[y] = "foreign"
    BY <1>4, <2>2 DEF Paths
  <2>5. ForeignInv'
    BY <1>1, <1>3, <2>1, <2>3 DEF ForeignInv, ReceiptsNamed, OwnAccountOwnGroup, GroupUnnamed, ForeignGroup
  <2>. QED
    BY <2>1, <2>4, <2>5 DEF ForeignStays
<1>6. CASE AdminAccount
  <2>1. obj' = obj
    BY <1>6 DEF AdminAccount
  <2>2. CASE user = NoUser /\ group = NoGroup
             /\ \E n \in Uids \ {saved.uid} :
                  /\ group' = [gid |-> n, own |-> FALSE, clean |-> TRUE]
                  /\ user' \in {NoUser, [tag |-> 0, uid |-> n, clean |-> TRUE]}
    <3>1. PICK n \in Uids \ {saved.uid} :
            /\ group' = [gid |-> n, own |-> FALSE, clean |-> TRUE]
            /\ user' \in {NoUser, [tag |-> 0, uid |-> n, clean |-> TRUE]}
      BY <2>2
    <3>2. n # 0 /\ n # saved.uid /\ group'.gid = n /\ user'.tag = 0
      BY <3>1, CustodyAssumption DEF NoUser
    <3>3. GroupUnnamed'
      BY <1>1, <1>2, <3>2 DEF GroupUnnamed
    <3>4. ReceiptsNamed' /\ OwnAccountOwnGroup'
      BY <1>1, <2>1, <3>2 DEF ForeignInv, ReceiptsNamed, OwnAccountOwnGroup
    <3>. QED
      BY <1>3, <2>1, <2>2, <3>3, <3>4 DEF ForeignInv, ForeignStays
  <2>3. CASE user # NoUser /\ user' = [user EXCEPT !.clean = ~@] /\ group' = group
    <3>1. user'.tag = user.tag /\ user'.uid = user.uid
      BY <2>3 DEF CustodyType, Users
    <3>2. ForeignInv'
      BY <1>1, <1>3, <2>1, <2>3, <3>1
      DEF ForeignInv, ReceiptsNamed, OwnAccountOwnGroup, GroupUnnamed, ForeignGroup
    <3>. QED
      BY <2>1, <2>3, <3>1, <3>2 DEF ForeignStays
  <2>. QED
    BY <1>6, <2>2, <2>3 DEF AdminAccount
<1>. QED
  BY <1>5, <1>6 DEF AdminEdit

\* Every step of the installer keeps type, places and ForeignInv, and leaves
\* alone what is foreign.
LEMMA ForeignNext ==
    ASSUME CustodyType, Placed, ForeignInv, [InstallNext]_vars
    PROVE  CustodyType' /\ Placed' /\ ForeignInv' /\ ForeignStays
<1>1. CASE UNCHANGED vars \/ (Others /\ Observe)
  <2>1. /\ obj' = obj /\ dirs' = dirs /\ saved' = saved /\ draft' = draft /\ user' = user /\ group' = group
        /\ loaded' = loaded /\ proc' = proc /\ answer' = answer /\ ops' = ops /\ place' = place
    BY <1>1 DEF vars, Others, host, place
  <2>2. seen' \subseteq Procs
    BY <1>1 DEF vars, Observe, CustodyType
  <2>3. CustodyType' /\ Placed'
    BY <2>1, <2>2 DEF CustodyType, Placed
  <2>4. ForeignInv' /\ ForeignStays
    BY <2>1 DEF ForeignInv, ForeignAt, NoForeign, ReceiptsNamed, OwnAccountOwnGroup, GroupUnnamed, ForeignGroup,
       ForeignStays
  <2>. QED
    BY <2>3, <2>4
<1>2. CASE Step /\ Observe
  <2>0. Observe
    BY <1>2
  <2>1. ASSUME NEW p \in Procs, apply(p) \/ verify(p) \/ rollback(p)
        PROVE  CustodyType' /\ Placed' /\ ForeignInv' /\ ForeignStays
    BY <2>0, <2>1, TypeBegin, ForeignBegin
  <2>2. ASSUME NEW p \in Procs, HostStep(p)
        PROVE  CustodyType' /\ Placed' /\ ForeignInv' /\ ForeignStays
    <3>1. CustodyType' /\ Placed'
      BY <2>0, <2>2, TypeStep
    <3>2. ForeignInv' /\ ForeignStays
      BY <2>2, ForeignChecks, ForeignReplace, ForeignUseradd, ForeignReload, ForeignUserdel,
         ForeignGroupdel, ForeignMake, ForeignOwn, ForeignDrop DEF HostStep
    <3>. QED
      BY <3>1, <3>2
  <2>3. CASE AdminEdit
    BY <2>0, <2>3, TypeAdmin, ForeignAdmin
  <2>. QED
    BY <1>2, <2>1, <2>2, <2>3 DEF Step
<1>. QED
  BY <1>1, <1>2 DEF InstallNext

\* At first nothing is foreign.
LEMMA ForeignInit == InstallInit => ForeignInv
<1>. SUFFICES ASSUME InstallInit PROVE ForeignInv
  OBVIOUS
<1>1. \A p \in Procs : place[p] = 0 /\ proc[p] = Idle
  BY IdlePlaced DEF InstallInit, Init, Installed
<1>2. \A p \in Procs : ForeignAt(place[p], proc[p].r)
  <2>1. \A r : ForeignAt(0, r)
    BY DEF ForeignAt
  <2>. QED
    BY <1>1, <2>1
<1>3. CASE Init
  <2>1. obj["receipt"] = "absent" /\ obj["next"] = "absent" /\ user.tag = 0 /\ group = NoGroup
    BY <1>3 DEF Init, Paths, NoUser
  <2>. QED
    BY <1>2, <2>1 DEF ForeignInv, ReceiptsNamed, OwnAccountOwnGroup, GroupUnnamed, ForeignGroup
<1>4. CASE Installed
  <2>1. saved.id # 0 /\ group.own /\ obj["next"] = "absent"
    BY <1>4 DEF Installed, Paths
  <2>. QED
    BY <1>2, <2>1 DEF ForeignInv, ReceiptsNamed, OwnAccountOwnGroup, GroupUnnamed, ForeignGroup
<1>. QED
  BY <1>3, <1>4 DEF InstallInit

\* The installer, alone on the host or not, on a fresh host or an installed one.
InstallSpec == InstallInit /\ [][InstallNext]_vars

\* With nothing else on the host it is Spec.
THEOREM InstallerAlone == Spec => InstallSpec
<1>1. Init => InstallInit
  BY DEF InstallInit
<1>2. [Next]_vars => [InstallNext]_vars
  BY DEF Next, InstallNext
<1>. QED
  BY <1>1, <1>2, PTL DEF Spec, InstallSpec

\* Type correctness, the place of every process in its script, and what holds
\* of the administrator's things while processes with or without a working lock
\* act on the host.
THEOREM CustodyInvariant == InstallSpec => [](CustodyType /\ Placed /\ ForeignInv)
<1>1. InstallInit => CustodyType /\ Placed /\ ForeignInv
  BY TypeInit, ForeignInit
<1>2. CustodyType /\ Placed /\ ForeignInv /\ [InstallNext]_vars => (CustodyType /\ Placed /\ ForeignInv)'
  BY ForeignNext
<1>. QED
  BY <1>1, <1>2, PTL DEF InstallSpec

\* apply and rollback never touch what the administrator made or altered: every
\* create is exclusive, and rollback compares owner, mode and bytes, and the
\* receipt's tag and number, before it removes.  No lock is needed for it.
THEOREM ForeignThingsSurvive == InstallSpec => ForeignUntouched
<1>1. CustodyType /\ Placed /\ ForeignInv /\ [InstallNext]_vars => [ForeignStays]_vars
  BY ForeignNext
<1>2. ForeignUntouched <=> [][ForeignStays]_vars
  BY DEF ForeignUntouched, ForeignStays
<1>. QED
  BY <1>1, <1>2, CustodyInvariant, PTL DEF InstallSpec

(***************************************************************************)
(* The lock.                                                               *)
(***************************************************************************)
\* The lock of the present state directory is held.
Holds(p) == proc[p].locked /\ place[p] # 41

LockAt(n, d, l) ==
    /\ n \in 0..4 \cup {26, 27} => ~l
    /\ n \in 5..20 \cup 28..45 => l
    /\ d <= dirs
    /\ (l /\ n # 41) \/ n \in {4, 27} => d = dirs
    /\ (l /\ n # 41) \/ n \in {2, 3, 4, 27} => obj["state"] # "absent"
    /\ n \in 3..20 \cup 29..40 \cup 42..45 => obj["state"] = "ok"
    /\ n \in 2..4 => obj["receipt"] = "absent"

\* What two processes have to do with each other: one lock per directory, one
\* maker of the directory, and who locks it before its maker finds no receipt.
Apart(q, n, d, l) ==
    /\ l /\ proc[q].locked => proc[q].dir # d
    /\ n \in 2..4 => place[q] \notin 2..4 /\ (Holds(q) => place[q] = 28)
    /\ place[q] \in 2..4 /\ l /\ n # 41 => n = 28

ReceiptInState == obj["receipt"] # "absent" => obj["state"] = "ok"

LockInv ==
    /\ ReceiptInState
    /\ \A p \in Procs : LockAt(place[p], proc[p].dir, proc[p].locked)
    /\ \A p, q \in Procs : p # q => Apart(q, place[p], proc[p].dir, proc[p].locked)

\* While a process holds the lock on the state directory, no other holds it
\* or prepares it.
LEMMA Exclusion ==
    ASSUME CustodyType, Placed, LockInv, NEW p \in Procs, Holds(p)
    PROVE  \A q \in Procs \ {p} : ~Holds(q) /\ (place[p] # 28 => place[q] \notin 2..4)
<1>. SUFFICES ASSUME NEW q \in Procs \ {p}
              PROVE  ~Holds(q) /\ (place[p] # 28 => place[q] \notin 2..4)
  OBVIOUS
<1>1. Apart(q, place[p], proc[p].dir, proc[p].locked)
  BY DEF LockInv
<1>2. Holds(q) => proc[q].dir = dirs
  BY DEF LockInv, LockAt, Holds
<1>3. proc[p].dir = dirs
  BY DEF LockInv, LockAt, Holds
<1>. QED
  BY <1>1, <1>2, <1>3 DEF Apart, Holds

\* When a step is undisturbed nobody else stands between open and flock.
LEMMA NobodyLocking ==
    ASSUME AtomicLock, Placed, NEW p \in Procs, Undisturbed(p)
    PROVE  \A q \in Procs \ {p} : place[q] \notin {4, 27}
<1>. SUFFICES ASSUME NEW q \in Procs \ {p}, place[q] \in {4, 27} PROVE FALSE
  OBVIOUS
<1>1. proc[q].todo = Todo(place[q]) /\ place[q] \in Places /\ place[q] # 0
  BY DEF Placed
<1>2. proc[q].todo # <<>> /\ Head(proc[q].todo) = Code[place[q]]
  BY <1>1, Walk
<1>3. Code[4] = <<"flock", "state">> /\ Code[27] = <<"flock", "state">>
  BY DEF Code
<1>4. At(q, "flock", "state")
  BY <1>2, <1>3 DEF At, Active
<1>. QED
  BY <1>4 DEF Undisturbed

\* A move keeps LockInv, when the new place agrees with the lock and with
\* where everybody else is.
LEMMA LockMove ==
    ASSUME CustodyType, Placed, LockInv,
           NEW p \in Procs, NEW n, NEW r, NEW d, NEW l, Moved(p, n, r, d, l),
           ReceiptInState', LockAt(n, d, l)',
           \A q \in Procs \ {p} : Apart(q, n, d, l),
           \A q \in Procs \ {p}, m \in Places, e \in Nat, k \in BOOLEAN :
             m = place[q] /\ e = proc[q].dir /\ k = proc[q].locked => LockAt(m, e, k)'
    PROVE  LockInv'
<1>1. /\ place' = [place EXCEPT ![p] = n] /\ proc'[p].dir = d /\ proc'[p].locked = l
      /\ \A q \in Procs \ {p} : proc'[q] = proc[q]
      /\ place \in [Procs -> Places]
  BY MovedPlaced DEF Placed
<1>2. /\ place'[p] = n
      /\ \A q \in Procs \ {p} : place'[q] = place[q]
  BY <1>1
<1>3. ASSUME NEW q \in Procs PROVE LockAt(place[q], proc[q].dir, proc[q].locked)'
  <2>1. CASE q = p
    BY <1>1, <1>2, <2>1 DEF LockAt
  <2>2. CASE q # p
    <3>1. PICK m \in Places, e \in Nat, k \in BOOLEAN :
            m = place[q] /\ e = proc[q].dir /\ k = proc[q].locked
      <4>1. place[q] \in Places /\ proc[q].dir \in Nat /\ proc[q].locked \in BOOLEAN
        BY DEF Placed, CustodyType, Processes
      <4>. QED
        BY <4>1
    <3>2. LockAt(m, e, k)'
      BY <2>2, <3>1
    <3>3. place'[q] = m /\ proc'[q].dir = e /\ proc'[q].locked = k
      BY <1>1, <1>2, <2>2, <3>1
    <3>. QED
      BY <3>2, <3>3 DEF LockAt
  <2>. QED
    BY <2>1, <2>2
<1>4. ASSUME NEW a \in Procs, NEW q \in Procs, a # q
      PROVE  Apart(q, place[a], proc[a].dir, proc[a].locked)'
  <2>1. CASE a = p
    <3>1. Apart(q, n, d, l) /\ proc'[q] = proc[q] /\ place'[q] = place[q]
      BY <1>1, <1>2, <1>4, <2>1
    <3>2. place'[a] = n /\ proc'[a].dir = d /\ proc'[a].locked = l
      BY <1>1, <1>2, <2>1
    <3>. QED
      BY <3>1, <3>2 DEF Apart, Holds
  <2>2. CASE q = p
    <3>1. Apart(a, n, d, l) /\ proc'[a] = proc[a] /\ place'[a] = place[a]
      BY <1>1, <1>2, <1>4, <2>2
    <3>2. place'[q] = n /\ proc'[q].dir = d /\ proc'[q].locked = l
      BY <1>1, <1>2, <2>2
    <3>. QED
      BY <3>1, <3>2 DEF Apart, Holds
  <2>3. CASE a # p /\ q # p
    <3>1. Apart(q, place[a], proc[a].dir, proc[a].locked)
      BY <1>4 DEF LockInv
    <3>2. proc'[a] = proc[a] /\ place'[a] = place[a] /\ proc'[q] = proc[q] /\ place'[q] = place[q]
      BY <1>1, <1>2, <2>3
    <3>. QED
      BY <3>1, <3>2 DEF Apart, Holds
  <2>. QED
    BY <2>1, <2>2, <2>3
<1>. QED
  BY <1>3, <1>4 DEF LockInv

\* Steps that leave the directory, its number and the presence of a receipt.
LEMMA LockSame ==
    ASSUME CustodyType, Placed, LockInv,
           NEW p \in Procs, NEW n, NEW r, NEW d, NEW l, Moved(p, n, r, d, l),
           dirs' = dirs, obj'["state"] = obj["state"], obj'["receipt"] = obj["receipt"],
           LockAt(n, d, l), \A q \in Procs \ {p} : Apart(q, n, d, l)
    PROVE  LockInv'
<1>1. ReceiptInState' /\ LockAt(n, d, l)'
  BY DEF LockInv, ReceiptInState, LockAt
<1>2. ASSUME NEW q \in Procs \ {p}, NEW m \in Places, NEW e \in Nat, NEW k \in BOOLEAN,
             m = place[q] /\ e = proc[q].dir /\ k = proc[q].locked
      PROVE  LockAt(m, e, k)'
  <2>1. LockAt(m, e, k)
    BY <1>2 DEF LockInv
  <2>. QED
    BY <2>1 DEF LockAt
<1>. QED
  BY <1>1, <1>2, LockMove

\* A process that holds the lock, or never takes it, goes on.
LEMMA LockStays ==
    ASSUME CustodyType, Placed, LockInv, NEW p \in Procs, NEW n, NEW r,
           Moved(p, n, r, proc[p].dir, proc[p].locked),
           dirs' = dirs, obj'["state"] = obj["state"], obj'["receipt"] = obj["receipt"],
           \/ place[p] \in 5..24 /\ n \in 6..25 /\ (n \in 6..20 => place[p] \in 5..19)
           \/ place[p] \in 28..38 \cup 42..45 /\ n \in 29..39 \cup 42..45,
           place[p] = 28 => obj["receipt"] # "absent"
    PROVE  LockInv'
<1>1. LockAt(place[p], proc[p].dir, proc[p].locked)
  BY DEF LockInv
<1>2. proc[p].locked \in BOOLEAN
  BY DEF CustodyType, Processes
<1>3. LockAt(n, proc[p].dir, proc[p].locked)
  BY <1>1, <1>2 DEF LockAt, LockInv, ReceiptInState
<1>4. \A q \in Procs \ {p} : Apart(q, n, proc[p].dir, proc[p].locked)
  <2>. SUFFICES ASSUME NEW q \in Procs \ {p} PROVE Apart(q, n, proc[p].dir, proc[p].locked)
    OBVIOUS
  <2>1. Apart(q, place[p], proc[p].dir, proc[p].locked)
    BY DEF LockInv
  <2>2. place[q] \in 2..4 => obj["receipt"] = "absent"
    BY DEF LockInv, LockAt
  <2>. QED
    BY <2>1, <2>2 DEF Apart
<1>. QED
  BY <1>3, <1>4, LockSame

\* The holder of the lock makes, writes or removes the receipt.
LEMMA LockReceipt ==
    ASSUME CustodyType, Placed, LockInv, NEW p \in Procs, NEW n, Stays(p, n),
           dirs' = dirs, obj'["state"] = obj["state"],
           place[p] \in {5, 6, 11, 39, 44}, n = place[p] + 1
    PROVE  LockInv'
<1>1. LockAt(place[p], proc[p].dir, proc[p].locked)
  BY DEF LockInv
<1>2. Holds(p) /\ obj["state"] = "ok" /\ proc[p].locked
  BY <1>1 DEF Holds, LockAt
<1>3. \A q \in Procs \ {p} : ~Holds(q) /\ place[q] \notin 2..4
  BY <1>2, Exclusion
<1>4. ReceiptInState'
  BY <1>2 DEF ReceiptInState
<1>5. ASSUME NEW q \in Procs \ {p} PROVE Apart(q, n, proc[p].dir, proc[p].locked)
  <2>1. Apart(q, place[p], proc[p].dir, proc[p].locked)
    BY DEF LockInv
  <2>. QED
    BY <1>3, <2>1 DEF Apart
<1>6. ASSUME NEW q \in Procs \ {p}, NEW m \in Places, NEW e \in Nat, NEW k \in BOOLEAN,
             m = place[q] /\ e = proc[q].dir /\ k = proc[q].locked
      PROVE  LockAt(m, e, k)'
  <2>1. LockAt(m, e, k) /\ m \notin 2..4
    BY <1>3, <1>6 DEF LockInv
  <2>. QED
    BY <2>1 DEF LockAt
<1>7. Moved(p, n, proc[p].r, proc[p].dir, proc[p].locked)
  BY DEF Stays
<1>. HIDE DEF Stays
<1>8. PICK d, l : d = proc[p].dir /\ l = proc[p].locked
  OBVIOUS
<1>9. LockAt(n, d, l)'
  BY <1>1, <1>2, <1>8 DEF LockAt
<1>. QED
  BY <1>4, <1>5, <1>6, <1>7, <1>8, <1>9, LockMove

\* Making the state directory: it was absent, so nobody holds its lock.
LEMMA LockMakeState ==
    ASSUME CustodyType, Placed, LockInv, NEW p \in Procs, Make(p, "state")
    PROVE  LockInv'
<1>1. place[p] = 1 /\ Moved(p, 2, proc[p].r, proc[p].dir, proc[p].locked)
  BY MoveMake DEF Stays
<1>2. PICK d \in Nat, l \in BOOLEAN : d = proc[p].dir /\ l = proc[p].locked
  BY DEF CustodyType, Processes
<1>3. LockAt(1, d, l)
  BY <1>1, <1>2 DEF LockInv
<1>4. obj["state"] = "absent" /\ obj'["state"] = "raw" /\ obj'["receipt"] = obj["receipt"] /\ dirs' = dirs + 1
  BY Values DEF Make, CustodyType, Paths
<1>5. obj["receipt"] = "absent" /\ dirs \in Nat
  BY <1>4 DEF LockInv, ReceiptInState, CustodyType
<1>6. LockAt(2, d, l)' /\ ReceiptInState' /\ ~l
  BY <1>3, <1>4, <1>5 DEF LockAt, ReceiptInState
<1>7. ASSUME NEW q \in Procs \ {p} PROVE Apart(q, 2, d, l)
  <2>1. LockAt(place[q], proc[q].dir, proc[q].locked)
    BY DEF LockInv
  <2>. QED
    BY <1>4, <1>6, <2>1 DEF Apart, Holds, LockAt
<1>8. ASSUME NEW q \in Procs \ {p}, NEW m \in Places, NEW e \in Nat, NEW k \in BOOLEAN,
             m = place[q] /\ e = proc[q].dir /\ k = proc[q].locked
      PROVE  LockAt(m, e, k)'
  <2>1. LockAt(m, e, k)
    BY <1>8 DEF LockInv
  <2>2. ~((k /\ m # 41) \/ m \in {2, 3, 4, 27}) /\ m \notin 3..20 \cup 29..40 \cup 42..45
    BY <1>4, <2>1 DEF LockAt
  <2>. QED
    BY <1>4, <1>5, <2>1, <2>2 DEF LockAt
<1>9. Moved(p, 2, proc[p].r, d, l)
  BY <1>1, <1>2
<1>. QED
  BY <1>6, <1>7, <1>8, <1>9, LockMove

\* Finishing the state directory keeps LockInv.
LEMMA LockOwnState ==
    ASSUME CustodyType, Placed, LockInv, NEW p \in Procs, Own(p, "state")
    PROVE  LockInv'
<1>1. place[p] = 2 /\ Moved(p, 3, proc[p].r, proc[p].dir, proc[p].locked)
  BY MoveOwn DEF Stays
<1>2. PICK d \in Nat, l \in BOOLEAN : d = proc[p].dir /\ l = proc[p].locked
  BY DEF CustodyType, Processes
<1>3. LockAt(2, d, l)
  BY <1>1, <1>2 DEF LockInv
<1>4. obj'["state"] = "ok" /\ obj'["receipt"] = obj["receipt"] /\ dirs' = dirs
  BY Values DEF Own, CustodyType, Paths
<1>5. LockAt(3, d, l)' /\ ReceiptInState' /\ ~l
  BY <1>3, <1>4 DEF LockAt, ReceiptInState
<1>6. ASSUME NEW q \in Procs \ {p} PROVE Apart(q, 3, d, l)
  <2>1. Apart(q, 2, d, l)
    BY <1>1, <1>2 DEF LockInv
  <2>. QED
    BY <1>5, <2>1 DEF Apart
<1>7. ASSUME NEW q \in Procs \ {p}, NEW m \in Places, NEW e \in Nat, NEW k \in BOOLEAN,
             m = place[q] /\ e = proc[q].dir /\ k = proc[q].locked
      PROVE  LockAt(m, e, k)'
  <2>1. LockAt(m, e, k)
    BY <1>7 DEF LockInv
  <2>. QED
    BY <1>4, <2>1 DEF LockAt
<1>8. Moved(p, 3, proc[p].r, d, l)
  BY <1>1, <1>2
<1>. QED
  BY <1>5, <1>6, <1>7, <1>8, LockMove

\* Removing the state directory: only its holder depended on it.
LEMMA LockDropState ==
    ASSUME AtomicLock, CustodyType, Placed, LockInv, NEW p \in Procs, Undisturbed(p), Drop(p, "state")
    PROVE  LockInv'
<1>1. place[p] = 40 /\ Moved(p, 41, proc[p].r, proc[p].dir, proc[p].locked)
  BY MoveDrop DEF Stays
<1>2. PICK d \in Nat, l \in BOOLEAN : d = proc[p].dir /\ l = proc[p].locked
  BY DEF CustodyType, Processes
<1>3. LockAt(40, d, l)
  BY <1>1, <1>2 DEF LockInv
<1>4. /\ obj'["state"] = "absent" /\ obj'["receipt"] = obj["receipt"] /\ dirs' = dirs
      /\ obj["receipt"] = "absent"
  <2>1. "receipt" \in Paths \ {"state"} /\ Parent("receipt") = "state" /\ "state" \in Paths
    BY DEF Paths, Parent
  <2>. QED
    BY <2>1, Values DEF Drop, CustodyType
<1>5. LockAt(41, d, l)' /\ ReceiptInState' /\ l
  BY <1>3, <1>4 DEF LockAt, ReceiptInState
<1>6. \A q \in Procs \ {p} : ~Holds(q) /\ place[q] \notin 2..4 /\ place[q] \notin {4, 27}
  <2>1. Holds(p) /\ place[p] # 28
    BY <1>1, <1>2, <1>5 DEF Holds
  <2>2. \A q \in Procs \ {p} : ~Holds(q) /\ place[q] \notin 2..4
    BY <2>1, Exclusion
  <2>3. \A q \in Procs \ {p} : place[q] \notin {4, 27}
    BY NobodyLocking
  <2>. QED
    BY <2>2, <2>3
<1>7. ASSUME NEW q \in Procs \ {p} PROVE Apart(q, 41, d, l)
  <2>1. Apart(q, 40, d, l)
    BY <1>1, <1>2 DEF LockInv
  <2>. QED
    BY <1>6, <2>1 DEF Apart
<1>8. ASSUME NEW q \in Procs \ {p}, NEW m \in Places, NEW e \in Nat, NEW k \in BOOLEAN,
             m = place[q] /\ e = proc[q].dir /\ k = proc[q].locked
      PROVE  LockAt(m, e, k)'
  <2>1. LockAt(m, e, k) /\ ~(k /\ m # 41) /\ m \notin 2..4 /\ m \notin {4, 27}
    BY <1>6, <1>8 DEF LockInv, Holds
  <2>. QED
    BY <1>4, <2>1 DEF LockAt
<1>9. Moved(p, 41, proc[p].r, d, l)
  BY <1>1, <1>2
<1>. QED
  BY <1>5, <1>7, <1>8, <1>9, LockMove

\* Creating, finishing or removing a path keeps LockInv, when nothing comes
\* between open and flock.
LEMMA LockPaths ==
    ASSUME CustodyType, Placed, LockInv, AtomicLock, NEW p \in Procs, Undisturbed(p), NEW x \in Paths,
           Make(p, x) \/ Own(p, x) \/ Drop(p, x)
    PROVE  LockInv'
<1>1. CASE x = "state"
  BY <1>1, LockMakeState, LockOwnState, LockDropState
<1>2. CASE x # "state"
  <2>1. /\ dirs' = dirs /\ obj'["state"] = obj["state"] /\ "receipt" \in Paths /\ "state" \in Paths
        /\ x # "receipt" => obj'["receipt"] = obj["receipt"]
    BY <1>2, Values DEF Make, Own, Drop, CustodyType, Paths
  <2>2. Stays(p, place[p] + 1)
    BY MoveMake, MoveOwn, MoveDrop
  <2>3. PICK n \in Places : n = place[p]
    BY DEF Placed
  <2>4. CASE x = "receipt"
    <3>1. n \in {5, 6, 39}
      BY <2>3, <2>4, MoveMake, MoveOwn, MoveDrop
    <3>. QED
      BY <2>1, <2>2, <2>3, <3>1, LockReceipt
  <2>5. CASE x # "receipt"
    <3>1. n \in {9, 42, 12, 14, 16, 18, 10, 43, 13, 15, 17, 19, 30, 31, 32, 33}
      BY <1>2, <2>3, <2>5, MoveMake, MoveOwn, MoveDrop
    <3>2. Moved(p, n + 1, proc[p].r, proc[p].dir, proc[p].locked)
      BY <2>2, <2>3 DEF Stays
    <3>3. \/ n \in 5..24 /\ n + 1 \in 6..25 /\ (n + 1 \in 6..20 => n \in 5..19)
          \/ n \in 28..38 \cup 42..45 /\ n + 1 \in 29..39 \cup 42..45
      BY <3>1
    <3>4. n # 28
      BY <3>1
    <3>. QED
      BY <2>1, <2>3, <2>5, <3>2, <3>3, <3>4, LockStays
  <2>. QED
    BY <2>4, <2>5
<1>. QED
  BY <1>1, <1>2

\* A process that becomes idle, or starts, holds nothing.
LEMMA LockFree ==
    ASSUME CustodyType, Placed, LockInv, NEW p \in Procs, NEW n \in {0, 1, 21, 26}, NEW r,
           Moved(p, n, r, 0, FALSE), UNCHANGED host
    PROVE  LockInv'
<1>1. dirs' = dirs /\ obj' = obj /\ dirs \in Nat
  BY DEF host, CustodyType
<1>2. LockAt(n, 0, FALSE)
  BY <1>1 DEF LockAt
<1>3. \A q \in Procs \ {p} : Apart(q, n, 0, FALSE)
  BY DEF Apart
<1>. QED
  BY <1>1, <1>2, <1>3, LockSame

\* Opening the state directory keeps LockInv.
LEMMA LockOpen ==
    ASSUME CustodyType, Placed, LockInv, NEW p \in Procs, Open(p)
    PROVE  LockInv'
<1>1. PICK n \in {3, 26} : n = place[p] /\ Moved(p, n + 1, proc[p].r, dirs, proc[p].locked)
  BY MoveOpen
<1>2. PICK l \in BOOLEAN : l = proc[p].locked
  BY DEF CustodyType, Processes
<1>3. dirs' = dirs /\ obj' = obj /\ dirs \in Nat /\ obj["state"] # "absent"
  BY DEF Open, host, CustodyType
<1>4. LockAt(n, proc[p].dir, l)
  BY <1>1, <1>2 DEF LockInv
<1>5. ~l /\ LockAt(n + 1, dirs, l)
  <2>1. CASE n = 3
    BY <1>3, <1>4, <2>1 DEF LockAt
  <2>2. CASE n = 26
    BY <1>3, <1>4, <2>2 DEF LockAt
  <2>. QED
    BY <2>1, <2>2
<1>6. ASSUME NEW q \in Procs \ {p} PROVE Apart(q, n + 1, dirs, l)
  <2>1. Apart(q, n, proc[p].dir, l)
    BY <1>1, <1>2 DEF LockInv
  <2>2. CASE n = 3
    BY <1>5, <2>1, <2>2 DEF Apart
  <2>3. CASE n = 26
    BY <1>5, <2>1, <2>3 DEF Apart
  <2>. QED
    BY <2>2, <2>3
<1>7. Moved(p, n + 1, proc[p].r, dirs, l)
  BY <1>1, <1>2
<1>. QED
  BY <1>3, <1>5, <1>6, <1>7, LockSame

\* flock succeeds while nobody else has this directory locked.
LEMMA LockFlock ==
    ASSUME CustodyType, Placed, LockInv, NEW p \in Procs, Flock(p)
    PROVE  LockInv'
<1>1. PICK n \in {4, 27} : n = place[p] /\ Moved(p, n + 1, proc[p].r, proc[p].dir, TRUE)
  BY MoveFlock
<1>2. PICK d \in Nat : d = proc[p].dir
  BY DEF CustodyType, Processes
<1>3. /\ dirs' = dirs /\ obj' = obj
      /\ \A q \in Procs \ {p} : proc[q].locked => proc[q].dir # d
  BY <1>2 DEF Flock, host
<1>4. LockAt(n, d, proc[p].locked)
  BY <1>1, <1>2 DEF LockInv
<1>5. d = dirs /\ LockAt(n + 1, d, TRUE)
  <2>1. CASE n = 4
    BY <1>4, <2>1 DEF LockAt
  <2>2. CASE n = 27
    BY <1>4, <2>2 DEF LockAt
  <2>. QED
    BY <2>1, <2>2
<1>6. ASSUME NEW q \in Procs \ {p} PROVE Apart(q, n + 1, d, TRUE)
  <2>1. Apart(q, n, d, proc[p].locked) /\ (proc[q].locked => proc[q].dir # d)
    BY <1>1, <1>2, <1>3 DEF LockInv
  <2>2. CASE n = 4
    BY <2>1, <2>2 DEF Apart
  <2>3. CASE n = 27
    BY <2>1, <2>3 DEF Apart
  <2>. QED
    BY <2>2, <2>3
<1>7. Moved(p, n + 1, proc[p].r, d, TRUE)
  BY <1>1, <1>2
<1>. QED
  BY <1>3, <1>5, <1>6, <1>7, LockSame

\* The steps between that change neither the directory nor the receipt.
LEMMA LockGoesOn ==
    ASSUME CustodyType, Placed, LockInv, NEW p \in Procs, NEW k, NEW n, NEW r,
           Moved(p, n, r, proc[p].dir, proc[p].locked), dirs' = dirs, obj' = obj, place[p] = k,
           \/ k \in {7, 8, 20, 21, 22, 23, 24} /\ n = k + 1
           \/ k \in 29..38 /\ n = k + 1
           \/ k = 28 /\ n = 29 /\ obj["receipt"] # "absent"
           \/ k = 36 /\ n = 42
           \/ k = 45 /\ n = 37
    PROVE  LockInv'
<1>1. \/ k \in 5..24 /\ n \in 6..25 /\ (n \in 6..20 => k \in 5..19)
      \/ k \in 28..38 \cup 42..45 /\ n \in 29..39 \cup 42..45
  OBVIOUS
<1>2. k = 28 => obj["receipt"] # "absent"
  OBVIOUS
<1>. QED
  BY <1>1, <1>2, LockStays

\* A step that leaves the paths of the state directory alone keeps LockInv.
LEMMA LockChecks ==
    ASSUME CustodyType, Placed, LockInv, NEW p \in Procs,
           \/ create_user(p) \/ ReadReceipt(p) \/ CheckIdentity(p) \/ CheckFiles(p) \/ CheckPartial(p)
           \/ CheckUnit(p) \/ Reload(p) \/ RecordUser(p) \/ remove_user(p) \/ remove_group(p)
           \/ ConfirmRemoval(p)
    PROVE  LockInv'
<1>1. dirs' = dirs /\ obj' = obj
  BY DEF host, create_user, ReadReceipt, CheckIdentity, CheckFiles, CheckPartial, CheckUnit, Reload,
         RecordUser, remove_user, remove_group, ConfirmRemoval
<1>2. CASE create_user(p)
  <2>1. CASE place[p] = 7 /\ Stays(p, 8)
    BY <1>1, <2>1, LockGoesOn DEF Stays
  <2>2. CASE Moved(p, 0, NoReceipt, 0, FALSE)
    <3>1. dirs \in Nat
      BY DEF CustodyType
    <3>2. LockAt(0, 0, FALSE)
      BY <3>1 DEF LockAt
    <3>3. \A q \in Procs \ {p} : Apart(q, 0, 0, FALSE)
      BY DEF Apart
    <3>. QED
      BY <1>1, <2>2, <3>2, <3>3, LockSame
  <2>. QED
    BY <1>2, <2>1, <2>2, MoveUseradd
<1>3. CASE ReadReceipt(p)
  <2>1. PICK k \in {21, 28} : k = place[p] /\ Moved(p, k + 1, saved, proc[p].dir, proc[p].locked)
    BY <1>3, MoveRead
  <2>2. obj["receipt"] # "absent"
    BY <1>3 DEF ReadReceipt, ReceiptReadable
  <2>3. CASE k = 21
    BY <1>1, <2>1, <2>3, LockGoesOn
  <2>4. CASE k = 28
    <3>1. place[p] = 28 /\ Moved(p, 29, saved, proc[p].dir, proc[p].locked)
      BY <2>1, <2>4
    <3>. QED
      BY <1>1, <2>2, <3>1, LockGoesOn
  <2>. QED
    BY <2>1, <2>3, <2>4
<1>4. CASE CheckIdentity(p)
  <2>1. CASE place[p] = 22 /\ Stays(p, 23)
    BY <1>1, <2>1, LockGoesOn DEF Stays
  <2>2. CASE place[p] = 8
             /\ Moved(p, 9, [id |-> proc[p].r.id, uid |-> user.uid], proc[p].dir, proc[p].locked)
    BY <1>1, <2>2, LockGoesOn
  <2>. QED
    BY <1>4, <2>1, <2>2, MoveIdentity
<1>5. CASE CheckFiles(p)
  BY <1>1, <1>5, MoveFiles, LockGoesOn DEF Stays
<1>6. CASE CheckPartial(p)
  BY <1>1, <1>6, MovePartial, LockGoesOn DEF Stays
<1>7. CASE CheckUnit(p)
  <2>1. PICK k \in {24, 35} : k = place[p] /\ Moved(p, k + 1, proc[p].r, proc[p].dir, proc[p].locked)
    BY <1>7, MoveUnit DEF Stays
  <2>. QED
    BY <1>1, <2>1, LockGoesOn
<1>8. CASE Reload(p)
  <2>1. PICK k \in {20, 34} : k = place[p] /\ Moved(p, k + 1, proc[p].r, proc[p].dir, proc[p].locked)
    BY <1>8, MoveReload DEF Stays
  <2>. QED
    BY <1>1, <2>1, LockGoesOn
<1>9. CASE RecordUser(p)
  <2>1. CASE place[p] = 36 /\ Moved(p, 37, proc[p].r, proc[p].dir, proc[p].locked)
    BY <1>1, <2>1, LockGoesOn
  <2>2. CASE place[p] = 36
             /\ Moved(p, 42, [id |-> proc[p].r.id, uid |-> user.uid], proc[p].dir, proc[p].locked)
    BY <1>1, <2>2, LockGoesOn
  <2>. QED
    BY <1>9, <2>1, <2>2, MoveRecord
<1>10. CASE remove_user(p)
  BY <1>1, <1>10, MoveUserdel, LockGoesOn DEF Stays
<1>11. CASE remove_group(p)
  BY <1>1, <1>11, MoveGroupdel, LockGoesOn DEF Stays
<1>12. CASE ConfirmRemoval(p)
  BY <1>1, <1>12, MoveConfirm, LockGoesOn DEF Stays
<1>. QED
  BY <1>2, <1>3, <1>4, <1>5, <1>6, <1>7, <1>8, <1>9, <1>10, <1>11, <1>12

\* Every step of the installer keeps LockInv, when nothing comes between open
\* and flock.
LEMMA LockNext ==
    ASSUME AtomicLock, CustodyType, Placed, LockInv, [InstallNext]_vars
    PROVE  LockInv'
<1>1. CASE proc' = proc /\ dirs' = dirs /\ obj'["state"] = obj["state"] /\ obj'["receipt"] = obj["receipt"]
  <2>1. place' = place
    BY <1>1 DEF place
  <2>. QED
    BY <1>1, <2>1 DEF LockInv, ReceiptInState, LockAt, Apart, Holds
<1>2. CASE UNCHANGED vars \/ Others
  BY <1>1, <1>2 DEF vars, Others, host
<1>3. CASE AdminEdit
  <2>1. obj'["state"] = obj["state"] /\ obj'["receipt"] = obj["receipt"]
    BY <1>3, Values DEF AdminEdit, AdminFile, AdminAccount, CustodyType, Targets, Paths
  <2>. QED
    BY <1>1, <1>3, <2>1 DEF AdminEdit
<1>4. ASSUME NEW p \in Procs, apply(p) \/ verify(p) \/ rollback(p) PROVE LockInv'
  <2>1. UNCHANGED host
    BY <1>4, MoveBegin
  <2>2. \E n \in {1, 21, 26} : \E r : Moved(p, n, r, 0, FALSE)
    BY <1>4, MoveBegin
  <2>. QED
    BY <2>1, <2>2, LockFree
<1>5. ASSUME NEW p \in Procs, Undisturbed(p), HostStep(p) PROVE LockInv'
  <2>1. CASE Abort(p) \/ Answer(p)
    BY <2>1, MoveAbort, MoveAnswer, LockFree DEF Abort, Answer
  <2>2. CASE Replace(p)
    <3>1. dirs' = dirs /\ obj'["state"] = obj["state"]
      BY <2>2, Values DEF Replace, CustodyType, Paths
    <3>2. PICK k \in {11, 44} : k = place[p] /\ Stays(p, k + 1)
      BY <2>2, MoveReplace
    <3>. QED
      BY <3>1, <3>2, LockReceipt
  <2>. QED
    BY <1>5, <2>1, <2>2, LockOpen, LockFlock, LockChecks, LockPaths DEF HostStep
<1>. QED
  BY <1>2, <1>3, <1>4, <1>5 DEF InstallNext, Step

\* At first nobody has the lock.
LEMMA LockInit == InstallInit => LockInv
<1>. SUFFICES ASSUME InstallInit PROVE LockInv
  OBVIOUS
<1>1. \A p \in Procs : place[p] = 0 /\ proc[p].dir = 0 /\ proc[p].locked = FALSE
  <2>1. \A p \in Procs : place[p] = 0 /\ proc[p] = Idle
    BY IdlePlaced DEF InstallInit, Init, Installed
  <2>2. Idle.dir = 0 /\ Idle.locked = FALSE
    BY DEF Idle
  <2>. QED
    BY <2>1, <2>2
<1>2. ReceiptInState /\ dirs \in {0, 1}
  BY DEF InstallInit, Init, Installed, ReceiptInState, Paths
<1>3. LockAt(0, 0, FALSE) /\ \A q \in Procs : Apart(q, 0, 0, FALSE)
  BY <1>2 DEF LockAt, Apart
<1>4. ASSUME NEW p \in Procs PROVE LockAt(place[p], proc[p].dir, proc[p].locked)
  BY <1>1, <1>3
<1>5. ASSUME NEW p \in Procs, NEW q \in Procs PROVE Apart(q, place[p], proc[p].dir, proc[p].locked)
  BY <1>1, <1>3
<1>. QED
  BY <1>2, <1>4, <1>5 DEF LockInv

\* While nobody acts between os.open and flock, the lock of the present state
\* directory has at most one holder, who finds the directory in place.
THEOREM LockInvariant == AtomicLock => (InstallSpec => []LockInv)
<1>. SUFFICES ASSUME AtomicLock PROVE InstallSpec => []LockInv
  OBVIOUS
<1>1. InstallInit => LockInv
  BY LockInit
<1>2. CustodyType /\ Placed /\ ForeignInv /\ LockInv /\ [InstallNext]_vars => LockInv'
  BY LockNext
<1>. QED
  BY <1>1, <1>2, CustodyInvariant, PTL DEF InstallSpec

\* At place 41 only the answer is left to do.
LEMMA LastStep == Len(Todo(41)) = 1
<1>1. Todo(41) = Part(41, 41)
  BY DEF Todo
<1>. QED
  BY <1>1 DEF Part, Code

\* secret_custody_h2.py serialises package mutation by the flock on the state
\* directory: of the processes that still change the host one at most is locked.
THEOREM MutationIsSerial == AtomicLock => (InstallSpec => []MutationSerialised)
<1>. SUFFICES ASSUME AtomicLock PROVE InstallSpec => []MutationSerialised
  OBVIOUS
<1>1. ASSUME CustodyType, Placed, LockInv PROVE MutationSerialised
  <2>. SUFFICES ASSUME NEW p \in Procs, NEW q \in Procs, Mutating(p), Mutating(q), p # q PROVE FALSE
    BY DEF MutationSerialised
  <2>1. ASSUME NEW a \in Procs, Mutating(a) PROVE Holds(a)
    <3>1. proc[a].todo = Todo(place[a]) /\ proc[a].locked /\ Len(proc[a].todo) > 1
      BY <1>1, <2>1 DEF Placed, Mutating
    <3>2. place[a] # 41
      <4>. SUFFICES ASSUME place[a] = 41 PROVE FALSE
        OBVIOUS
      <4>1. Len(proc[a].todo) = 1
        BY <3>1, LastStep
      <4>2. 1 > 1
        BY <3>1, <4>1, Zenon
      <4>. QED
        BY <4>2
    <3>. QED
      BY <3>1, <3>2 DEF Holds
  <2>. QED
    BY <1>1, <2>1, Exclusion
<1>. QED
  BY <1>1, CustodyInvariant, LockInvariant, PTL

(***************************************************************************)
(* The host.                                                               *)
(***************************************************************************)
NoneMade == \A x \in Targets : ~OwnTarget(x)

\* What the holder of the lock, at place n with receipt r, relies on.
HostAt(n, r) ==
    /\ n = 5 => obj["receipt"] = "absent"
    /\ n = 6 => obj["receipt"] = "raw"
    /\ n \in 7..20 => obj["receipt"] = "ok" /\ saved.id = r.id
    /\ n \in 7..8 => saved.uid = 0
    /\ n \in 7..9 \cup 12..20 => obj["next"] = "absent"
    /\ n \in {11, 44} => obj["next"] = "ok" /\ draft = r
    /\ n = 7 => user.tag = 0 /\ ~group.own
    /\ n \in 8..20 => user.tag = r.id
    /\ n \in 9..20 => r.uid = user.uid
    /\ n \in 12..20 => saved = r
    /\ n \in 5..12 => NoneMade
    /\ n \in 5..20 => ~loaded
    /\ n \in 14..20 => obj["opt"] = "ok"
    /\ n \in 16..20 => obj["etc"] = "ok"
    /\ n \in 18..20 => obj["gates"] = "ok"
    /\ n = 20 => obj["unit"] = "ok"
    /\ n \in 29..39 \cup 42..45 => obj["receipt"] = "ok"
    /\ n \in 29..40 \cup {42, 45} => obj["next"] = "absent"
    /\ n \in 29..36 \cup {45} => saved = r
    /\ n \in 42..44 => saved.id = r.id
    /\ n \in 30..36 => user = NoUser \/ user.tag = r.id
    /\ n \in 42..45 => user.tag = r.id /\ r.uid = user.uid
    /\ n \in 31..45 => obj["gates"] = "absent"
    /\ n \in 32..45 => obj["unit"] = "absent"
    /\ n \in 33..45 => obj["etc"] = "absent"
    /\ n \in 34..45 => obj["opt"] = "absent"
    /\ n \in 35..45 => ~loaded
    /\ n \in 37..40 => user = NoUser
    /\ n \in 38..40 => group = NoGroup

Clean == user.tag = 0 /\ ~group.own /\ NoneMade /\ ~loaded /\ obj["next"] = "absent"

\* What any stop leaves: nothing of the package without a complete receipt, the
\* account under the receipt's tag with its own group, whose number the receipt
\* has from the moment a file is made.
Remains ==
    /\ obj["receipt"] # "ok" => Clean
    /\ user.tag # 0 => user.tag = saved.id /\ group.own /\ group.gid = user.uid /\ user.uid # 0
    /\ group.own /\ saved.uid # 0 => saved.uid = group.gid
    /\ ~NoneMade \/ loaded => saved.uid # 0
    /\ loaded /\ AllFiles => obj["next"] = "absent" /\ user.tag = saved.id

\* An apply learns the number from the account it created.
NumberUnknown == \A p \in Procs : place[p] \in 1..8 => proc[p].r.uid = 0

HostInv ==
    /\ Remains /\ NumberUnknown
    /\ \A p \in Procs : Holds(p) => HostAt(place[p], proc[p].r)

\* A step changes nothing but the state directory itself.
Kept ==
    /\ \A x \in Paths \ {"state"} : obj'[x] = obj[x]
    /\ saved' = saved /\ draft' = draft /\ user' = user /\ group' = group /\ loaded' = loaded

\* A step that leaves the host as it was keeps what is known of it at every
\* place.
LEMMA KeptHost ==
    ASSUME Kept
    PROVE  (Remains => Remains') /\ \A n \in Places : \A r : HostAt(n, r) => HostAt(n, r)'
<1>1. /\ obj'["receipt"] = obj["receipt"] /\ obj'["next"] = obj["next"] /\ obj'["opt"] = obj["opt"]
      /\ obj'["etc"] = obj["etc"] /\ obj'["gates"] = obj["gates"] /\ obj'["unit"] = obj["unit"]
      /\ \A x \in Targets : obj'[x] = obj[x]
      /\ saved' = saved /\ draft' = draft /\ user' = user /\ group' = group /\ loaded' = loaded
  BY DEF Kept, Paths, Targets
<1>2. (NoneMade' <=> NoneMade) /\ (AllFiles' <=> AllFiles)
  BY <1>1 DEF NoneMade, AllFiles, OwnTarget
<1>3. Remains => Remains'
  BY <1>1, <1>2 DEF Remains, Clean
<1>4. ASSUME NEW n \in Places, NEW r, HostAt(n, r) PROVE HostAt(n, r)'
  BY <1>1, <1>2, <1>4 DEF HostAt
<1>. QED
  BY <1>3, <1>4

\* A move keeps HostInv, when it leaves the host alone or has the lock to
\* itself, and its new place is true of the host.
LEMMA HostMove ==
    ASSUME CustodyType, Placed, HostInv,
           NEW p \in Procs, NEW n, NEW r, NEW d, NEW l, Moved(p, n, r, d, l),
           n \in 1..8 => r.uid = 0,
           Remains', l /\ n # 41 => HostAt(n, r)',
           Kept \/ \A q \in Procs \ {p} : ~Holds(q)
    PROVE  HostInv'
<1>1. /\ place' = [place EXCEPT ![p] = n] /\ proc'[p].r = r /\ proc'[p].locked = l
      /\ \A q \in Procs \ {p} : proc'[q] = proc[q]
      /\ place \in [Procs -> Places]
  BY MovedPlaced DEF Placed
<1>2. /\ place'[p] = n
      /\ \A q \in Procs \ {p} : place'[q] = place[q]
  BY <1>1
<1>3. NumberUnknown'
  BY <1>1, <1>2 DEF NumberUnknown, HostInv
<1>4. ASSUME NEW q \in Procs, Holds(q)' PROVE HostAt(place[q], proc[q].r)'
  <2>1. CASE q = p
    <3>1. l /\ n # 41
      BY <1>1, <1>2, <1>4, <2>1 DEF Holds
    <3>2. HostAt(n, r)' /\ place'[q] = n /\ proc'[q].r = r
      BY <1>1, <1>2, <2>1, <3>1
    <3>. QED
      BY <3>2 DEF HostAt
  <2>2. CASE q # p
    <3>1. Holds(q) /\ place'[q] = place[q] /\ proc'[q].r = proc[q].r
      BY <1>1, <1>2, <1>4, <2>2 DEF Holds
    <3>2. PICK m, t : m \in Places /\ m = place[q] /\ t = proc[q].r /\ HostAt(m, t)
      BY <1>1, <3>1 DEF HostInv
    <3>3. HostAt(m, t)'
      BY <2>2, <3>1, <3>2, KeptHost
    <3>4. place'[q] = m /\ proc'[q].r = t
      BY <3>1, <3>2
    <3>. QED
      BY <3>3, <3>4 DEF HostAt
  <2>. QED
    BY <2>1, <2>2
<1>. QED
  BY <1>3, <1>4 DEF HostInv

\* Steps that read the host, or make, own or remove the state directory.
LEMMA HostKept ==
    ASSUME CustodyType, Placed, HostInv,
           NEW p \in Procs, NEW n, NEW r, NEW d, NEW l, Moved(p, n, r, d, l),
           n \in 1..8 => r.uid = 0, l /\ n # 41 => HostAt(n, r), Kept
    PROVE  HostInv'
<1>1. n \in Places
  BY DEF Moved
<1>2. Remains' /\ (l /\ n # 41 => HostAt(n, r)')
  BY <1>1, KeptHost DEF HostInv
<1>. QED
  BY <1>2, HostMove

\* A process at a place under the lock has it alone, and the host is as that
\* place says.
LEMMA Holder ==
    ASSUME CustodyType, Placed, LockInv, HostInv, NEW p \in Procs, NEW k,
           place[p] = k, k \in 5..20 \cup 28..40 \cup 42..45
    PROVE  /\ proc[p].locked /\ Holds(p) /\ HostAt(k, proc[p].r)
           /\ \A q \in Procs \ {p} : ~Holds(q)
<1>1. LockAt(k, proc[p].dir, proc[p].locked)
  BY DEF LockInv
<1>2. proc[p].locked /\ k # 41
  BY <1>1 DEF LockAt
<1>3. Holds(p)
  BY <1>2 DEF Holds
<1>. QED
  BY <1>2, <1>3, Exclusion DEF HostInv

\* The checks, and the steps before and after the lock is held.
LEMMA HostChecks ==
    ASSUME CustodyType, Placed, LockInv, HostInv, NEW p \in Procs,
           \/ Abort(p) \/ Open(p) \/ Flock(p) \/ ReadReceipt(p) \/ CheckIdentity(p) \/ CheckFiles(p)
           \/ CheckPartial(p) \/ CheckUnit(p) \/ RecordUser(p) \/ ConfirmRemoval(p) \/ Answer(p)
    PROVE  HostInv'
<1>1. Kept
  BY DEF Abort, Open, Flock, ReadReceipt, CheckIdentity, CheckFiles, CheckPartial, CheckUnit,
         RecordUser, ConfirmRemoval, Answer, host, Kept
<1>2. PICK r : r = proc[p].r
  OBVIOUS
<1>3. CASE Abort(p) \/ Answer(p)
  <2>1. Moved(p, 0, NoReceipt, 0, FALSE)
    BY <1>3, MoveAbort, MoveAnswer
  <2>2. 0 \notin 1..8
    OBVIOUS
  <2>. QED
    BY <1>1, <2>1, <2>2, HostKept
<1>4. CASE Open(p)
  <2>1. CASE place[p] = 3
    <3>1. Moved(p, 4, r, dirs, proc[p].locked) /\ ~proc[p].locked /\ r.uid = 0
      BY <1>2, <1>4, <2>1, MoveOpen DEF LockInv, LockAt, HostInv, NumberUnknown
    <3>. QED
      BY <1>1, <3>1, HostKept
  <2>2. CASE place[p] = 26
    <3>1. Moved(p, 27, r, dirs, proc[p].locked) /\ ~proc[p].locked
      BY <1>2, <1>4, <2>2, MoveOpen DEF LockInv, LockAt
    <3>. QED
      BY <1>1, <3>1, HostKept
  <2>. QED
    BY <1>4, <2>1, <2>2, MoveOpen
<1>5. CASE Flock(p)
  <2>1. PICK n \in {4, 27} : n = place[p] /\ Moved(p, n + 1, r, proc[p].dir, TRUE)
    BY <1>2, <1>5, MoveFlock
  <2>2. n + 1 \in 1..8 => r.uid = 0
    BY <1>2, <2>1 DEF HostInv, NumberUnknown
  <2>3. HostAt(n + 1, r)
    <3>1. CASE n = 4
      <4>1. LockAt(n, proc[p].dir, proc[p].locked)
        BY <2>1 DEF LockInv
      <4>2. obj["receipt"] = "absent"
        BY <3>1, <4>1 DEF LockAt
      <4>3. Clean
        BY <4>2 DEF HostInv, Remains
      <4>. QED
        BY <3>1, <4>2, <4>3 DEF HostAt, Clean
    <3>2. CASE n = 27
      BY <3>2 DEF HostAt
    <3>. QED
      BY <3>1, <3>2
  <2>. QED
    BY <1>1, <2>1, <2>2, <2>3, HostKept
<1>6. CASE ReadReceipt(p)
  <2>1. ReceiptReadable
    BY <1>6 DEF ReadReceipt
  <2>2. HostAt(22, saved) /\ HostAt(29, saved)
    BY <2>1 DEF HostAt, ReceiptReadable
  <2>3. Moved(p, 22, saved, proc[p].dir, proc[p].locked) \/ Moved(p, 29, saved, proc[p].dir, proc[p].locked)
    BY <1>2, <1>6, MoveRead
  <2>. QED
    BY <1>1, <2>2, <2>3, HostKept
<1>7. CASE CheckIdentity(p)
  <2>1. CASE place[p] = 22 /\ Stays(p, 23)
    <3>1. Moved(p, 23, r, proc[p].dir, proc[p].locked) /\ HostAt(23, r)
      BY <1>2, <2>1 DEF Stays, HostAt
    <3>. QED
      BY <1>1, <3>1, HostKept
  <2>2. CASE place[p] = 8 /\ Moved(p, 9, [id |-> r.id, uid |-> user.uid], proc[p].dir, proc[p].locked)
    <3>1. HostAt(8, r) /\ user.tag = r.id
      BY <1>2, <1>7, <2>2, Holder DEF CheckIdentity, Identity
    <3>2. PICK t : t = [id |-> r.id, uid |-> user.uid]
      OBVIOUS
    <3>3. t.id = r.id /\ t.uid = user.uid
      BY <3>2
    <3>4. HostAt(9, t)
      BY <3>1, <3>3 DEF HostAt
    <3>. QED
      BY <1>1, <2>2, <3>2, <3>4, HostKept
  <2>. QED
    BY <1>2, <1>7, <2>1, <2>2, MoveIdentity
<1>8. CASE CheckFiles(p)
  <2>1. Moved(p, 24, r, proc[p].dir, proc[p].locked) /\ HostAt(24, r)
    BY <1>2, <1>8, MoveFiles DEF Stays, HostAt
  <2>. QED
    BY <1>1, <2>1, HostKept
<1>9. CASE CheckPartial(p)
  <2>1. place[p] = 29 /\ Moved(p, 30, r, proc[p].dir, proc[p].locked)
    BY <1>2, <1>9, MovePartial DEF Stays
  <2>2. HostAt(29, r) /\ (user = NoUser \/ user.tag = r.id)
    BY <1>2, <1>9, <2>1, Holder DEF CheckPartial, PartialIdentity, Identity
  <2>3. HostAt(30, r)
    BY <2>2 DEF HostAt
  <2>. QED
    BY <1>1, <2>1, <2>3, HostKept
<1>10. CASE CheckUnit(p)
  <2>1. CASE place[p] = 24
    <3>1. Moved(p, 25, r, proc[p].dir, proc[p].locked) /\ HostAt(25, r)
      BY <1>2, <1>10, <2>1, MoveUnit DEF Stays, HostAt
    <3>. QED
      BY <1>1, <3>1, HostKept
  <2>2. CASE place[p] = 35
    <3>1. Moved(p, 36, r, proc[p].dir, proc[p].locked) /\ HostAt(35, r)
      BY <1>2, <1>10, <2>2, MoveUnit, Holder DEF Stays
    <3>2. HostAt(36, r)
      BY <3>1 DEF HostAt
    <3>. QED
      BY <1>1, <3>1, <3>2, HostKept
  <2>. QED
    BY <1>10, <2>1, <2>2, MoveUnit
<1>11. CASE RecordUser(p)
  <2>0. place[p] = 36
    BY <1>11, MoveRecord
  <2>1. HostAt(36, r)
    BY <1>2, <2>0, Holder
  <2>2. CASE user = NoUser /\ Moved(p, 37, r, proc[p].dir, proc[p].locked)
    <3>1. HostAt(37, r)
      BY <2>1, <2>2 DEF HostAt
    <3>. QED
      BY <1>1, <2>2, <3>1, HostKept
  <2>3. CASE user # NoUser /\ Moved(p, 42, [id |-> r.id, uid |-> user.uid], proc[p].dir, proc[p].locked)
    <3>1. PICK t : t = [id |-> r.id, uid |-> user.uid]
      OBVIOUS
    <3>2. t.id = r.id /\ t.uid = user.uid
      BY <3>1
    <3>3. HostAt(42, t)
      BY <2>1, <2>3, <3>2 DEF HostAt
    <3>. QED
      BY <1>1, <2>3, <3>1, <3>3, HostKept
  <2>. QED
    BY <1>2, <1>11, <2>2, <2>3, MoveRecord
<1>12. CASE ConfirmRemoval(p)
  <2>1. place[p] = 38 /\ Moved(p, 39, r, proc[p].dir, proc[p].locked) /\ user = NoUser /\ group = NoGroup
    BY <1>2, <1>12, MoveConfirm DEF Stays, ConfirmRemoval
  <2>2. HostAt(38, r)
    BY <1>2, <2>1, Holder
  <2>3. HostAt(39, r)
    BY <2>1, <2>2 DEF HostAt
  <2>. QED
    BY <1>1, <2>1, <2>3, HostKept
<1>. QED
  BY <1>3, <1>4, <1>5, <1>6, <1>7, <1>8, <1>9, <1>10, <1>11, <1>12

\* The start of an operation keeps HostInv.
LEMMA HostBegin ==
    ASSUME CustodyType, Placed, LockInv, HostInv, NEW p \in Procs, apply(p) \/ verify(p) \/ rollback(p)
    PROVE  HostInv'
<1>1. Kept
  BY MoveBegin DEF host, Kept
<1>2. ASSUME NEW n \in {1, 21, 26}, NEW id, Moved(p, n, [id |-> id, uid |-> 0], 0, FALSE)
      PROVE  HostInv'
  <2>1. PICK t : t = [id |-> id, uid |-> 0]
    OBVIOUS
  <2>2. t.uid = 0 /\ Moved(p, n, t, 0, FALSE)
    BY <1>2, <2>1
  <2>. QED
    BY <1>1, <2>2, HostKept
<1>3. \E n \in {1, 21, 26} : \E id : Moved(p, n, [id |-> id, uid |-> 0], 0, FALSE)
  BY MoveBegin
<1>. QED
  BY <1>2, <1>3

\* The holder of the lock changes the host.
LEMMA HostChange ==
    ASSUME CustodyType, Placed, LockInv, HostInv, NEW p \in Procs, NEW k,
           place[p] = k, k \in 5..20 \cup 28..40 \cup 42..45,
           NEW n, NEW r, r = proc[p].r, Moved(p, n, r, proc[p].dir, proc[p].locked),
           n \notin 1..8, Remains', HostAt(n, r)'
    PROVE  HostInv'
<1>1. \A q \in Procs \ {p} : ~Holds(q)
  BY Holder
<1>. QED
  BY <1>1, HostMove

\* A path changes its condition, everything else of the host stays.
LEMMA PathSet ==
    ASSUME CustodyType, NEW x \in Paths, NEW c, obj' = [obj EXCEPT ![x] = c]
    PROVE  /\ \A y \in Paths : obj'[y] = (IF y = x THEN c ELSE obj[y])
           /\ Paths = {"state", "receipt", "next", "opt", "etc", "gates", "unit"}
           /\ Targets = {"opt", "etc", "gates", "unit"}
           /\ x \in Targets /\ c # "ok" => ~AllFiles'
           /\ x \in Targets /\ c \notin {"raw", "ok"} /\ NoneMade => NoneMade'
<1>1. \A y \in Paths : obj'[y] = (IF y = x THEN c ELSE obj[y])
  BY Values DEF CustodyType
<1>2. Paths = {"state", "receipt", "next", "opt", "etc", "gates", "unit"}
      /\ Targets = {"opt", "etc", "gates", "unit"}
  BY DEF Paths, Targets
<1>3. Targets \subseteq Paths
  BY <1>2
<1>6. x \in Targets /\ c # "ok" => ~AllFiles'
  BY <1>1 DEF AllFiles
<1>7. x \in Targets /\ c \notin {"raw", "ok"} /\ NoneMade => NoneMade'
  BY <1>1, <1>3 DEF NoneMade, OwnTarget
<1>. QED
  BY <1>1, <1>2, <1>6, <1>7

\* The same for a path of the state directory.
LEMMA StateSet ==
    ASSUME CustodyType, NEW x \in {"state", "receipt", "next"}, NEW c, obj' = [obj EXCEPT ![x] = c]
    PROVE  /\ obj'[x] = c
           /\ x # "receipt" => obj'["receipt"] = obj["receipt"]
           /\ x # "next" => obj'["next"] = obj["next"]
           /\ obj'["opt"] = obj["opt"] /\ obj'["etc"] = obj["etc"]
           /\ obj'["gates"] = obj["gates"] /\ obj'["unit"] = obj["unit"]
           /\ (NoneMade' <=> NoneMade) /\ (AllFiles' <=> AllFiles)
<1>1. \A y \in Paths : obj'[y] = (IF y = x THEN c ELSE obj[y])
  <2>1. x \in Paths
    BY DEF Paths
  <2>. QED
    BY <2>1, Values DEF CustodyType
<1>2. /\ obj'[x] = c
      /\ x # "receipt" => obj'["receipt"] = obj["receipt"]
      /\ x # "next" => obj'["next"] = obj["next"]
      /\ obj'["opt"] = obj["opt"] /\ obj'["etc"] = obj["etc"]
      /\ obj'["gates"] = obj["gates"] /\ obj'["unit"] = obj["unit"]
  BY <1>1 DEF Paths, Targets
<1>3. NoneMade' <=> NoneMade
  BY <1>2 DEF NoneMade, OwnTarget, Targets
<1>4. AllFiles' <=> AllFiles
  BY <1>2 DEF AllFiles, Targets
<1>. QED
  BY <1>2, <1>3, <1>4

\* The steps on the state directory keep HostInv.
LEMMA HostState ==
    ASSUME CustodyType, Placed, LockInv, HostInv, NEW p \in Procs,
           Make(p, "state") \/ Own(p, "state") \/ Drop(p, "state")
    PROVE  HostInv'
<1>1. Kept
  <2>1. /\ \E c : obj' = [obj EXCEPT !["state"] = c]
        /\ saved' = saved /\ draft' = draft /\ user' = user /\ group' = group /\ loaded' = loaded
    BY DEF Make, Own, Drop
  <2>2. "state" \in Paths
    BY DEF Paths
  <2>. QED
    BY <2>1, <2>2, PathSet DEF Kept
<1>2. PICK r : r = proc[p].r
  OBVIOUS
<1>3. CASE Make(p, "state")
  <2>1. place[p] = 1 /\ Moved(p, 2, r, proc[p].dir, proc[p].locked)
    BY <1>2, <1>3, MoveMake DEF Stays
  <2>2. LockAt(1, proc[p].dir, proc[p].locked)
    BY <2>1 DEF LockInv
  <2>3. r.uid = 0 /\ ~proc[p].locked
    BY <1>2, <2>1, <2>2 DEF HostInv, NumberUnknown, LockAt
  <2>. QED
    BY <1>1, <2>1, <2>3, HostKept
<1>4. CASE Own(p, "state")
  <2>1. place[p] = 2 /\ Moved(p, 3, r, proc[p].dir, proc[p].locked)
    BY <1>2, <1>4, MoveOwn DEF Stays
  <2>2. LockAt(2, proc[p].dir, proc[p].locked)
    BY <2>1 DEF LockInv
  <2>3. r.uid = 0 /\ ~proc[p].locked
    BY <1>2, <2>1, <2>2 DEF HostInv, NumberUnknown, LockAt
  <2>. QED
    BY <1>1, <2>1, <2>3, HostKept
<1>5. CASE Drop(p, "state")
  <2>1. Moved(p, 41, r, proc[p].dir, proc[p].locked)
    BY <1>2, <1>5, MoveDrop DEF Stays
  <2>. QED
    BY <1>1, <2>1, HostKept
<1>. QED
  BY <1>3, <1>4, <1>5

\* The steps on the receipt keep HostInv.
LEMMA HostReceipt ==
    ASSUME CustodyType, Placed, LockInv, ForeignInv, HostInv, NEW p \in Procs,
           Make(p, "receipt") \/ Own(p, "receipt") \/ Drop(p, "receipt")
    PROVE  HostInv'
<1>1. PICK r : r = proc[p].r
  OBVIOUS
<1>2. draft' = draft /\ user' = user /\ group' = group /\ loaded' = loaded
  BY DEF Make, Own, Drop
<1>3. CASE Make(p, "receipt")
  <2>1. place[p] = 5 /\ Moved(p, 6, r, proc[p].dir, proc[p].locked)
    BY <1>1, <1>3, MoveMake DEF Stays
  <2>2. HostAt(5, r)
    BY <1>1, <2>1, Holder
  <2>3. /\ obj'["receipt"] = "raw" /\ obj'["next"] = obj["next"] /\ saved' = saved
        /\ (NoneMade' <=> NoneMade) /\ (AllFiles' <=> AllFiles)
    <3>1. obj' = [obj EXCEPT !["receipt"] = "raw"] /\ saved' = saved
      BY <1>3 DEF Make
    <3>. QED
      BY <3>1, StateSet
  <2>4. Clean /\ NoneMade /\ ~loaded
    BY <2>2 DEF HostAt, HostInv, Remains
  <2>5. Remains'
    BY <1>2, <2>3, <2>4 DEF Remains, Clean, HostInv
  <2>6. HostAt(6, r)'
    BY <1>2, <2>3, <2>4 DEF HostAt
  <2>7. r.uid = 0 /\ \A q \in Procs \ {p} : ~Holds(q)
    BY <1>1, <2>1, Holder DEF HostInv, NumberUnknown
  <2>. QED
    BY <2>1, <2>5, <2>6, <2>7, HostMove
<1>4. CASE Own(p, "receipt")
  <2>1. place[p] = 6 /\ Moved(p, 7, r, proc[p].dir, proc[p].locked)
    BY <1>1, <1>4, MoveOwn DEF Stays
  <2>2. HostAt(6, r)
    BY <1>1, <2>1, Holder
  <2>3. /\ obj'["receipt"] = "ok" /\ obj'["next"] = obj["next"] /\ saved' = r
        /\ (NoneMade' <=> NoneMade) /\ (AllFiles' <=> AllFiles)
    <3>1. obj' = [obj EXCEPT !["receipt"] = "ok"] /\ saved' = r
      BY <1>1, <1>4 DEF Own
    <3>. QED
      BY <3>1, StateSet
  <2>4. Clean /\ NoneMade /\ ~loaded
    BY <2>2 DEF HostAt, HostInv, Remains
  <2>5. r.uid = 0 /\ \A q \in Procs \ {p} : ~Holds(q)
    BY <1>1, <2>1, Holder DEF HostInv, NumberUnknown
  <2>6. Remains'
    BY <1>2, <2>3, <2>4, <2>5 DEF Remains, Clean
  <2>7. HostAt(7, r)'
    BY <1>2, <2>3, <2>4, <2>5 DEF HostAt, Clean
  <2>. QED
    BY <2>1, <2>5, <2>6, <2>7, HostMove
<1>5. CASE Drop(p, "receipt")
  <2>1. place[p] = 39 /\ Moved(p, 40, r, proc[p].dir, proc[p].locked)
    BY <1>1, <1>5, MoveDrop DEF Stays
  <2>2. HostAt(39, r)
    BY <1>1, <2>1, Holder
  <2>3. /\ obj'["next"] = obj["next"] /\ saved' = NoReceipt
        /\ obj'["opt"] = obj["opt"] /\ obj'["etc"] = obj["etc"]
        /\ obj'["gates"] = obj["gates"] /\ obj'["unit"] = obj["unit"]
    <3>1. obj' = [obj EXCEPT !["receipt"] = "absent"] /\ saved' = NoReceipt
      BY <1>5 DEF Drop
    <3>. QED
      BY <3>1, StateSet
  <2>4. obj'["opt"] = "absent" /\ obj'["etc"] = "absent" /\ obj'["gates"] = "absent" /\ obj'["unit"] = "absent"
    BY <2>2, <2>3 DEF HostAt
  <2>5. NoneMade'
    BY <2>4 DEF NoneMade, OwnTarget, Targets
  <2>6. user = NoUser /\ group = NoGroup /\ ~loaded /\ obj["next"] = "absent"
    BY <2>2 DEF HostAt
  <2>7. user'.tag = 0 /\ ~group'.own
    BY <1>2, <2>6 DEF NoUser, NoGroup
  <2>8. Remains'
    BY <1>2, <2>3, <2>5, <2>6, <2>7 DEF Remains, Clean
  <2>9. HostAt(40, r)'
    BY <1>2, <2>3, <2>4, <2>6 DEF HostAt
  <2>. QED
    BY <1>1, <2>1, <2>8, <2>9, HostChange
<1>. QED
  BY <1>3, <1>4, <1>5

\* The second copy of the receipt, when the account's number is known.
LEMMA HostNextFile ==
    ASSUME CustodyType, Placed, LockInv, ForeignInv, HostInv, NEW p \in Procs,
           Make(p, "next") \/ Own(p, "next")
    PROVE  HostInv'
<1>1. PICK r, k : r = proc[p].r /\ k = place[p]
  OBVIOUS
<1>2. saved' = saved /\ user' = user /\ group' = group /\ loaded' = loaded
  BY DEF Make, Own
<1>3. Moved(p, k + 1, r, proc[p].dir, proc[p].locked) /\ k \in {9, 10, 42, 43}
  BY <1>1, MoveMake, MoveOwn DEF Stays
<1>4. HostAt(k, r)
  BY <1>1, <1>3, Holder
<1>5. PICK c : obj' = [obj EXCEPT !["next"] = c]
  BY DEF Make, Own
<1>6. /\ obj'["next"] = c /\ obj'["receipt"] = obj["receipt"] /\ obj'["opt"] = obj["opt"]
      /\ obj'["etc"] = obj["etc"] /\ obj'["gates"] = obj["gates"] /\ obj'["unit"] = obj["unit"]
      /\ (NoneMade' <=> NoneMade) /\ (AllFiles' <=> AllFiles)
  BY <1>5, StateSet
<1>7. obj["receipt"] = "ok" /\ ~loaded
  BY <1>3, <1>4 DEF HostAt
<1>8. Remains'
  BY <1>2, <1>6, <1>7 DEF Remains, HostInv
<1>9. k \in {10, 43} => c = "ok" /\ draft' = r
  <2>. SUFFICES ASSUME k \in {10, 43} PROVE c = "ok" /\ draft' = r
    OBVIOUS
  <2>1. Own(p, "next")
    BY <1>1, MoveMake
  <2>2. obj' = [obj EXCEPT !["next"] = "ok"] /\ draft' = proc[p].r
    BY <2>1 DEF Own
  <2>3. obj'["next"] = "ok"
    BY <2>2, StateSet
  <2>. QED
    BY <1>1, <1>6, <2>2, <2>3
<1>10. HostAt(k + 1, r)'
  <2>1. CASE k = 9
    BY <1>2, <1>4, <1>6, <2>1 DEF HostAt
  <2>2. CASE k = 10
    BY <1>2, <1>4, <1>6, <1>9, <2>2 DEF HostAt
  <2>3. CASE k = 42
    BY <1>2, <1>4, <1>6, <2>3 DEF HostAt
  <2>4. CASE k = 43
    BY <1>2, <1>4, <1>6, <1>9, <2>4 DEF HostAt
  <2>. QED
    BY <1>3, <2>1, <2>2, <2>3, <2>4
<1>. QED
  BY <1>1, <1>3, <1>8, <1>10, HostChange

\* Replacing the receipt keeps HostInv.
LEMMA HostReplace ==
    ASSUME CustodyType, Placed, LockInv, ForeignInv, HostInv, NEW p \in Procs, Replace(p)
    PROVE  HostInv'
<1>1. PICK r, k : r = proc[p].r /\ k = place[p]
  OBVIOUS
<1>2. saved' = draft /\ user' = user /\ group' = group /\ loaded' = loaded
  BY DEF Replace
<1>3. Moved(p, k + 1, r, proc[p].dir, proc[p].locked) /\ k \in {11, 44}
  BY <1>1, MoveReplace DEF Stays
<1>4. HostAt(k, r) /\ ForeignAt(k, r)
  BY <1>1, <1>3, Holder DEF ForeignInv
<1>5. obj["next"] = "ok" /\ draft = r /\ ~loaded /\ user.tag = r.id /\ r.uid = user.uid
  BY <1>3, <1>4 DEF HostAt
<1>6. r.id # 0
  BY <1>3, <1>4 DEF ForeignAt
<1>7. obj \in [Paths -> Conditions]
      /\ obj' = [obj EXCEPT !["receipt"] = obj["next"], !["next"] = "absent"]
  BY Values DEF CustodyType, Replace
<1>8. /\ obj'["receipt"] = "ok" /\ obj'["next"] = "absent"
      /\ obj'["opt"] = obj["opt"] /\ obj'["etc"] = obj["etc"] /\ obj'["gates"] = obj["gates"]
      /\ obj'["unit"] = obj["unit"] /\ \A y \in Targets : obj'[y] = obj[y]
  BY <1>5, <1>7 DEF Paths, Targets
<1>9. NoneMade' <=> NoneMade
  BY <1>8 DEF NoneMade, OwnTarget
<1>10. Remains'
  <2>1. user.tag # 0 /\ user.uid # 0 /\ group.own /\ group.gid = user.uid
    BY <1>5, <1>6 DEF HostInv, Remains
  <2>. QED
    BY <1>2, <1>5, <1>8, <2>1 DEF Remains
<1>11. HostAt(k + 1, r)'
  <2>1. CASE k = 11
    BY <1>2, <1>4, <1>5, <1>8, <1>9, <2>1 DEF HostAt
  <2>2. CASE k = 44
    BY <1>2, <1>4, <1>5, <1>8, <2>2 DEF HostAt
  <2>. QED
    BY <1>3, <2>1, <2>2
<1>12. k + 1 \notin 1..8 /\ k \in 5..20 \cup 28..40 \cup 42..45
  BY <1>3
<1>. QED
  BY <1>1, <1>3, <1>10, <1>11, <1>12, HostChange

\* Creating the account keeps HostInv.
LEMMA HostUseradd ==
    ASSUME CustodyType, Placed, LockInv, ForeignInv, HostInv, NEW p \in Procs, create_user(p)
    PROVE  HostInv'
<1>1. PICK r : r = proc[p].r
  OBVIOUS
<1>2. place[p] = 7 /\ HostAt(7, r) /\ \A q \in Procs \ {p} : ~Holds(q)
  <2>1. place[p] = 7
    BY MoveUseradd
  <2>. QED
    BY <1>1, <2>1, Holder
<1>3. obj' = obj /\ saved' = saved /\ draft' = draft /\ loaded' = loaded
  BY DEF create_user
<1>4. PICK u \in Uids :
        /\ group' = [gid |-> u, own |-> TRUE, clean |-> TRUE]
        /\ \/ user' = [tag |-> r.id, uid |-> u, clean |-> TRUE] /\ Advance(p)
           \/ user' = NoUser /\ proc' = [proc EXCEPT ![p] = Idle]
  BY <1>1 DEF create_user
<1>5. group'.own /\ group'.gid = u /\ u # 0
  BY <1>4, CustodyAssumption
<1>6. user' = NoUser \/ (user'.tag = r.id /\ user'.uid = u)
  BY <1>4
<1>7. saved.id = r.id /\ saved.uid = 0 /\ NoneMade /\ ~loaded /\ obj["receipt"] = "ok" /\ obj["next"] = "absent"
  BY <1>2 DEF HostAt
<1>8. (NoneMade' <=> NoneMade) /\ NoUser.tag = 0
  BY <1>3 DEF NoneMade, OwnTarget, NoUser
<1>9. Remains'
  BY <1>3, <1>5, <1>6, <1>7, <1>8 DEF Remains
<1>10. CASE user' = [tag |-> r.id, uid |-> u, clean |-> TRUE] /\ Advance(p)
  <2>1. user'.tag = r.id
    BY <1>10
  <2>2. HostAt(8, r)'
    BY <1>3, <1>7, <1>8, <2>1 DEF HostAt
  <2>3. At(p, "useradd", "user") /\ After(7) = 8
    BY DEF create_user, After
  <2>4. Moved(p, 8, r, proc[p].dir, proc[p].locked)
    BY <1>1, <1>2, <1>10, <2>3, Onward
  <2>5. r.uid = 0
    BY <1>1, <1>2 DEF HostInv, NumberUnknown
  <2>. QED
    BY <1>2, <1>9, <2>2, <2>4, <2>5, HostMove
<1>11. CASE proc' = [proc EXCEPT ![p] = Idle]
  <2>1. Moved(p, 0, NoReceipt, 0, FALSE)
    BY <1>11, Ends
  <2>2. 0 \notin 1..8
    OBVIOUS
  <2>. QED
    BY <1>2, <1>9, <2>1, <2>2, HostMove
<1>. QED
  BY <1>4, <1>10, <1>11

\* A file or directory of the package is made, after the account.
LEMMA HostTarget ==
    ASSUME CustodyType, Placed, LockInv, ForeignInv, HostInv, NEW p \in Procs,
           NEW x \in Targets, Make(p, x) \/ Own(p, x)
    PROVE  HostInv'
<1>1. PICK r, k : r = proc[p].r /\ k = place[p]
  OBVIOUS
<1>2. saved' = saved /\ user' = user /\ group' = group /\ loaded' = loaded
  <2>1. x \notin {"receipt", "next"}
    BY DEF Targets
  <2>. QED
    BY <2>1 DEF Make, Own
<1>3. /\ Moved(p, k + 1, r, proc[p].dir, proc[p].locked) /\ k \in 12..19
      /\ \/ x = "opt" /\ k \in {12, 13}
         \/ x = "etc" /\ k \in {14, 15}
         \/ x = "gates" /\ k \in {16, 17}
         \/ x = "unit" /\ k \in {18, 19}
      /\ k \in {13, 15, 17, 19} => Own(p, x)
  <2>1. CASE Make(p, x)
    BY <1>1, <2>1, MoveMake DEF Stays, Targets
  <2>2. CASE Own(p, x)
    BY <1>1, <2>2, MoveOwn DEF Stays, Targets
  <2>. QED
    BY <2>1, <2>2
<1>4. HostAt(k, r) /\ ForeignAt(k, r)
  BY <1>1, <1>3, Holder DEF ForeignInv
<1>5. PICK c \in {"raw", "ok"} : obj' = [obj EXCEPT ![x] = c] /\ (Own(p, x) => c = "ok")
  <2>1. CASE Make(p, x) /\ ~Own(p, x)
    BY <2>1 DEF Make
  <2>2. CASE Own(p, x)
    BY <2>2 DEF Own
  <2>. QED
    BY <2>1, <2>2
<1>6. x \in Paths
  BY DEF Paths
<1>7. /\ obj'["receipt"] = obj["receipt"] /\ obj'["next"] = obj["next"]
      /\ k \in 13..19 => obj'["opt"] = "ok"
      /\ k \in 15..19 => obj'["etc"] = "ok"
      /\ k \in 17..19 => obj'["gates"] = "ok"
      /\ k = 19 => obj'["unit"] = "ok"
  <2>1. \A y \in Paths : obj'[y] = (IF y = x THEN c ELSE obj[y])
    BY <1>5, <1>6, PathSet
  <2>2. x \notin {"receipt", "next"}
        /\ {"receipt", "next", "opt", "etc", "gates", "unit"} \subseteq Paths
    BY DEF Targets, Paths
  <2>3. k \in {13, 15, 17, 19} => c = "ok"
    BY <1>3, <1>5
  <2>4. /\ k \in 14..19 => obj["opt"] = "ok"
        /\ k \in 16..19 => obj["etc"] = "ok"
        /\ k \in 18..19 => obj["gates"] = "ok"
    BY <1>4 DEF HostAt
  <2>5. obj'["receipt"] = obj["receipt"] /\ obj'["next"] = obj["next"]
    BY <2>1, <2>2
  <2>6. /\ obj'["opt"] = (IF "opt" = x THEN c ELSE obj["opt"])
        /\ obj'["etc"] = (IF "etc" = x THEN c ELSE obj["etc"])
        /\ obj'["gates"] = (IF "gates" = x THEN c ELSE obj["gates"])
        /\ obj'["unit"] = (IF "unit" = x THEN c ELSE obj["unit"])
    BY <2>1, <2>2
  <2>. QED
    BY <1>3, <2>3, <2>4, <2>5, <2>6
<1>8. /\ saved = r /\ user.tag = r.id /\ r.uid = user.uid /\ obj["receipt"] = "ok" /\ obj["next"] = "absent"
      /\ ~loaded /\ r.id # 0
  BY <1>3, <1>4 DEF HostAt, ForeignAt
<1>9. user.tag # 0 /\ group.own /\ group.gid = user.uid /\ user.uid # 0
  BY <1>8 DEF HostInv, Remains
<1>10. Remains'
  BY <1>2, <1>7, <1>8, <1>9 DEF Remains
<1>11. HostAt(k + 1, r)'
  BY <1>2, <1>3, <1>7, <1>8 DEF HostAt
<1>12. k + 1 \notin 1..8 /\ k \in 5..20 \cup 28..40 \cup 42..45
  BY <1>3
<1>. QED
  BY <1>1, <1>3, <1>10, <1>11, <1>12, HostChange

\* Removing an installed file keeps HostInv.
LEMMA HostDropTarget ==
    ASSUME CustodyType, Placed, LockInv, ForeignInv, HostInv, NEW p \in Procs,
           NEW x \in Targets, Drop(p, x)
    PROVE  HostInv'
<1>1. PICK r, k : r = proc[p].r /\ k = place[p]
  OBVIOUS
<1>2. saved' = saved /\ user' = user /\ group' = group /\ loaded' = loaded /\ obj' = [obj EXCEPT ![x] = "absent"]
  <2>1. x # "receipt"
    BY DEF Targets
  <2>. QED
    BY <2>1 DEF Drop
<1>3. /\ Moved(p, k + 1, r, proc[p].dir, proc[p].locked) /\ k \in 30..33
      /\ \/ k = 30 /\ x = "gates"
         \/ k = 31 /\ x = "unit"
         \/ k = 32 /\ x = "etc"
         \/ k = 33 /\ x = "opt"
  BY <1>1, MoveDrop DEF Stays, Targets
<1>4. HostAt(k, r)
  BY <1>1, <1>3, Holder
<1>5. x \in Paths
  BY DEF Paths
<1>6. \A y \in Paths : obj'[y] = (IF y = x THEN "absent" ELSE obj[y])
  BY <1>2, <1>5, PathSet
<1>7. /\ obj'["receipt"] = obj["receipt"] /\ obj'["next"] = obj["next"]
      /\ \A y \in {"opt", "etc", "gates", "unit"} : obj'[y] = (IF y = x THEN "absent" ELSE obj[y])
  <2>1. x \notin {"receipt", "next"}
        /\ {"receipt", "next", "opt", "etc", "gates", "unit"} \subseteq Paths
    BY DEF Targets, Paths
  <2>. QED
    BY <1>6, <2>1
<1>8. obj["receipt"] = "ok" /\ obj["next"] = "absent" /\ saved = r
      /\ (user = NoUser \/ user.tag = r.id)
  BY <1>3, <1>4 DEF HostAt
<1>9. ~AllFiles' /\ (NoneMade => NoneMade')
  BY <1>2, <1>5, PathSet
<1>10. Remains'
  BY <1>2, <1>7, <1>8, <1>9 DEF Remains, HostInv
<1>11. HostAt(k + 1, r)'
  <2>1. CASE k = 30
    BY <1>2, <1>3, <1>7, <1>8, <2>1 DEF HostAt
  <2>2. CASE k = 31
    BY <1>2, <1>3, <1>4, <1>7, <1>8, <2>2 DEF HostAt
  <2>3. CASE k = 32
    BY <1>2, <1>3, <1>4, <1>7, <1>8, <2>3 DEF HostAt
  <2>4. CASE k = 33
    BY <1>2, <1>3, <1>4, <1>7, <1>8, <2>4 DEF HostAt
  <2>. QED
    BY <1>3, <2>1, <2>2, <2>3, <2>4
<1>12. k + 1 \notin 1..8 /\ k \in 5..20 \cup 28..40 \cup 42..45
  BY <1>3
<1>. QED
  BY <1>1, <1>3, <1>10, <1>11, <1>12, HostChange

\* daemon-reload: after the unit is in place, and after it is removed.
LEMMA HostReload ==
    ASSUME CustodyType, Placed, LockInv, ForeignInv, HostInv, NEW p \in Procs, Reload(p)
    PROVE  HostInv'
<1>1. PICK r, k : r = proc[p].r /\ k = place[p]
  OBVIOUS
<1>2. /\ obj' = obj /\ saved' = saved /\ draft' = draft /\ user' = user /\ group' = group
      /\ loaded' = (obj["unit"] # "absent")
  BY DEF Reload
<1>3. Moved(p, k + 1, r, proc[p].dir, proc[p].locked) /\ k \in {20, 34}
  BY <1>1, MoveReload DEF Stays
<1>4. HostAt(k, r) /\ ForeignAt(k, r)
  BY <1>1, <1>3, Holder DEF ForeignInv
<1>5. (NoneMade' <=> NoneMade) /\ (AllFiles' <=> AllFiles)
  BY <1>2 DEF NoneMade, AllFiles, OwnTarget
<1>6. CASE k = 20
  <2>1. /\ saved = r /\ user.tag = r.id /\ r.uid = user.uid /\ obj["receipt"] = "ok"
        /\ obj["next"] = "absent" /\ r.id # 0
    BY <1>4, <1>6 DEF HostAt, ForeignAt
  <2>2. user.tag # 0 /\ group.own /\ group.gid = user.uid /\ user.uid # 0
    BY <2>1 DEF HostInv, Remains
  <2>3. Remains'
    BY <1>2, <1>5, <2>1, <2>2 DEF Remains
  <2>4. HostAt(21, r)' /\ 21 \notin 1..8
    BY DEF HostAt
  <2>5. Moved(p, 21, r, proc[p].dir, proc[p].locked)
    BY <1>3, <1>6
  <2>6. k \in 5..20 \cup 28..40 \cup 42..45 /\ k = place[p]
    BY <1>1, <1>6
  <2>. QED
    BY <1>1, <2>3, <2>4, <2>5, <2>6, HostChange
<1>7. CASE k = 34
  <2>1. obj["unit"] = "absent" /\ obj["receipt"] = "ok"
    BY <1>4, <1>7 DEF HostAt
  <2>2. ~loaded'
    BY <1>2, <2>1
  <2>3. Remains'
    BY <1>2, <1>5, <2>1, <2>2 DEF Remains, HostInv
  <2>4. HostAt(35, r)' /\ 35 \notin 1..8
    BY <1>2, <1>4, <1>7, <2>2 DEF HostAt
  <2>5. Moved(p, 35, r, proc[p].dir, proc[p].locked)
    BY <1>3, <1>7
  <2>6. k \in 5..20 \cup 28..40 \cup 42..45 /\ k = place[p]
    BY <1>1, <1>7
  <2>. QED
    BY <1>1, <2>3, <2>4, <2>5, <2>6, HostChange
<1>. QED
  BY <1>3, <1>6, <1>7

\* Removing account or group keeps HostInv.
LEMMA HostAccount ==
    ASSUME CustodyType, Placed, LockInv, ForeignInv, HostInv, NEW p \in Procs,
           remove_user(p) \/ remove_group(p)
    PROVE  HostInv'
<1>1. PICK r : r = proc[p].r
  OBVIOUS
<1>2. obj' = obj /\ saved' = saved /\ draft' = draft /\ loaded' = loaded
  BY DEF remove_user, remove_group
<1>3. /\ NoUser.tag = 0 /\ NoGroup.own = FALSE
      /\ (NoneMade' <=> NoneMade) /\ (AllFiles' <=> AllFiles)
  BY <1>2 DEF NoneMade, AllFiles, OwnTarget, NoUser, NoGroup
<1>4. CASE remove_user(p)
  <2>1. place[p] = 45 /\ Moved(p, 37, r, proc[p].dir, proc[p].locked)
    BY <1>1, <1>4, MoveUserdel DEF Stays
  <2>2. HostAt(45, r)
    BY <1>1, <2>1, Holder
  <2>3. user' = NoUser /\ group' \in {group, NoGroup}
    BY <1>4 DEF remove_user
  <2>4. obj["receipt"] = "ok" /\ ~loaded
    BY <2>2 DEF HostAt
  <2>5. Remains'
    BY <1>2, <1>3, <2>3, <2>4 DEF Remains, HostInv
  <2>6. HostAt(37, r)' /\ 37 \notin 1..8
    BY <1>2, <2>2, <2>3 DEF HostAt
  <2>. QED
    BY <1>1, <2>1, <2>5, <2>6, HostChange
<1>5. CASE remove_group(p)
  <2>1. place[p] = 37 /\ Moved(p, 38, r, proc[p].dir, proc[p].locked)
    BY <1>1, <1>5, MoveGroupdel DEF Stays
  <2>2. HostAt(37, r)
    BY <1>1, <2>1, Holder
  <2>3. user' = user /\ group' = NoGroup
    BY <1>5 DEF remove_group
  <2>4. obj["receipt"] = "ok" /\ ~loaded /\ user = NoUser
    BY <2>2 DEF HostAt
  <2>5. Remains'
    BY <1>2, <1>3, <2>3, <2>4 DEF Remains, HostInv
  <2>6. HostAt(38, r)' /\ 38 \notin 1..8
    BY <1>2, <2>2, <2>3 DEF HostAt
  <2>7. 37 \in 5..20 \cup 28..40 \cup 42..45
    OBVIOUS
  <2>. QED
    BY <1>1, <2>1, <2>5, <2>6, <2>7, HostChange
<1>. QED
  BY <1>4, <1>5

\* An edit of the administrator keeps HostInv.
LEMMA HostAdmin ==
    ASSUME CustodyType, Placed, LockInv, HostInv, AdminEdit
    PROVE  HostInv'
<1>1. proc' = proc /\ place' = place /\ saved' = saved /\ loaded' = loaded
  BY DEF AdminEdit, place
<1>2. ASSUME NEW p \in Procs PROVE ~Holds(p)'
  <2>1. place[p] = 0
    BY ActivePlace DEF AdminEdit, Quiet
  <2>2. LockAt(0, proc[p].dir, proc[p].locked)
    BY <2>1 DEF LockInv
  <2>. QED
    BY <1>1, <2>2 DEF LockAt, Holds
<1>3. NumberUnknown'
  BY <1>1 DEF HostInv, NumberUnknown
<1>4. Remains'
  <2>1. CASE AdminFile
    <3>1. user' = user /\ group' = group
      BY <2>1 DEF AdminFile
    <3>2. PICK x \in Targets : obj' = [obj EXCEPT ![x] = "foreign"]
      BY <2>1 DEF AdminFile
    <3>3. x \in Paths /\ "foreign" \notin {"raw", "ok"}
      BY DEF Paths
    <3>4. ~AllFiles' /\ (NoneMade => NoneMade')
      BY <3>2, <3>3, PathSet
    <3>5. obj'["receipt"] = obj["receipt"] /\ obj'["next"] = obj["next"]
      BY <3>2, Values DEF CustodyType, Targets, Paths
    <3>. QED
      BY <1>1, <3>1, <3>4, <3>5 DEF Remains, Clean, HostInv
  <2>2. CASE AdminAccount
    <3>1. obj' = obj
      BY <2>2 DEF AdminAccount
    <3>2. (NoneMade' <=> NoneMade) /\ (AllFiles' <=> AllFiles)
      BY <3>1 DEF NoneMade, AllFiles, OwnTarget
    <3>3. user'.tag = user.tag /\ user'.tag # 0 => user'.uid = user.uid /\ group' = group
      <4>1. CASE user = NoUser /\ \E k \in Uids : user' \in {NoUser, [tag |-> 0, uid |-> k, clean |-> TRUE]}
        BY <4>1 DEF NoUser
      <4>2. CASE user' = [user EXCEPT !.clean = ~@] /\ group' = group
        BY <4>2 DEF CustodyType, Users
      <4>. QED
        BY <2>2, <4>1, <4>2 DEF AdminAccount
    <3>4. user'.tag = user.tag /\ (group'.own => group' = group)
      <4>1. CASE user = NoUser /\ \E k \in Uids :
                   /\ user' \in {NoUser, [tag |-> 0, uid |-> k, clean |-> TRUE]}
                   /\ group' = [gid |-> k, own |-> FALSE, clean |-> TRUE]
        BY <4>1 DEF NoUser
      <4>2. CASE user' = [user EXCEPT !.clean = ~@] /\ group' = group
        BY <4>2 DEF CustodyType, Users
      <4>. QED
        BY <2>2, <4>1, <4>2 DEF AdminAccount
    <3>. QED
      BY <1>1, <3>1, <3>2, <3>3, <3>4 DEF Remains, Clean, HostInv
  <2>. QED
    BY <2>1, <2>2 DEF AdminEdit
<1>. QED
  BY <1>2, <1>3, <1>4 DEF HostInv

\* Every step of the installer keeps HostInv.
LEMMA HostNext ==
    ASSUME CustodyType, Placed, ForeignInv, LockInv, HostInv, [InstallNext]_vars
    PROVE  HostInv'
<1>1. CASE UNCHANGED vars \/ Others
  <2>1. Kept /\ proc' = proc /\ place' = place
    BY <1>1 DEF vars, Others, host, Kept, place
  <2>2. Remains' /\ NumberUnknown'
    BY <2>1, KeptHost DEF HostInv, NumberUnknown
  <2>3. ASSUME NEW p \in Procs, Holds(p)' PROVE HostAt(place[p], proc[p].r)'
    <3>1. Holds(p)
      BY <2>1, <2>3 DEF Holds
    <3>2. PICK n, r : n \in Places /\ n = place[p] /\ r = proc[p].r /\ HostAt(n, r)
      BY <3>1 DEF HostInv, Placed
    <3>3. HostAt(n, r)'
      BY <2>1, <3>2, KeptHost
    <3>4. place'[p] = n /\ proc'[p].r = r
      BY <2>1, <3>2
    <3>. QED
      BY <3>3, <3>4 DEF HostAt
  <2>. QED
    BY <2>2, <2>3 DEF HostInv
<1>2. ASSUME NEW p \in Procs, apply(p) \/ verify(p) \/ rollback(p) PROVE HostInv'
  BY <1>2, HostBegin
<1>3. ASSUME NEW p \in Procs, HostStep(p) PROVE HostInv'
  <2>1. ASSUME NEW x \in Paths, Make(p, x) \/ Own(p, x) \/ Drop(p, x) PROVE HostInv'
    <3>1. x \in {"state", "receipt", "next"} \/ x \in Targets
      BY DEF Paths
    <3>2. CASE x = "state"
      BY <2>1, <3>2, HostState
    <3>3. CASE x = "receipt"
      BY <2>1, <3>3, HostReceipt
    <3>4. CASE x = "next"
      <4>1. ~Drop(p, "next")
        BY MoveDrop
      <4>. QED
        BY <2>1, <3>4, <4>1, HostNextFile
    <3>5. CASE x \in Targets
      BY <2>1, <3>5, HostTarget, HostDropTarget
    <3>. QED
      BY <3>1, <3>2, <3>3, <3>4, <3>5
  <2>. QED
    BY <1>3, <2>1, HostChecks, HostReplace, HostUseradd, HostReload, HostAccount DEF HostStep
<1>. QED
  BY <1>1, <1>2, <1>3, HostAdmin DEF InstallNext, Step

\* At first there is nothing on the host, and HostInv holds.
LEMMA HostInit == InstallInit => HostInv
<1>. SUFFICES ASSUME InstallInit PROVE HostInv
  OBVIOUS
<1>1. \A p \in Procs : place[p] = 0 /\ proc[p] = Idle
  BY IdlePlaced DEF InstallInit, Init, Installed
<1>2. Idle.locked = FALSE /\ Idle.r.uid = 0 /\ NoUser.tag = 0 /\ NoGroup.own = FALSE
  BY DEF Idle, NoReceipt, NoUser, NoGroup
<1>3. (\A p \in Procs : ~Holds(p)) /\ NumberUnknown
  BY <1>1, <1>2 DEF Holds, NumberUnknown
<1>4. CASE Init
  <2>1. NoneMade /\ obj["receipt"] = "absent" /\ obj["next"] = "absent"
    BY <1>4 DEF Init, NoneMade, OwnTarget, Paths
  <2>2. Remains
    BY <1>2, <1>4, <2>1 DEF Init, Remains, Clean
  <2>. QED
    BY <1>3, <2>2 DEF HostInv
<1>5. CASE Installed
  <2>1. PICK n \in Uids :
           /\ saved = [id |-> 1, uid |-> n]
           /\ user = [tag |-> 1, uid |-> n, clean |-> TRUE]
           /\ group = [gid |-> n, own |-> TRUE, clean |-> TRUE]
    BY <1>5 DEF Installed
  <2>2. n # 0
    BY CustodyAssumption
  <2>3. obj["receipt"] = "ok" /\ obj["next"] = "absent"
    BY <1>5 DEF Installed, Paths
  <2>4. Remains
    BY <2>1, <2>2, <2>3 DEF Remains
  <2>. QED
    BY <1>3, <2>4 DEF HostInv
<1>. QED
  BY <1>4, <1>5 DEF InstallInit

\* What every stop of apply and rollback leaves, and what the holder of the lock
\* relies on at each step of its script.
THEOREM HostInvariant == AtomicLock => (InstallSpec => []HostInv)
<1>. SUFFICES ASSUME AtomicLock PROVE InstallSpec => []HostInv
  OBVIOUS
<1>1. InstallInit => HostInv
  BY HostInit
<1>2. CustodyType /\ Placed /\ ForeignInv /\ LockInv /\ HostInv /\ [InstallNext]_vars => HostInv'
  BY HostNext
<1>. QED
  BY <1>1, <1>2, CustodyInvariant, LockInvariant, PTL DEF InstallSpec

\* Wherever an apply or a rollback stops, fresh refuses the next apply, or
\* nothing of the package is left; and short of the cases for review the next
\* rollback's partial checks accept what is there.
THEOREM StopsAreRecoverable == AtomicLock => (InstallSpec => []RemainsAreRecoverable)
<1>. SUFFICES ASSUME AtomicLock PROVE InstallSpec => []RemainsAreRecoverable
  OBVIOUS
<1>1. ASSUME CustodyType, LockInv, HostInv PROVE RemainsAreRecoverable
  <2>1. Remains
    BY <1>1 DEF HostInv
  <2>2. StateGuardsArtifacts
    <3>1. user.tag # 0 \/ group.own \/ (\E x \in Targets : OwnTarget(x)) => ~Clean
      BY DEF Clean, NoneMade
    <3>2. ~Clean => obj["state"] # "absent"
      BY <1>1, <2>1 DEF Remains, LockInv, ReceiptInState
    <3>. QED
      BY <3>1, <3>2 DEF StateGuardsArtifacts
  <2>3. InterruptedStaysRemovable
    <3>. SUFFICES ASSUME ~AdminTouched, busy = {}, ~NeedsReview
                  PROVE  PartialIdentity(saved) /\ PartialFiles(saved)
      BY DEF InterruptedStaysRemovable
    <3>1. group.clean = TRUE
      BY <1>1 DEF CustodyType, Groups
    <3>2. PartialIdentity(saved)
      <4>1. CASE user # NoUser
        <5>1. user.tag # 0 /\ user.clean
          BY <4>1 DEF AdminTouched
        <5>2. user.tag = saved.id /\ group.own /\ group.gid = user.uid
          BY <2>1, <5>1 DEF Remains
        <5>3. saved.uid \in {0, user.uid}
          BY <2>1, <5>2 DEF Remains
        <5>. QED
          BY <3>1, <4>1, <5>1, <5>2, <5>3 DEF PartialIdentity, Identity
      <4>2. CASE user = NoUser
        <5>1. group # NoGroup => saved.uid # 0 /\ group.own
          BY <4>2 DEF NeedsReview, AdminTouched
        <5>2. group # NoGroup => saved.uid = group.gid
          BY <2>1, <5>1 DEF Remains
        <5>. QED
          BY <3>1, <4>2, <5>2 DEF PartialIdentity
      <4>. QED
        BY <4>1, <4>2
    <3>3. PartialFiles(saved)
      <4>1. \A x \in Targets : obj[x] \in Conditions
        BY <1>1, Values DEF CustodyType, Paths
      <4>2. \A x \in Targets : obj[x] \in {"absent", "ok"}
        BY <4>1 DEF NeedsReview, AdminTouched, Conditions
      <4>3. obj["etc"] = "ok" => saved.uid # 0
        BY <2>1 DEF Remains, NoneMade, OwnTarget, Targets
      <4>. QED
        BY <4>2, <4>3 DEF PartialFiles
    <3>. QED
      BY <3>2, <3>3
  <2>. QED
    BY <2>2, <2>3 DEF RemainsAreRecoverable
<1>. QED
  BY <1>1, CustodyInvariant, LockInvariant, HostInvariant, PTL

(***************************************************************************)
(* What verify saw.                                                        *)
(***************************************************************************)
\* Between its check of the account and its answer no administrator acts; a
\* process that passed the check of the files has seen all in place, or does so
\* when the unit is loaded, or does not pass its last check.
SeenInv ==
    \A p \in Procs :
      /\ place[p] \in 23..25 => user.clean
      /\ place[p] = 24 => p \in seen \/ ~loaded
      /\ place[p] = 25 => p \in seen
      /\ answer[p] = "installed" => p \in seen

Custody == CustodyType /\ Placed /\ ForeignInv /\ LockInv /\ HostInv

\* With the unit loaded and the files there, all is in place.
LEMMA LoadedIsInPlace ==
    Custody /\ loaded /\ AllFiles /\ user.clean => InPlace
<1>. SUFFICES ASSUME Custody, loaded, AllFiles, user.clean PROVE InPlace
  OBVIOUS
<1>1. Remains /\ ReceiptInState /\ ReceiptsNamed /\ group.clean = TRUE
  BY DEF Custody, HostInv, LockInv, ForeignInv, CustodyType, Groups
<1>2. obj["receipt"] = "ok" /\ saved.uid # 0 /\ obj["next"] = "absent" /\ user.tag = saved.id
  BY <1>1 DEF Remains, Clean
<1>3. obj["state"] = "ok" /\ saved.id # 0
  BY <1>1, <1>2 DEF ReceiptInState, ReceiptsNamed
<1>4. group.own /\ group.gid = user.uid /\ saved.uid = group.gid
  BY <1>1, <1>2, <1>3 DEF Remains
<1>5. user # NoUser
  BY <1>2, <1>3 DEF NoUser
<1>. QED
  BY <1>1, <1>2, <1>3, <1>4, <1>5 DEF InPlace, ReceiptReadable

\* After a step too, a loaded unit, all files and a clean account are an
\* installation in place.
LEMMA LoadedThenInPlace ==
    (Custody /\ loaded /\ AllFiles /\ user.clean => InPlace)'
  BY LoadedIsInPlace, PTL

\* Who has seen it keeps it, until it begins anew; who is at work sees it.
LEMMA SeenKeeps ==
    ASSUME Placed, Placed', Observe, NEW p \in Procs
    PROVE  /\ p \in seen /\ (place[p] # 0 \/ place'[p] = 0) => p \in seen'
           /\ InPlace' /\ place'[p] # 0 => p \in seen'
<1>1. (place[p] # 0 => proc[p].todo # <<>>) /\ (place'[p] = 0 => proc'[p].todo = <<>>)
  <2>1. proc[p].todo = Todo(place[p]) /\ place[p] \in Places
    BY DEF Placed
  <2>2. proc'[p].todo = Todo(place'[p])
    BY DEF Placed
  <2>3. Todo(0) = <<>>
    BY DEF Todo
  <2>. QED
    BY <2>1, <2>2, <2>3, Walk
<1>2. place'[p] # 0 => proc'[p].todo # <<>>
  <2>1. proc'[p].todo = Todo(place'[p]) /\ place'[p] \in Places
    BY DEF Placed
  <2>. QED
    BY <2>1, Walk
<1>. QED
  BY <1>1, <1>2 DEF Observe, Beginning

\* A move keeps SeenInv, when past verify's checks of account and files those
\* still hold, and an answer is only given by one who has seen the
\* installation.
LEMMA SeenMove ==
    ASSUME Custody, Custody', SeenInv, Observe,
           NEW p \in Procs, NEW n, NEW r, NEW d, NEW l, Moved(p, n, r, d, l),
           user.clean => user'.clean,
           loaded' => loaded \/ AllFiles',
           n \in 23..25 => user'.clean,
           n = 24 => AllFiles',
           n = 25 => place[p] # 0 /\ p \in seen,
           \A q \in Procs \ {p} : answer'[q] = answer[q],
           answer'[p] = "installed" => p \in seen /\ (place[p] # 0 \/ n = 0)
    PROVE  SeenInv'
<1>1. CustodyType /\ Placed /\ Placed'
  BY DEF Custody
<1>2. /\ place' = [place EXCEPT ![p] = n] /\ place \in [Procs -> Places]
  BY <1>1, MovedPlaced DEF Placed
<1>3. place'[p] = n /\ \A q \in Procs \ {p} : place'[q] = place[q]
  BY <1>2
<1>4. loaded \in BOOLEAN /\ loaded' \in BOOLEAN
  BY DEF Custody, CustodyType
<1>5. ASSUME NEW q \in Procs
      PROVE  /\ place'[q] \in 23..25 => user'.clean
             /\ place'[q] = 24 => q \in seen' \/ ~loaded'
             /\ place'[q] = 25 => q \in seen'
             /\ answer'[q] = "installed" => q \in seen'
  <2>1. CASE q = p
    <3>1. n = 24 => p \in seen' \/ ~loaded'
      <4>. SUFFICES ASSUME n = 24, loaded' PROVE p \in seen'
        OBVIOUS
      <4>1. AllFiles' /\ user'.clean /\ loaded'
        OBVIOUS
      <4>2. InPlace'
        BY <1>4, <4>1, LoadedThenInPlace
      <4>. QED
        BY <1>1, <1>3, <4>2, SeenKeeps
    <3>. QED
      BY <1>1, <1>3, <2>1, <3>1, SeenKeeps
  <2>2. CASE q # p
    <3>1. place'[q] = place[q] /\ answer'[q] = answer[q]
      BY <1>3, <2>2
    <3>2. /\ place[q] \in 23..25 => user.clean
          /\ place[q] = 24 => q \in seen \/ ~loaded
          /\ place[q] = 25 => q \in seen
          /\ answer[q] = "installed" => q \in seen
      BY DEF SeenInv
    <3>3. q \in seen => q \in seen'
      BY <1>1, <3>1, SeenKeeps
    <3>4. place[q] = 24 /\ q \notin seen /\ loaded' => q \in seen'
      <4>. SUFFICES ASSUME place[q] = 24, q \notin seen, loaded' PROVE q \in seen'
        OBVIOUS
      <4>1. AllFiles' /\ user'.clean /\ loaded'
        BY <3>2
      <4>2. InPlace'
        BY <1>4, <4>1, LoadedThenInPlace
      <4>. QED
        BY <1>1, <3>1, <4>2, SeenKeeps
    <3>. QED
      BY <3>1, <3>2, <3>3, <3>4
  <2>. QED
    BY <2>1, <2>2
<1>. QED
  BY <1>5 DEF SeenInv

\* A step that leaves the account and the manager, to a place before or after
\* the checks of the files and the unit.
LEMMA SeenQuiet ==
    ASSUME Custody, Custody', SeenInv, Observe,
           NEW p \in Procs, NEW n, NEW r, NEW d, NEW l, Moved(p, n, r, d, l),
           user' = user \/ user'.clean, loaded' = loaded, answer' = answer,
           place[p] # 0, n \notin 23..25
    PROVE  SeenInv'
<1>1. answer[p] = "installed" => p \in seen
  BY DEF SeenInv
<1>2. n # 24 /\ n # 25
  OBVIOUS
<1>3. user.clean => user'.clean
  OBVIOUS
<1>. QED
  BY <1>1, <1>2, <1>3, SeenMove

\* Every step of a script keeps SeenInv.
LEMMA SeenStep ==
    ASSUME Custody, Custody', SeenInv, Observe, NEW p \in Procs, HostStep(p)
    PROVE  SeenInv'
<1>0. CustodyType /\ Placed /\ ForeignInv /\ LockInv /\ HostInv
  BY DEF Custody
<1>1. PICK r, k : r = proc[p].r /\ k = place[p]
  OBVIOUS
<1>2. CASE Abort(p)
  <2>1. Moved(p, 0, NoReceipt, 0, FALSE)
    BY <1>0, <1>2, MoveAbort
  <2>2. place[p] # 0
    BY <1>0, <1>2, MoveAbort
  <2>3. user' = user /\ loaded' = loaded /\ answer' = answer /\ 0 \notin 23..25
    BY <1>2 DEF Abort, host
  <2>. QED
    BY <2>1, <2>2, <2>3, SeenQuiet
<1>3. CASE Answer(p)
  <2>1. Moved(p, 0, NoReceipt, 0, FALSE)
    BY <1>0, <1>3, MoveAnswer
  <2>2. \A q \in Procs \ {p} : answer'[q] = answer[q]
    <3>1. PICK v : answer' = [answer EXCEPT ![p] = v]
      BY <1>3 DEF Answer
    <3>. QED
      BY <1>0, <3>1 DEF CustodyType
  <2>3. answer'[p] = "installed" => place[p] = 25
    BY <1>0, <1>3, MoveAnswer DEF CustodyType
  <2>4. answer'[p] = "installed" => p \in seen
    BY <2>3 DEF SeenInv
  <2>5. user' = user /\ loaded' = loaded /\ 0 \notin 23..25 /\ 0 # 24 /\ 0 # 25
    BY <1>3 DEF Answer, host
  <2>. QED
    BY <2>1, <2>2, <2>4, <2>5, SeenMove
<1>4. CASE CheckFiles(p)
  <2>1. k = 23 /\ Moved(p, 24, r, proc[p].dir, proc[p].locked)
    BY <1>0, <1>1, <1>4, MoveFiles DEF Stays
  <2>2. obj' = obj /\ user' = user /\ loaded' = loaded /\ answer' = answer /\ AllFiles
    BY <1>4 DEF CheckFiles, host
  <2>3. AllFiles' /\ user'.clean
    <3>1. AllFiles'
      BY <2>2 DEF AllFiles
    <3>2. place[p] \in 23..25
      BY <1>1, <2>1
    <3>. QED
      BY <2>2, <3>1, <3>2 DEF SeenInv
  <2>4. answer[p] = "installed" => p \in seen
    BY DEF SeenInv
  <2>5. place[p] # 0 /\ 24 # 25
    BY <1>1, <2>1
  <2>. QED
    BY <2>1, <2>2, <2>3, <2>4, <2>5, SeenMove
<1>5. CASE CheckUnit(p)
  <2>0. user' = user /\ loaded' = loaded /\ answer' = answer
    BY <1>5 DEF CheckUnit, host
  <2>1. CASE place[p] = 24
    <3>1. Moved(p, 25, r, proc[p].dir, proc[p].locked)
      BY <1>0, <1>1, <1>5, <2>1, MoveUnit DEF Stays
    <3>2. loaded
      BY <1>0, <1>5, <2>1, MoveUnit
    <3>3. p \in seen /\ user.clean
      BY <2>1, <3>2 DEF SeenInv
    <3>4. place[p] # 0 /\ 25 # 24
      BY <2>1
    <3>. QED
      BY <2>0, <3>1, <3>3, <3>4, SeenMove
  <2>2. CASE place[p] = 35
    <3>1. Moved(p, 36, r, proc[p].dir, proc[p].locked)
      BY <1>0, <1>1, <1>5, <2>2, MoveUnit DEF Stays
    <3>2. place[p] # 0 /\ 36 \notin 23..25
      BY <2>2
    <3>. QED
      BY <2>0, <3>1, <3>2, SeenQuiet
  <2>. QED
    BY <1>0, <1>5, <2>1, <2>2, MoveUnit
<1>6. CASE CheckIdentity(p)
  <2>1. user' = user /\ loaded' = loaded /\ answer' = answer /\ user.clean
    BY <1>6 DEF CheckIdentity, Identity, host
  <2>2. CASE k = 22 /\ Stays(p, 23)
    <3>1. Moved(p, 23, r, proc[p].dir, proc[p].locked) /\ place[p] # 0
      BY <1>1, <2>2 DEF Stays
    <3>2. answer[p] = "installed" => p \in seen
      BY DEF SeenInv
    <3>. QED
      BY <2>1, <3>1, <3>2, SeenMove
  <2>3. CASE k = 8 /\ \E t : Moved(p, 9, t, proc[p].dir, proc[p].locked)
    <3>1. PICK t : Moved(p, 9, t, proc[p].dir, proc[p].locked)
      BY <2>3
    <3>2. place[p] # 0 /\ 9 \notin 23..25
      BY <1>1, <2>3
    <3>. QED
      BY <2>1, <3>1, <3>2, SeenQuiet
  <2>. QED
    BY <1>0, <1>1, <1>6, <2>2, <2>3, MoveIdentity
<1>7. CASE Reload(p)
  <2>1. Moved(p, k + 1, r, proc[p].dir, proc[p].locked) /\ k \in {20, 34}
    BY <1>0, <1>1, <1>7, MoveReload DEF Stays
  <2>2. obj' = obj /\ user' = user /\ answer' = answer /\ loaded' = (obj["unit"] # "absent")
    BY <1>7 DEF Reload
  <2>3. HostAt(k, r)
    BY <1>0, <1>1, <2>1, Holder
  <2>4. loaded' => AllFiles'
    <3>1. CASE k = 20
      <4>1. obj["opt"] = "ok" /\ obj["etc"] = "ok" /\ obj["gates"] = "ok" /\ obj["unit"] = "ok"
        BY <2>3, <3>1 DEF HostAt
      <4>. QED
        BY <2>2, <4>1 DEF AllFiles, Targets
    <3>2. CASE k = 34
      <4>1. obj["unit"] = "absent"
        BY <2>3, <3>2 DEF HostAt
      <4>. QED
        BY <2>2, <4>1
    <3>. QED
      BY <2>1, <3>1, <3>2
  <2>5. k + 1 \notin 23..25 /\ k + 1 # 24 /\ k + 1 # 25 /\ place[p] # 0
    BY <1>1, <2>1
  <2>6. answer[p] = "installed" => p \in seen
    BY DEF SeenInv
  <2>. QED
    BY <2>1, <2>2, <2>4, <2>5, <2>6, SeenMove
<1>8. CASE create_user(p)
  <2>1. loaded' = loaded /\ answer' = answer /\ user'.clean
    BY <1>8 DEF create_user, NoUser
  <2>2. place[p] = 7
    BY <1>0, <1>8, MoveUseradd
  <2>3. CASE Stays(p, 8)
    <3>1. 8 \notin 23..25
      OBVIOUS
    <3>. QED
      BY <2>1, <2>2, <2>3, <3>1, SeenQuiet DEF Stays
  <2>4. CASE Moved(p, 0, NoReceipt, 0, FALSE)
    <3>1. 0 \notin 23..25
      OBVIOUS
    <3>2. place[p] # 0
      BY <2>2
    <3>. QED
      BY <2>1, <2>4, <3>1, <3>2, SeenQuiet
  <2>. QED
    BY <1>0, <1>8, <2>3, <2>4, MoveUseradd
<1>9. CASE ReadReceipt(p)
  <2>1. PICK n \in {22, 29} : Moved(p, n, saved, proc[p].dir, proc[p].locked) /\ place[p] # 0
    BY <1>0, <1>9, MoveRead
  <2>. QED
    BY <1>9, <2>1, SeenQuiet DEF ReadReceipt, host
<1>10. CASE RecordUser(p)
  <2>1. user' = user /\ loaded' = loaded /\ answer' = answer
    BY <1>10 DEF RecordUser, host
  <2>2. place[p] = 36
    BY <1>0, <1>10, MoveRecord
  <2>3. CASE Moved(p, 37, proc[p].r, proc[p].dir, proc[p].locked)
    <3>1. 37 \notin 23..25
      OBVIOUS
    <3>. QED
      BY <2>1, <2>2, <2>3, <3>1, SeenQuiet
  <2>4. CASE Moved(p, 42, [id |-> proc[p].r.id, uid |-> user.uid], proc[p].dir, proc[p].locked)
    <3>1. 42 \notin 23..25
      OBVIOUS
    <3>. QED
      BY <2>1, <2>2, <2>4, <3>1, SeenQuiet
  <2>. QED
    BY <1>0, <1>10, <2>3, <2>4, MoveRecord
<1>11. CASE Open(p) \/ Flock(p)
  <2>1. user' = user /\ loaded' = loaded /\ answer' = answer
    BY <1>11 DEF Open, Flock, host
  <2>2. k \in {3, 4, 26, 27}
    BY <1>0, <1>1, <1>11, MoveOpen, MoveFlock
  <2>3. k + 1 \notin 23..25 /\ place[p] # 0
    BY <1>1, <2>2
  <2>4. CASE Open(p)
    BY <1>0, <1>1, <2>1, <2>3, <2>4, MoveOpen, SeenQuiet
  <2>5. CASE Flock(p)
    BY <1>0, <1>1, <2>1, <2>3, <2>5, MoveFlock, SeenQuiet
  <2>. QED
    BY <1>11, <2>4, <2>5
<1>12. CASE CheckPartial(p) \/ ConfirmRemoval(p) \/ remove_user(p) \/ remove_group(p)
  <2>1. loaded' = loaded /\ answer' = answer /\ (user' = user \/ user'.clean)
    BY <1>12 DEF CheckPartial, ConfirmRemoval, remove_user, remove_group, host, NoUser
  <2>2. place[p] # 0 /\ \E n \in {30, 37, 38, 39} : Stays(p, n)
    BY <1>0, <1>12, MovePartial, MoveConfirm, MoveUserdel, MoveGroupdel
  <2>. QED
    BY <2>1, <2>2, SeenQuiet DEF Stays
<1>13. ASSUME NEW x \in Paths, Replace(p) \/ Make(p, x) \/ Own(p, x) \/ Drop(p, x)
       PROVE  SeenInv'
  <2>1. loaded' = loaded /\ answer' = answer /\ user' = user
    BY <1>13 DEF Replace, Make, Own, Drop
  <2>2. Stays(p, k + 1) /\ k \in 1..19 \cup 30..44
    <3>1. CASE Replace(p)
      BY <1>0, <1>1, <3>1, MoveReplace
    <3>2. CASE Make(p, x)
      BY <1>0, <1>1, <3>2, MoveMake
    <3>3. CASE Own(p, x)
      BY <1>0, <1>1, <3>3, MoveOwn
    <3>4. CASE Drop(p, x)
      BY <1>0, <1>1, <3>4, MoveDrop
    <3>. QED
      BY <1>13, <3>1, <3>2, <3>3, <3>4
  <2>3. k + 1 \notin 23..25 /\ place[p] # 0
    BY <1>1, <2>2
  <2>. QED
    BY <2>1, <2>2, <2>3, SeenQuiet DEF Stays
<1>14. "state" \in Paths
  BY DEF Paths
<1>. QED
  BY <1>2, <1>3, <1>4, <1>5, <1>6, <1>7, <1>8, <1>9, <1>10, <1>11, <1>12, <1>13, <1>14 DEF HostStep

\* The start of an operation keeps SeenInv.
LEMMA SeenBegin ==
    ASSUME Custody, Custody', SeenInv, Observe, NEW p \in Procs,
           apply(p) \/ verify(p) \/ rollback(p)
    PROVE  SeenInv'
<1>1. CustodyType /\ Placed
  BY DEF Custody
<1>2. UNCHANGED host /\ answer' = [answer EXCEPT ![p] = "none"]
  BY <1>1, MoveBegin
<1>3. answer'[p] = "none" /\ \A q \in Procs \ {p} : answer'[q] = answer[q]
  BY <1>1, <1>2 DEF CustodyType
<1>4. \E n \in {1, 21, 26} : \E t : Moved(p, n, t, 0, FALSE)
  BY <1>1, MoveBegin
<1>5. ASSUME NEW n \in {1, 21, 26}, NEW t, Moved(p, n, t, 0, FALSE) PROVE SeenInv'
  <2>1. n \notin 23..25 /\ n # 24 /\ n # 25
    OBVIOUS
  <2>2. user' = user /\ loaded' = loaded
    BY <1>2 DEF host
  <2>. QED
    BY <1>3, <1>5, <2>1, <2>2, SeenMove
<1>. QED
  BY <1>4, <1>5

\* Every step of the installer keeps SeenInv.
LEMMA SeenNext ==
    ASSUME Custody, Custody', SeenInv, [InstallNext]_vars
    PROVE  SeenInv'
<1>0. Placed /\ Placed'
  BY DEF Custody
<1>1. CASE UNCHANGED vars
  BY <1>1 DEF vars, SeenInv, place
<1>2. CASE InstallNext
  <2>1. Observe
    BY <1>2 DEF InstallNext
  <2>2. CASE AdminEdit
    <3>1. proc' = proc /\ place' = place /\ answer' = answer
      BY <2>2 DEF AdminEdit, place
    <3>2. \A p \in Procs : place[p] = 0
      BY <1>0, <2>2, ActivePlace DEF AdminEdit, Quiet
    <3>3. \A p \in Procs : p \in seen => p \in seen'
      BY <1>0, <2>1, <3>1, <3>2, SeenKeeps
    <3>. QED
      BY <3>1, <3>2, <3>3 DEF SeenInv
  <2>3. CASE Others
    <3>1. place' = place /\ answer' = answer /\ user' = user /\ loaded' = loaded
      BY <2>3 DEF Others, host, place
    <3>2. \A p \in Procs : p \in seen => p \in seen'
      BY <1>0, <2>1, <3>1, SeenKeeps
    <3>. QED
      BY <3>1, <3>2 DEF SeenInv
  <2>. QED
    BY <1>2, <2>1, <2>2, <2>3, SeenStep, SeenBegin DEF InstallNext, Step
<1>. QED
  BY <1>1, <1>2

\* At first nobody has answered, and SeenInv holds.
LEMMA SeenInit == InstallInit => SeenInv
<1>. SUFFICES ASSUME InstallInit PROVE SeenInv
  OBVIOUS
<1>1. \A p \in Procs : place[p] = 0
  BY IdlePlaced DEF InstallInit, Init, Installed
<1>2. \A p \in Procs : answer[p] = "none"
  BY DEF InstallInit, Init, Installed
<1>3. ASSUME NEW p \in Procs
      PROVE  place[p] \notin 23..25 /\ place[p] # 24 /\ place[p] # 25 /\ answer[p] # "installed"
  <2>1. place[p] = 0 /\ answer[p] = "none"
    BY <1>1, <1>2
  <2>2. place[p] \notin 23..25
    BY <2>1
  <2>3. answer[p] # "installed"
    BY <2>1
  <2>. QED
    BY <2>1, <2>2, <2>3
<1>. QED
  BY <1>3, Zenon DEF SeenInv

\* verify takes no lock: it reads receipt, account, files and unit one after the
\* other while others apply and roll back.  Still, whoever answers installed had
\* a complete installation before its eyes at one instant of its run.
THEOREM VerifiedIsTrue == AtomicLock => (InstallSpec => []VerifiedWasInstalled)
<1>. SUFFICES ASSUME AtomicLock PROVE InstallSpec => []VerifiedWasInstalled
  OBVIOUS
<1>1. InstallSpec => []Custody
  BY CustodyInvariant, LockInvariant, HostInvariant, PTL DEF Custody
<1>2. InstallInit => SeenInv
  BY SeenInit
<1>3. Custody /\ Custody' /\ SeenInv /\ [InstallNext]_vars => SeenInv'
  BY SeenNext
<1>4. SeenInv => VerifiedWasInstalled
  BY DEF SeenInv, VerifiedWasInstalled
<1>. QED
  BY <1>1, <1>2, <1>3, <1>4, PTL DEF InstallSpec

(***************************************************************************)
(* Who waits under the lock.                                               *)
(***************************************************************************)
\* While one process stands before the first step of a removal, with the lock, no
\* other changes the host but for the owner of the state directory.
LEMMA HeldStill ==
    ASSUME CustodyType, Placed, LockInv, NEW p \in Procs, place[p] = 28, obj["state"] = "ok",
           NEW q \in Procs \ {p}, HostStep(q)
    PROVE  UNCHANGED <<obj, saved, user, group, loaded>>
<1>1. Holds(p)
  <2>1. LockAt(28, proc[p].dir, proc[p].locked)
    BY DEF LockInv
  <2>2. proc[p].locked
    BY <2>1 DEF LockAt
  <2>. QED
    BY <2>2 DEF Holds
<1>2. ~Holds(q)
  BY <1>1, Exclusion
<1>3. place[q] \notin 5..20 \cup 28..40 \cup 42..45
  <2>1. PICK n \in Places : n = place[q]
    BY DEF Placed
  <2>2. LockAt(n, proc[q].dir, proc[q].locked)
    BY <2>1 DEF LockInv
  <2>3. n \in 5..20 \cup 28..45 => proc[q].locked
    BY <2>2 DEF LockAt
  <2>4. proc[q].locked => n = 41
    BY <1>2, <2>1 DEF Holds
  <2>. QED
    BY <2>1, <2>3, <2>4
<1>4. ASSUME NEW kind, NEW x, At(q, kind, x)
      PROVE  /\ kind \notin {"replace", "useradd", "reload", "userdel", "groupdel", "drop"}
             /\ kind \in {"make", "own"} => x = "state"
  <2>1. PICK n \in 1..45 : n = place[q] /\ StandsAt(n, kind, x)
    BY <1>4, AtPlace
  <2>2. n \notin 5..20 \cup 28..40 \cup 42..45
    BY <1>3, <2>1
  <2>. QED
    BY <2>1, <2>2 DEF StandsAt
<1>5. ~Replace(q) /\ ~create_user(q) /\ ~Reload(q) /\ ~remove_user(q) /\ ~remove_group(q)
  BY <1>4 DEF Replace, create_user, Reload, remove_user, remove_group
<1>6. ASSUME NEW x \in Paths PROVE ~Drop(q, x) /\ ~Make(q, x)
  <2>1. ~Drop(q, x)
    BY <1>4 DEF Drop
  <2>2. Make(q, x) => x = "state" /\ obj[x] = "absent"
    BY <1>4 DEF Make
  <2>. QED
    BY <2>1, <2>2
<1>7. ASSUME NEW x \in Paths, Own(q, x) PROVE UNCHANGED <<obj, saved, user, group, loaded>>
  <2>1. x = "state"
    BY <1>4, <1>7 DEF Own
  <2>2. obj' = [obj EXCEPT !["state"] = "ok"]
    BY <1>7, <2>1 DEF Own
  <2>3. obj = [y \in Paths |-> obj[y]]
    BY DEF CustodyType, Hosts
  <2>4. obj' = obj
    BY <2>2, <2>3
  <2>. QED
    BY <1>7, <2>1, <2>4 DEF Own
<1>8. Abort(q) \/ Open(q) \/ Flock(q) => UNCHANGED <<obj, saved, user, group, loaded>>
  BY DEF Abort, Open, Flock, host
<1>9. ReadReceipt(q) \/ CheckIdentity(q) \/ CheckFiles(q) \/ CheckPartial(q) \/ CheckUnit(q)
        => UNCHANGED <<obj, saved, user, group, loaded>>
  BY DEF ReadReceipt, CheckIdentity, CheckFiles, CheckPartial, CheckUnit, host
<1>10. RecordUser(q) \/ ConfirmRemoval(q) \/ Answer(q) => UNCHANGED <<obj, saved, user, group, loaded>>
  BY DEF RecordUser, ConfirmRemoval, Answer, host
<1>. QED
  BY <1>5, <1>6, <1>7, <1>8, <1>9, <1>10 DEF HostStep

=============================================================================
