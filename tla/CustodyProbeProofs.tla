--------------------------- MODULE CustodyProbeProofs --------------------------
(***************************************************************************)
(* review/secret_custody_h2b.py, h2c.py and h2d.py on a host with the      *)
(* installer, for any number of probes, processes and units.  To the       *)
(* installation a probe is a rollback that has taken the lock and goes no  *)
(* further: with a probe seen like that, every step of the composition is  *)
(* a step of the installer, or of the others on the host, and what         *)
(* CustodyProofs shows of the installer holds of both together.  Then what *)
(* a probe reports: PassInv says what is known of its units at every spot  *)
(* of its script, StandInv that the host it verified stands meanwhile.     *)
(***************************************************************************)
EXTENDS CustodyProbe, CustodyProofs

(***************************************************************************)
(* The scripts of the probes as places in one code.                        *)
(***************************************************************************)
ProbeSteps ==
    {"verify", "open", "flock", "try", "launch", "ready", "active", "observe", "fault", "await",
     "cleanup", "reap", "finally", "report"}
    \X {"h2a", "state", "tree", "single", "unit", "main", "launcher", "signal", "timeout", "exit",
        "success", "stop", "reset", "gone", "ok"}

\* Steps 1 to 32 are h2d (6 to 17 the parent's case, 19 to 29 the launcher's),
\* 33 to 46 are h2b.
ProbeCode ==
    << <<"verify", "h2a">>, <<"open", "state">>, <<"flock", "state">>, <<"verify", "h2a">>,
       <<"try", "h2a">>,
       <<"launch", "tree">>, <<"ready", "tree">>, <<"active", "unit">>, <<"observe", "tree">>,
       <<"active", "unit">>, <<"fault", "main">>, <<"await", "signal">>, <<"await", "exit">>,
       <<"cleanup", "stop">>, <<"cleanup", "reset">>, <<"cleanup", "gone">>, <<"reap", "launcher">>,
       <<"verify", "h2a">>,
       <<"launch", "tree">>, <<"ready", "tree">>, <<"active", "unit">>, <<"observe", "tree">>,
       <<"fault", "launcher">>, <<"active", "unit">>, <<"await", "timeout">>,
       <<"cleanup", "stop">>, <<"cleanup", "reset">>, <<"cleanup", "gone">>, <<"reap", "launcher">>,
       <<"finally", "h2a">>, <<"verify", "h2a">>, <<"report", "ok">>,
       <<"verify", "h2a">>, <<"open", "state">>, <<"flock", "state">>, <<"verify", "h2a">>,
       <<"try", "h2a">>, <<"launch", "single">>, <<"await", "success">>,
       <<"cleanup", "stop">>, <<"cleanup", "reset">>, <<"cleanup", "gone">>, <<"reap", "launcher">>,
       <<"finally", "h2a">>, <<"verify", "h2a">>, <<"report", "ok">> >>

Spots == 1..46

Leg(m, n) == SubSeq(ProbeCode, m, n)

LastSpot(n) == IF n <= 32 THEN 32 ELSE 46

\* What is left to do at a spot.
Rest(n) == Leg(n, LastSpot(n))

\* The spots of both probes are probe steps.
LEMMA ProbeCodeType == ProbeCode \in Seq(ProbeSteps) /\ Len(ProbeCode) = 46
  BY DEF ProbeCode, ProbeSteps

\* Each helper the probes' scripts are built from is a leg of their code.
LEMMA Legs ==
    /\ Verify = Leg(1, 1) /\ LockState = Leg(2, 3) /\ Verify = Leg(4, 4) /\ << <<"try", "h2a">> >> = Leg(5, 5)
    /\ << <<"launch", "tree">>, <<"ready", "tree">>, <<"active", "unit">>, <<"observe", "tree">>,
          <<"active", "unit">>, <<"fault", "main">>, <<"await", "signal">>, <<"await", "exit">> >> = Leg(6, 13)
    /\ Cleanup = Leg(14, 17) /\ Verify = Leg(18, 18)
    /\ << <<"launch", "tree">>, <<"ready", "tree">>, <<"active", "unit">>, <<"observe", "tree">>,
          <<"fault", "launcher">>, <<"active", "unit">>, <<"await", "timeout">> >> = Leg(19, 25)
    /\ Cleanup = Leg(26, 29)
    /\ << <<"finally", "h2a">> >> = Leg(30, 30) /\ Verify = Leg(31, 31) /\ << <<"report", "ok">> >> = Leg(32, 32)
    /\ Verify = Leg(33, 33) /\ LockState = Leg(34, 35) /\ Verify = Leg(36, 36) /\ << <<"try", "h2a">> >> = Leg(37, 37)
    /\ << <<"launch", "single">>, <<"await", "success">> >> = Leg(38, 39)
    /\ Cleanup = Leg(40, 43)
    /\ << <<"finally", "h2a">> >> = Leg(44, 44) /\ Verify = Leg(45, 45) /\ << <<"report", "ok">> >> = Leg(46, 46)
  BY DEF ProbeCode, Leg, Verify, LockState, Cleanup

Meeting(m, k, j, n) ==
    m \in Spots /\ k \in Spots /\ n \in Spots /\ m <= k /\ k < n /\ j = k + 1

\* Two legs that meet are one leg.
LEMMA Meet ==
    \A m, k, j, n : Meeting(m, k, j, n) => Leg(m, k) \o Leg(j, n) = Leg(m, n)
<1>. SUFFICES ASSUME NEW m, NEW k, NEW j, NEW n, Meeting(m, k, j, n)
              PROVE  Leg(m, k) \o Leg(j, n) = Leg(m, n)
  OBVIOUS
<1>1. j = k + 1 /\ m \in 1..(Len(ProbeCode) + 1) /\ k \in (m - 1)..Len(ProbeCode) /\ n \in k..Len(ProbeCode)
  BY ProbeCodeType DEF Meeting, Spots
<1>. QED
  BY <1>1, ProbeCodeType, ConcatAdjacentSubSeq DEF Leg

\* The two probes begin with what is left to do at spots 1 and 33.
LEMMA ProbeScripts ==
    ProbeScript("h2d") = Rest(1) /\ ProbeScript("h2b") = Rest(33)
<1>1. ParentCase = Leg(6, 17)
  <2>1. Meeting(6, 13, 14, 17)
    BY DEF Meeting, Spots
  <2>2. Leg(6, 13) \o Leg(14, 17) = Leg(6, 17)
    BY <2>1, Meet
  <2>. QED
    BY <2>2, Legs DEF ParentCase
<1>2. LauncherCase = Leg(19, 29)
  <2>1. Meeting(19, 25, 26, 29)
    BY DEF Meeting, Spots
  <2>2. Leg(19, 25) \o Leg(26, 29) = Leg(19, 29)
    BY <2>1, Meet
  <2>. QED
    BY <2>2, Legs DEF LauncherCase
<1>3. SandboxCase = Leg(38, 43)
  <2>1. Meeting(38, 39, 40, 43)
    BY DEF Meeting, Spots
  <2>2. Leg(38, 39) \o Leg(40, 43) = Leg(38, 43)
    BY <2>1, Meet
  <2>. QED
    BY <2>2, Legs DEF SandboxCase
<1>4. Finally = Leg(30, 32) /\ Finally = Leg(44, 46)
  <2>1. Meeting(30, 30, 31, 31) /\ Meeting(30, 31, 32, 32) /\ Meeting(44, 44, 45, 45) /\ Meeting(44, 45, 46, 46)
    BY DEF Meeting, Spots
  <2>2. Leg(30, 30) \o Leg(31, 31) = Leg(30, 31) /\ Leg(30, 31) \o Leg(32, 32) = Leg(30, 32)
    BY <2>1, Meet
  <2>3. Leg(44, 44) \o Leg(45, 45) = Leg(44, 45) /\ Leg(44, 45) \o Leg(46, 46) = Leg(44, 46)
    BY <2>1, Meet
  <2>. QED
    BY <2>2, <2>3, Legs DEF Finally
<1>5. Verify \o LockState \o Verify \o << <<"try", "h2a">> >> = Leg(1, 5)
  <2>. DEFINE t == << <<"try", "h2a">> >>
  <2>1. Meeting(1, 1, 2, 3) /\ Meeting(1, 3, 4, 4) /\ Meeting(1, 4, 5, 5)
    BY DEF Meeting, Spots
  <2>2. Leg(1, 1) \o Leg(2, 3) = Leg(1, 3) /\ Leg(1, 3) \o Leg(4, 4) = Leg(1, 4) /\ Leg(1, 4) \o Leg(5, 5) = Leg(1, 5)
    BY <2>1, Meet
  <2>3. Verify = Leg(1, 1) /\ LockState = Leg(2, 3) /\ Verify = Leg(4, 4) /\ t = Leg(5, 5)
    BY Legs
  <2>. HIDE DEF t
  <2>4. Verify \o LockState = Leg(1, 3)
    BY <2>2, <2>3
  <2>5. (Verify \o LockState) \o Verify = Leg(1, 4)
    BY <2>2, <2>3, <2>4
  <2>6. ((Verify \o LockState) \o Verify) \o t = Leg(1, 5)
    BY <2>2, <2>3, <2>5
  <2>. QED
    BY <2>6 DEF t
<1>6. Verify \o LockState \o Verify \o << <<"try", "h2a">> >> = Leg(33, 37)
  <2>. DEFINE t == << <<"try", "h2a">> >>
  <2>1. Meeting(33, 33, 34, 35) /\ Meeting(33, 35, 36, 36) /\ Meeting(33, 36, 37, 37)
    BY DEF Meeting, Spots
  <2>2. /\ Leg(33, 33) \o Leg(34, 35) = Leg(33, 35)
        /\ Leg(33, 35) \o Leg(36, 36) = Leg(33, 36)
        /\ Leg(33, 36) \o Leg(37, 37) = Leg(33, 37)
    <3>1. Leg(33, 33) \o Leg(34, 35) = Leg(33, 35)
      BY <2>1, Meet
    <3>2. Leg(33, 35) \o Leg(36, 36) = Leg(33, 36)
      BY <2>1, Meet
    <3>3. Leg(33, 36) \o Leg(37, 37) = Leg(33, 37)
      BY <2>1, Meet
    <3>. QED
      BY <3>1, <3>2, <3>3
  <2>3. Verify = Leg(33, 33) /\ LockState = Leg(34, 35) /\ Verify = Leg(36, 36) /\ t = Leg(37, 37)
    BY Legs
  <2>. HIDE DEF t
  <2>4. Verify \o LockState = Leg(33, 35)
    BY <2>2, <2>3
  <2>5. (Verify \o LockState) \o Verify = Leg(33, 36)
    BY <2>2, <2>3, <2>4
  <2>6. ((Verify \o LockState) \o Verify) \o t = Leg(33, 37)
    BY <2>2, <2>3, <2>5
  <2>. QED
    BY <2>6 DEF t
<1>7. ParentCase \o Verify \o LauncherCase = Leg(6, 29)
  <2>1. Meeting(6, 17, 18, 18) /\ Meeting(6, 18, 19, 29)
    BY DEF Meeting, Spots
  <2>2. Leg(6, 17) \o Leg(18, 18) = Leg(6, 18) /\ Leg(6, 18) \o Leg(19, 29) = Leg(6, 29)
    BY <2>1, Meet
  <2>. QED
    BY <1>1, <1>2, <2>2, Legs
<1>8. ProbeScript("h2d") = Leg(1, 32)
  <2>1. Meeting(1, 5, 6, 29) /\ Meeting(1, 29, 30, 32)
    BY DEF Meeting, Spots
  <2>2. Leg(1, 5) \o Leg(6, 29) = Leg(1, 29) /\ Leg(1, 29) \o Leg(30, 32) = Leg(1, 32)
    BY <2>1, Meet
  <2>. QED
    BY <1>4, <1>5, <1>7, <2>2 DEF ProbeScript
<1>9. ProbeScript("h2b") = Leg(33, 46)
  <2>1. Meeting(33, 37, 38, 43) /\ Meeting(33, 43, 44, 46)
    BY DEF Meeting, Spots
  <2>2. Leg(33, 37) \o Leg(38, 43) = Leg(33, 43) /\ Leg(33, 43) \o Leg(44, 46) = Leg(33, 46)
    BY <2>1, Meet
  <2>. QED
    BY <1>3, <1>4, <1>6, <2>2 DEF ProbeScript
<1>. QED
  BY <1>8, <1>9 DEF Rest, LastSpot

\* What is left to do at a spot is its step, then what is left at the next
\* spot.
LEMMA Remaining ==
    ASSUME NEW n \in Spots
    PROVE  /\ Rest(n) \in Seq(ProbeSteps) /\ Rest(n) # <<>> /\ Head(Rest(n)) = ProbeCode[n]
           /\ Len(Rest(n)) = LastSpot(n) - n + 1
           /\ \A i \in 1..(LastSpot(n) - n + 1) : Rest(n)[i] = ProbeCode[n + i - 1]
           /\ n \notin {32, 46} => Tail(Rest(n)) = Rest(n + 1) /\ n + 1 \in Spots
<1>. DEFINE l == LastSpot(n)
<1>1. n \in 1..46 /\ l \in n..46 /\ Rest(n) = Leg(n, l)
  BY DEF Spots, LastSpot, Rest
<1>2. \A i \in n..l : ProbeCode[i] \in ProbeSteps
  <2>1. \A i \in 1..46 : ProbeCode[i] \in ProbeSteps
    BY ProbeCodeType, ElementOfSeq
  <2>. QED
    BY <1>1, <2>1
<1>3. n \notin {32, 46} => Rest(n + 1) = Leg(n + 1, l) /\ n + 1 \in Spots
  BY <1>1 DEF Spots, LastSpot, Rest
<1>. HIDE DEF l
<1>4. /\ Len(Leg(n, l)) = l - n + 1 /\ Leg(n, l) \in Seq(ProbeSteps)
      /\ \A i \in 1..(l - n + 1) : Leg(n, l)[i] = ProbeCode[n + i - 1]
  BY <1>1, <1>2, SubSeqProperties DEF Leg
<1>5. Leg(n, l) # <<>>
  BY <1>1, <1>4, EmptySeq
<1>6. n \in 1..Len(ProbeCode) /\ l \in n..Len(ProbeCode)
  BY <1>1, ProbeCodeType
<1>7. Head(Leg(n, l)) = ProbeCode[n] /\ Tail(Leg(n, l)) = Leg(n + 1, l)
  BY <1>6, ProbeCodeType, HeadTailOfSubSeq DEF Leg
<1>. QED
  BY <1>1, <1>3, <1>4, <1>5, <1>7 DEF l

(***************************************************************************)
(* Where a step stands, and where an exception goes on.                    *)
(***************************************************************************)
ProbeAt(n, kind, x) ==
    /\ kind = "verify" => n \in {1, 4, 18, 31, 33, 36, 45}
    /\ kind = "open" => n \in {2, 34}
    /\ kind = "flock" => n \in {3, 35}
    /\ kind = "try" => n \in {5, 37}
    /\ kind = "launch" => (x = "tree" /\ n \in {6, 19}) \/ (x = "single" /\ n = 38)
    /\ kind = "ready" => n \in {7, 20}
    /\ kind = "active" => n \in {8, 10, 21, 24}
    /\ kind = "observe" => n \in {9, 22}
    /\ kind = "fault" => (x = "main" /\ n = 11) \/ (x = "launcher" /\ n = 23)
    /\ kind = "await" =>
         \/ x = "signal" /\ n = 12
         \/ x = "exit" /\ n = 13
         \/ x = "timeout" /\ n = 25
         \/ x = "success" /\ n = 39
    /\ kind = "cleanup" =>
         \/ x = "stop" /\ n \in {14, 26, 40}
         \/ x = "reset" /\ n \in {15, 27, 41}
         \/ x = "gone" /\ n \in {16, 28, 42}
    /\ kind = "reap" => n \in {17, 29, 43}
    /\ kind = "finally" => n \in {30, 44}
    /\ kind = "report" => n \in {32, 46}

\* The step at a spot says what kind of step is due there.
LEMMA Spotted ==
    ASSUME NEW n \in Spots, NEW kind, NEW x, ProbeCode[n] = <<kind, x>>
    PROVE  ProbeAt(n, kind, x) /\ <<kind, x>> \in ProbeSteps
<1>1. ProbeAt(n, kind, x)
  BY DEF Spots, ProbeCode, ProbeAt
<1>2. \A i \in 1..46 : ProbeCode[i] \in ProbeSteps
  BY ProbeCodeType, ElementOfSeq
<1>. QED
  BY <1>1, <1>2 DEF Spots

\* The steps that decide how a probe is seen and where it goes on.
LEMMA Landmarks ==
    /\ ProbeCode[2] = <<"open", "state">> /\ ProbeCode[34] = <<"open", "state">>
    /\ ProbeCode[3] = <<"flock", "state">> /\ ProbeCode[35] = <<"flock", "state">>
    /\ ProbeCode[5] = <<"try", "h2a">> /\ ProbeCode[37] = <<"try", "h2a">>
    /\ ProbeCode[14] = <<"cleanup", "stop">> /\ ProbeCode[26] = <<"cleanup", "stop">>
    /\ ProbeCode[40] = <<"cleanup", "stop">>
    /\ ProbeCode[17] = <<"reap", "launcher">> /\ ProbeCode[29] = <<"reap", "launcher">>
    /\ ProbeCode[43] = <<"reap", "launcher">>
    /\ ProbeCode[30] = <<"finally", "h2a">> /\ ProbeCode[44] = <<"finally", "h2a">>
    /\ ProbeCode[32] = <<"report", "ok">> /\ ProbeCode[46] = <<"report", "ok">>
  BY DEF ProbeCode

\* A step is left to do at a spot when it is the step of that spot or of a
\* later one of the script.
LEMMA ContainsRest ==
    ASSUME NEW n \in Spots, NEW step
    PROVE  Contains(Rest(n), step) <=> \E i \in n..LastSpot(n) : ProbeCode[i] = step
<1>1. LastSpot(n) \in n..46 /\ n \in Nat
  BY DEF Spots, LastSpot
<1>2. DOMAIN Rest(n) = 1..(LastSpot(n) - n + 1)
  BY <1>1, Remaining, LenProperties
<1>3. ASSUME NEW i \in DOMAIN Rest(n) PROVE n + i - 1 \in n..LastSpot(n) /\ Rest(n)[i] = ProbeCode[n + i - 1]
  BY <1>1, <1>2, Remaining
<1>4. ASSUME NEW i \in n..LastSpot(n)
      PROVE  i - n + 1 \in DOMAIN Rest(n) /\ Rest(n)[i - n + 1] = ProbeCode[i]
  <2>1. PICK j \in 1..(LastSpot(n) - n + 1) : j = i - n + 1 /\ n + j - 1 = i
    BY <1>1
  <2>. QED
    BY <1>2, <2>1, Remaining
<1>. QED
  BY <1>3, <1>4 DEF Contains

\* Which of the steps the exception handling looks for lie ahead of each
\* spot.
LEMMA Ahead ==
    ASSUME NEW n \in Spots
    PROVE  /\ Contains(Rest(n), <<"report", "ok">>)
           /\ Contains(Rest(n), <<"open", "state">>) <=> n \in {1, 2, 33, 34}
           /\ Contains(Rest(n), <<"flock", "state">>) <=> n \in {1, 2, 3, 33, 34, 35}
           /\ Contains(Rest(n), <<"try", "h2a">>) <=> n \in 1..5 \cup 33..37
           /\ Contains(Rest(n), <<"finally", "h2a">>) <=> n \in 1..30 \cup 33..44
<1>1. n \in 1..46 /\ LastSpot(n) = IF n <= 32 THEN 32 ELSE 46
  BY DEF Spots, LastSpot
<1>2. Contains(Rest(n), <<"report", "ok">>)
  <2>1. LastSpot(n) \in n..LastSpot(n) /\ LastSpot(n) \in {32, 46}
    BY <1>1
  <2>. QED
    BY <2>1, ContainsRest, Landmarks
<1>3. ASSUME NEW i \in Spots
      PROVE  /\ ProbeCode[i] = <<"open", "state">> <=> i \in {2, 34}
             /\ ProbeCode[i] = <<"flock", "state">> <=> i \in {3, 35}
             /\ ProbeCode[i] = <<"try", "h2a">> <=> i \in {5, 37}
             /\ ProbeCode[i] = <<"finally", "h2a">> <=> i \in {30, 44}
  <2>1. ProbeCode[i] = <<"open", "state">> => i \in {2, 34}
    BY Spotted DEF ProbeAt
  <2>2. ProbeCode[i] = <<"flock", "state">> => i \in {3, 35}
    BY Spotted DEF ProbeAt
  <2>3. ProbeCode[i] = <<"try", "h2a">> => i \in {5, 37}
    BY Spotted DEF ProbeAt
  <2>4. ProbeCode[i] = <<"finally", "h2a">> => i \in {30, 44}
    BY Spotted DEF ProbeAt
  <2>. QED
    BY <2>1, <2>2, <2>3, <2>4, Landmarks
<1>4. ASSUME NEW step, NEW a \in 1..32, NEW b \in 33..46,
             \A i \in Spots : ProbeCode[i] = step <=> i \in {a, b}
      PROVE  Contains(Rest(n), step) <=> n \in 1..a \cup 33..b
  <2>1. Contains(Rest(n), step) <=> \E i \in n..LastSpot(n) : i \in {a, b}
    <3>1. \A i \in n..LastSpot(n) : i \in Spots
      BY <1>1 DEF Spots
    <3>. QED
      BY <1>4, <3>1, ContainsRest
  <2>2. CASE n <= 32
    <3>1. (\E i \in n..LastSpot(n) : i \in {a, b}) <=> n <= a
      BY <1>1, <2>2
    <3>2. n \in 1..a \cup 33..b <=> n <= a
      BY <1>1, <2>2
    <3>. QED
      BY <2>1, <3>1, <3>2
  <2>3. CASE n > 32
    <3>1. (\E i \in n..LastSpot(n) : i \in {a, b}) <=> n <= b
      BY <1>1, <2>3
    <3>2. n \in 1..a \cup 33..b <=> n <= b
      BY <1>1, <2>3
    <3>. QED
      BY <2>1, <3>1, <3>2
  <2>. QED
    BY <1>1, <2>2, <2>3
<1>5. Contains(Rest(n), <<"open", "state">>) <=> n \in 1..2 \cup 33..34
  <2>1. \A i \in Spots : ProbeCode[i] = <<"open", "state">> <=> i \in {2, 34}
    BY <1>3
  <2>2. 2 \in 1..32 /\ 34 \in 33..46
    OBVIOUS
  <2>. QED
    BY <1>4, <2>1, <2>2
<1>6. Contains(Rest(n), <<"flock", "state">>) <=> n \in 1..3 \cup 33..35
  <2>1. \A i \in Spots : ProbeCode[i] = <<"flock", "state">> <=> i \in {3, 35}
    BY <1>3
  <2>2. 3 \in 1..32 /\ 35 \in 33..46
    OBVIOUS
  <2>. QED
    BY <1>4, <2>1, <2>2
<1>7. Contains(Rest(n), <<"try", "h2a">>) <=> n \in 1..5 \cup 33..37
  <2>1. \A i \in Spots : ProbeCode[i] = <<"try", "h2a">> <=> i \in {5, 37}
    BY <1>3
  <2>2. 5 \in 1..32 /\ 37 \in 33..46
    OBVIOUS
  <2>. QED
    BY <1>4, <2>1, <2>2
<1>8. Contains(Rest(n), <<"finally", "h2a">>) <=> n \in 1..30 \cup 33..44
  <2>1. \A i \in Spots : ProbeCode[i] = <<"finally", "h2a">> <=> i \in {30, 44}
    BY <1>3
  <2>2. 30 \in 1..32 /\ 44 \in 33..46
    OBVIOUS
  <2>. QED
    BY <1>4, <2>1, <2>2
<1>. QED
  BY <1>1, <1>2, <1>5, <1>6, <1>7, <1>8

\* Going on from a step leads to the next spot of that step.
LEMMA FromRest ==
    ASSUME NEW n \in Spots, NEW step, NEW k \in n..LastSpot(n), ProbeCode[k] = step,
           \A i \in n..(k - 1) : ProbeCode[i] # step
    PROVE  From(Rest(n), step) = Rest(k)
<1>. DEFINE at == {i \in DOMAIN Rest(n) : Rest(n)[i] = step}
            a == k - n + 1
<1>1. n \in 1..46 /\ LastSpot(n) \in n..46 /\ k \in Spots /\ LastSpot(k) = LastSpot(n)
  BY DEF Spots, LastSpot
<1>2. DOMAIN Rest(n) = 1..(LastSpot(n) - n + 1) /\ Len(Rest(n)) = LastSpot(n) - n + 1
  BY <1>1, Remaining, LenProperties
<1>3. a \in 1..(LastSpot(n) - n + 1) /\ n + a - 1 = k
  BY <1>1
<1>4. a \in at
  BY <1>2, <1>3, Remaining
<1>5. ASSUME NEW i \in at PROVE i \in Nat /\ a <= i
  <2>1. i \in 1..(LastSpot(n) - n + 1) /\ ProbeCode[n + i - 1] = step
    BY <1>2, Remaining
  <2>2. n + i - 1 \notin n..(k - 1)
    BY <2>1
  <2>. QED
    BY <1>1, <2>1, <2>2
<1>. DEFINE c == CHOOSE i \in at : \A j \in at : i <= j
<1>6. c \in at /\ \A j \in at : c <= j
  BY <1>4, <1>5
<1>7. c = a
  <2>1. c <= a /\ a <= c /\ c \in Nat /\ a \in Nat
    BY <1>3, <1>4, <1>5, <1>6
  <2>. QED
    BY <2>1
<1>8. From(Rest(n), step) = SubSeq(Rest(n), c, Len(Rest(n)))
  BY <1>4 DEF From
<1>9. SubSeq(Rest(n), a, LastSpot(n) - n + 1) = Rest(k)
  <2>1. PICK l \in Nat : l = LastSpot(n)
    BY <1>1
  <2>2. PICK b \in Nat : b = l - n + 1 /\ a \in 1..b
    BY <1>1, <1>3, <2>1
  <2>3. PICK d \in Nat : d = a /\ d \in 1..b /\ n + d - 1 = k /\ b - d + 1 = l - k + 1
    BY <1>1, <1>3, <2>1, <2>2
  <2>. DEFINE s == SubSeq(Rest(n), d, b)
  <2>4. /\ Rest(n) \in Seq(ProbeSteps) /\ Len(Rest(n)) = b
        /\ \A i \in 1..b : Rest(n)[i] = ProbeCode[n + i - 1]
    BY <1>1, <2>1, <2>2, Remaining
  <2>5. /\ Rest(k) \in Seq(ProbeSteps) /\ Len(Rest(k)) = b - d + 1
        /\ \A i \in 1..(b - d + 1) : Rest(k)[i] = ProbeCode[k + i - 1]
    BY <1>1, <2>1, <2>3, Remaining
  <2>6. d \in 1..(Len(Rest(n)) + 1) /\ b \in (d - 1)..Len(Rest(n))
    BY <2>3, <2>4
  <2>7. \A i \in d..b : Rest(n)[i] \in ProbeSteps
    BY <2>3, <2>4, ElementOfSeq
  <2>8. /\ s \in Seq(ProbeSteps) /\ Len(s) = b - d + 1
        /\ \A i \in 1..(b - d + 1) : s[i] = Rest(n)[d + i - 1]
    BY <2>6, <2>7, <2>3, SubSeqProperties
  <2>. HIDE DEF s
  <2>9. ASSUME NEW i \in 1..(b - d + 1) PROVE s[i] = Rest(k)[i]
    <3>1. PICK j \in 1..b : j = d + i - 1
      BY <2>3
    <3>2. n + j - 1 = k + i - 1
      BY <1>1, <2>3, <3>1
    <3>3. s[i] = Rest(n)[j] /\ Rest(n)[j] = ProbeCode[n + j - 1] /\ Rest(k)[i] = ProbeCode[k + i - 1]
      BY <2>4, <2>5, <2>8, <3>1
    <3>. QED
      BY <3>2, <3>3
  <2>10. s = Rest(k)
    BY <2>5, <2>8, <2>9, SeqEqual
  <2>. QED
    BY <2>1, <2>2, <2>3, <2>10 DEF s
<1>. QED
  BY <1>2, <1>7, <1>8, <1>9

\* Where Stop, raised before spot n, goes on; 0 is the end of the process.
CaughtAt(n) ==
    IF n \in 6..13 THEN 14 ELSE IF n \in 14..16 THEN 17
    ELSE IF n \in 19..25 THEN 26 ELSE IF n \in 26..28 THEN 29
    ELSE IF n \in 38..39 THEN 40 ELSE IF n \in 40..42 THEN 43
    ELSE IF n \in {17, 18, 29, 30} THEN 30 ELSE IF n \in {43, 44} THEN 44
    ELSE 0

\* Where cleanup and the wait for the launcher are, seen from inside the try
\* they belong to.
LEMMA FromAt ==
    ASSUME NEW n \in Spots
    PROVE  /\ n \in 6..13 => From(Rest(n), <<"cleanup", "stop">>) = Rest(14)
           /\ n \in 19..25 => From(Rest(n), <<"cleanup", "stop">>) = Rest(26)
           /\ n \in 38..39 => From(Rest(n), <<"cleanup", "stop">>) = Rest(40)
           /\ n \in 14..16 => From(Rest(n), <<"reap", "launcher">>) = Rest(17)
           /\ n \in 26..28 => From(Rest(n), <<"reap", "launcher">>) = Rest(29)
           /\ n \in 40..42 => From(Rest(n), <<"reap", "launcher">>) = Rest(43)
           /\ n \in {17, 18, 29, 30} => From(Rest(n), <<"finally", "h2a">>) = Rest(30)
           /\ n \in {43, 44} => From(Rest(n), <<"finally", "h2a">>) = Rest(44)
           /\ n \in {31, 32, 45, 46} => From(Rest(n), <<"finally", "h2a">>) = <<>>
<1>1. n \in 1..46 /\ LastSpot(n) = IF n <= 32 THEN 32 ELSE 46
  BY DEF Spots, LastSpot
<1>2. ASSUME NEW i \in Spots
      PROVE  /\ ProbeCode[i] = <<"cleanup", "stop">> => i \in {14, 26, 40}
             /\ ProbeCode[i] = <<"reap", "launcher">> => i \in {17, 29, 43}
             /\ ProbeCode[i] = <<"finally", "h2a">> => i \in {30, 44}
  BY Spotted DEF ProbeAt
<1>3. ASSUME NEW step, NEW k \in Spots, k \in n..LastSpot(n), ProbeCode[k] = step,
             NEW K, \A i \in Spots : ProbeCode[i] = step => i \in K,
             \A i \in K : i \notin n..(k - 1)
      PROVE  From(Rest(n), step) = Rest(k)
  <2>1. \A i \in n..(k - 1) : i \in Spots
    BY <1>1, <1>3 DEF Spots
  <2>2. \A i \in n..(k - 1) : ProbeCode[i] # step
    BY <1>3, <2>1
  <2>. QED
    BY <1>3, <2>2, FromRest
<1>4. ASSUME NEW k \in {14, 26, 40}, n \in (k - 8)..(k - 1), k = 26 => n > 18, k = 40 => n > 37
      PROVE  From(Rest(n), <<"cleanup", "stop">>) = Rest(k)
  <2>1. k \in Spots /\ k \in n..LastSpot(n)
    BY <1>1, <1>4 DEF Spots
  <2>2. \A i \in {14, 26, 40} : i \notin n..(k - 1)
    BY <1>1, <1>4
  <2>3. ProbeCode[k] = <<"cleanup", "stop">>
    BY Landmarks
  <2>4. \A i \in Spots : ProbeCode[i] = <<"cleanup", "stop">> => i \in {14, 26, 40}
    BY <1>2
  <2>. QED
    BY <1>3, <2>1, <2>2, <2>3, <2>4
<1>5. ASSUME NEW k \in {17, 29, 43}, n \in (k - 3)..(k - 1)
      PROVE  From(Rest(n), <<"reap", "launcher">>) = Rest(k)
  <2>1. k \in Spots /\ k \in n..LastSpot(n)
    BY <1>1, <1>5 DEF Spots
  <2>2. \A i \in {17, 29, 43} : i \notin n..(k - 1)
    BY <1>1, <1>5
  <2>3. ProbeCode[k] = <<"reap", "launcher">>
    BY Landmarks
  <2>4. \A i \in Spots : ProbeCode[i] = <<"reap", "launcher">> => i \in {17, 29, 43}
    BY <1>2
  <2>. QED
    BY <1>3, <2>1, <2>2, <2>3, <2>4
<1>6. ASSUME NEW k \in {30, 44}, n <= k, k = 44 => n > 32
      PROVE  From(Rest(n), <<"finally", "h2a">>) = Rest(k)
  <2>1. k \in Spots /\ k \in n..LastSpot(n)
    BY <1>1, <1>6 DEF Spots
  <2>2. \A i \in {30, 44} : i \notin n..(k - 1)
    BY <1>1, <1>6
  <2>3. ProbeCode[k] = <<"finally", "h2a">>
    BY Landmarks
  <2>4. \A i \in Spots : ProbeCode[i] = <<"finally", "h2a">> => i \in {30, 44}
    BY <1>2
  <2>. QED
    BY <1>3, <2>1, <2>2, <2>3, <2>4
<1>7. n \in {31, 32, 45, 46} => From(Rest(n), <<"finally", "h2a">>) = <<>>
  <2>1. n \in {31, 32, 45, 46} => ~Contains(Rest(n), <<"finally", "h2a">>)
    BY Ahead
  <2>. QED
    BY <2>1 DEF From, Contains
<1>8. n \in 6..13 => n \in (14 - 8)..(14 - 1)
  BY <1>1
<1>9. n \in 19..25 => n \in (26 - 8)..(26 - 1) /\ n > 18
  BY <1>1
<1>10. n \in 38..39 => n \in (40 - 8)..(40 - 1) /\ n > 37
  BY <1>1
<1>11. n \in 14..16 => n \in (17 - 3)..(17 - 1)
  BY <1>1
<1>12. n \in 26..28 => n \in (29 - 3)..(29 - 1)
  BY <1>1
<1>13. n \in 40..42 => n \in (43 - 3)..(43 - 1)
  BY <1>1
<1>14. (n \in {17, 18, 29, 30} => n <= 30) /\ (n \in {43, 44} => n <= 44 /\ n > 32)
  BY <1>1
<1>15. /\ n \in 6..13 => From(Rest(n), <<"cleanup", "stop">>) = Rest(14)
       /\ n \in 19..25 => From(Rest(n), <<"cleanup", "stop">>) = Rest(26)
       /\ n \in 38..39 => From(Rest(n), <<"cleanup", "stop">>) = Rest(40)
  BY <1>4, <1>8, <1>9, <1>10
<1>16. /\ n \in 14..16 => From(Rest(n), <<"reap", "launcher">>) = Rest(17)
       /\ n \in 26..28 => From(Rest(n), <<"reap", "launcher">>) = Rest(29)
       /\ n \in 40..42 => From(Rest(n), <<"reap", "launcher">>) = Rest(43)
  BY <1>5, <1>11, <1>12, <1>13
<1>17. /\ n \in {17, 18, 29, 30} => From(Rest(n), <<"finally", "h2a">>) = Rest(30)
       /\ n \in {43, 44} => From(Rest(n), <<"finally", "h2a">>) = Rest(44)
  BY <1>6, <1>14
<1>. QED
  BY <1>7, <1>15, <1>16, <1>17

\* Where an exception raised at a spot is caught, if it is.
LEMMA Caught ==
    ASSUME NEW n \in Spots
    PROVE  /\ Handler(Rest(n)) = IF CaughtAt(n) = 0 THEN <<>> ELSE Rest(CaughtAt(n))
           /\ CaughtAt(n) # 0 => CaughtAt(n) \in Spots /\ CaughtAt(n) \in {14, 17, 26, 29, 30, 40, 43, 44}
<1>1. n \in 1..46
  BY DEF Spots
<1>2. CASE n \in 1..5 \cup 33..37
  <2>1. Handler(Rest(n)) = <<>>
    <3>1. Contains(Rest(n), <<"try", "h2a">>)
      BY <1>2, Ahead
    <3>2. Head(Rest(n))[1] \in {"verify", "open", "flock", "try"}
      <4>1. ProbeCode[n][1] \in {"verify", "open", "flock", "try"}
        BY <1>2 DEF ProbeCode
      <4>. QED
        BY <4>1, Remaining
    <3>. QED
      BY <3>1, <3>2 DEF Handler
  <2>2. CaughtAt(n) = 0
    BY <1>2 DEF CaughtAt
  <2>. QED
    BY <2>1, <2>2
<1>3. CASE n \in 6..13 \cup 19..25 \cup 38..39
  <2>1. Head(Rest(n))[1] \in {"launch", "ready", "active", "observe", "fault", "await"}
    <3>1. ProbeCode[n][1] \in {"launch", "ready", "active", "observe", "fault", "await"}
      BY <1>3 DEF ProbeCode
    <3>. QED
      BY <3>1, Remaining
  <2>2. ~Contains(Rest(n), <<"try", "h2a">>)
    BY <1>3, Ahead
  <2>3. Handler(Rest(n)) = From(Rest(n), <<"cleanup", "stop">>)
    BY <2>1, <2>2 DEF Handler
  <2>4. /\ n \in 6..13 => CaughtAt(n) = 14
        /\ n \in 19..25 => CaughtAt(n) = 26
        /\ n \in 38..39 => CaughtAt(n) = 40
    BY DEF CaughtAt
  <2>5. \A k \in {14, 17, 26, 29, 30, 40, 43, 44} : k # 0 /\ k \in Spots
    BY DEF Spots
  <2>. QED
    BY <1>3, <2>3, <2>4, <2>5, FromAt
<1>4. CASE n \in 14..16 \cup 26..28 \cup 40..42
  <2>1. Head(Rest(n))[1] = "cleanup"
    <3>1. ProbeCode[n][1] = "cleanup"
      BY <1>4 DEF ProbeCode
    <3>. QED
      BY <3>1, Remaining
  <2>2. ~Contains(Rest(n), <<"try", "h2a">>)
    BY <1>4, Ahead
  <2>3. Handler(Rest(n)) = From(Rest(n), <<"reap", "launcher">>)
    BY <2>1, <2>2 DEF Handler
  <2>4. /\ n \in 14..16 => CaughtAt(n) = 17
        /\ n \in 26..28 => CaughtAt(n) = 29
        /\ n \in 40..42 => CaughtAt(n) = 43
    BY DEF CaughtAt
  <2>5. \A k \in {14, 17, 26, 29, 30, 40, 43, 44} : k # 0 /\ k \in Spots
    BY DEF Spots
  <2>. QED
    BY <1>4, <2>3, <2>4, <2>5, FromAt
<1>5. CASE n \in {17, 18, 29, 30, 31, 32, 43, 44, 45, 46}
  <2>1. Head(Rest(n))[1] \in {"reap", "verify", "finally", "report"}
    <3>1. ProbeCode[n][1] \in {"reap", "verify", "finally", "report"}
      BY <1>5 DEF ProbeCode
    <3>. QED
      BY <3>1, Remaining
  <2>2. ~Contains(Rest(n), <<"try", "h2a">>)
    BY <1>5, Ahead
  <2>3. Handler(Rest(n)) = From(Rest(n), <<"finally", "h2a">>)
    BY <2>1, <2>2 DEF Handler
  <2>4. /\ n \in {17, 18, 29, 30} => CaughtAt(n) = 30
        /\ n \in {43, 44} => CaughtAt(n) = 44
        /\ n \in {31, 32, 45, 46} => CaughtAt(n) = 0
    BY DEF CaughtAt
  <2>5. \A k \in {14, 17, 26, 29, 30, 40, 43, 44} : k # 0 /\ k \in Spots
    BY DEF Spots
  <2>. QED
    BY <1>5, <2>3, <2>4, <2>5, FromAt
<1>. QED
  BY <1>1, <1>2, <1>3, <1>4, <1>5

(***************************************************************************)
(* A probe as the installation sees it: a rollback that has not opened the *)
(* state directory, has opened it, or has locked it and does nothing.      *)
(***************************************************************************)
Bar(c) ==
    IF ~Contains(c.todo, <<"report", "ok">>) THEN c
    ELSE [c EXCEPT !.todo = IF Contains(@, <<"open", "state">>) THEN RollbackScript
                            ELSE IF Contains(@, <<"flock", "state">>) THEN Tail(RollbackScript)
                            ELSE Tail(Tail(RollbackScript))]

procBar == [p \in Procs |-> Bar(proc[p])]

answerBar == [p \in Procs |-> IF answer[p] \in {"probed", "stop"} THEN "none" ELSE answer[p]]

B == INSTANCE CustodyProofs WITH proc <- procBar, answer <- answerBar

SeenAs(n) == IF n \in {1, 2, 33, 34} THEN 26 ELSE IF n \in {3, 35} THEN 27 ELSE 28

IsProc(c) == c = [todo |-> c.todo, r |-> c.r, dir |-> c.dir, locked |-> c.locked]

\* A process whose todo and perhaps one register are set.
LEMMA ProcTodo ==
    ASSUME NEW c, IsProc(c), NEW v
    PROVE  /\ [c EXCEPT !.todo = v] = [todo |-> v, r |-> c.r, dir |-> c.dir, locked |-> c.locked]
           /\ IsProc([c EXCEPT !.todo = v]) /\ [c EXCEPT !.todo = v].todo = v
<1>1. PICK t, r, d, l : c = [todo |-> t, r |-> r, dir |-> d, locked |-> l]
  BY DEF IsProc
<1>2. c.todo = t /\ c.r = r /\ c.dir = d /\ c.locked = l
  BY <1>1
<1>3. [c EXCEPT !.todo = v] = [todo |-> v, r |-> r, dir |-> d, locked |-> l]
  BY <1>1
<1>. QED
  BY <1>2, <1>3 DEF IsProc

\* A process with remaining work and receipt replaced.
LEMMA ProcReceipt ==
    ASSUME NEW c, IsProc(c), NEW v, NEW w
    PROVE  /\ [c EXCEPT !.todo = v, !.r = w] = [todo |-> v, r |-> w, dir |-> c.dir, locked |-> c.locked]
           /\ IsProc([c EXCEPT !.todo = v, !.r = w]) /\ [c EXCEPT !.todo = v, !.r = w].todo = v
<1>1. PICK t, r, d, l : c = [todo |-> t, r |-> r, dir |-> d, locked |-> l]
  BY DEF IsProc
<1>2. c.todo = t /\ c.r = r /\ c.dir = d /\ c.locked = l
  BY <1>1
<1>3. [c EXCEPT !.todo = v, !.r = w] = [todo |-> v, r |-> w, dir |-> d, locked |-> l]
  <2>1. [c EXCEPT !.todo = v] = [todo |-> v, r |-> r, dir |-> d, locked |-> l]
    BY <1>1
  <2>2. [c EXCEPT !.todo = v, !.r = w] = [[c EXCEPT !.todo = v] EXCEPT !.r = w]
    OBVIOUS
  <2>3. [[todo |-> v, r |-> r, dir |-> d, locked |-> l] EXCEPT !.r = w] = [todo |-> v, r |-> w, dir |-> d, locked |-> l]
    OBVIOUS
  <2>. QED
    BY <2>1, <2>2, <2>3
<1>. QED
  BY <1>2, <1>3 DEF IsProc

\* A process with remaining work and directory handle replaced.
LEMMA ProcDir ==
    ASSUME NEW c, IsProc(c), NEW v, NEW w
    PROVE  /\ [c EXCEPT !.todo = v, !.dir = w] = [todo |-> v, r |-> c.r, dir |-> w, locked |-> c.locked]
           /\ IsProc([c EXCEPT !.todo = v, !.dir = w]) /\ [c EXCEPT !.todo = v, !.dir = w].todo = v
<1>1. PICK t, r, d, l : c = [todo |-> t, r |-> r, dir |-> d, locked |-> l]
  BY DEF IsProc
<1>2. c.todo = t /\ c.r = r /\ c.dir = d /\ c.locked = l
  BY <1>1
<1>3. [c EXCEPT !.todo = v, !.dir = w] = [todo |-> v, r |-> r, dir |-> w, locked |-> l]
  <2>1. [c EXCEPT !.todo = v] = [todo |-> v, r |-> r, dir |-> d, locked |-> l]
    BY <1>1
  <2>2. [c EXCEPT !.todo = v, !.dir = w] = [[c EXCEPT !.todo = v] EXCEPT !.dir = w]
    OBVIOUS
  <2>3. [[todo |-> v, r |-> r, dir |-> d, locked |-> l] EXCEPT !.dir = w] = [todo |-> v, r |-> r, dir |-> w, locked |-> l]
    OBVIOUS
  <2>. QED
    BY <2>1, <2>2, <2>3
<1>. QED
  BY <1>2, <1>3 DEF IsProc

\* A process with remaining work and lock replaced.
LEMMA ProcLocked ==
    ASSUME NEW c, IsProc(c), NEW v, NEW w
    PROVE  /\ [c EXCEPT !.todo = v, !.locked = w] = [todo |-> v, r |-> c.r, dir |-> c.dir, locked |-> w]
           /\ IsProc([c EXCEPT !.todo = v, !.locked = w]) /\ [c EXCEPT !.todo = v, !.locked = w].todo = v
<1>1. PICK t, r, d, l : c = [todo |-> t, r |-> r, dir |-> d, locked |-> l]
  BY DEF IsProc
<1>2. c.todo = t /\ c.r = r /\ c.dir = d /\ c.locked = l
  BY <1>1
<1>3. [c EXCEPT !.todo = v, !.locked = w] = [todo |-> v, r |-> r, dir |-> d, locked |-> w]
  <2>1. [c EXCEPT !.todo = v] = [todo |-> v, r |-> r, dir |-> d, locked |-> l]
    BY <1>1
  <2>2. [c EXCEPT !.todo = v, !.locked = w] = [[c EXCEPT !.todo = v] EXCEPT !.locked = w]
    OBVIOUS
  <2>3. [[todo |-> v, r |-> r, dir |-> d, locked |-> l] EXCEPT !.locked = w] = [todo |-> v, r |-> r, dir |-> d, locked |-> w]
    OBVIOUS
  <2>. QED
    BY <2>1, <2>2, <2>3
<1>. QED
  BY <1>2, <1>3 DEF IsProc

\* A process of the installer is seen as itself.
LEMMA HostBar ==
    ASSUME NEW c, c.todo \in Seq(HostSteps)
    PROVE  ~Contains(c.todo, <<"report", "ok">>) /\ Bar(c) = c
<1>1. <<"report", "ok">> \notin HostSteps
  BY DEF HostSteps
<1>2. \A i \in DOMAIN c.todo : c.todo[i] \in HostSteps
  BY ElementOfSeq, LenProperties
<1>3. ~Contains(c.todo, <<"report", "ok">>)
  BY <1>1, <1>2 DEF Contains
<1>. QED
  BY <1>3 DEF Bar

\* A probe is seen as a rollback that opens the state directory, takes the
\* lock, or waits under it.
LEMMA ProbeBar ==
    ASSUME NEW n \in Spots, NEW c, c.todo = Rest(n), IsProc(c)
    PROVE  /\ Bar(c) = [todo |-> Todo(SeenAs(n)), r |-> c.r, dir |-> c.dir, locked |-> c.locked]
           /\ SeenAs(n) \in {26, 27, 28}
<1>1. Contains(c.todo, <<"report", "ok">>)
  BY Ahead
<1>2. /\ Contains(c.todo, <<"open", "state">>) <=> n \in {1, 2, 33, 34}
      /\ Contains(c.todo, <<"flock", "state">>) <=> n \in {1, 2, 3, 33, 34, 35}
  BY Ahead
<1>3. RollbackScript = Todo(26) /\ Tail(Todo(26)) = Todo(27) /\ Tail(Todo(27)) = Todo(28)
  <2>1. 26 \in Places /\ 27 \in Places /\ After(26) = 27 /\ After(27) = 28
    BY DEF Places, After
  <2>2. Tail(Todo(26)) = Todo(27)
    BY <2>1, Walk
  <2>3. Tail(Todo(27)) = Todo(28)
    BY <2>1, Walk
  <2>. QED
    BY <2>2, <2>3, Scripts
<1>. DEFINE t == IF Contains(c.todo, <<"open", "state">>) THEN RollbackScript
                 ELSE IF Contains(c.todo, <<"flock", "state">>) THEN Tail(RollbackScript)
                 ELSE Tail(Tail(RollbackScript))
<1>4. t = Todo(SeenAs(n))
  BY <1>2, <1>3 DEF SeenAs
<1>5. Bar(c) = [c EXCEPT !.todo = t]
  BY <1>1 DEF Bar
<1>. HIDE DEF t
<1>6. [c EXCEPT !.todo = t] = [todo |-> t, r |-> c.r, dir |-> c.dir, locked |-> c.locked]
  BY DEF IsProc
<1>. QED
  BY <1>4, <1>5, <1>6 DEF SeenAs

(***************************************************************************)
(* Where the processes are.                                                *)
(***************************************************************************)
InScript(p) ==
    \/ proc[p].todo \in Seq(HostSteps)
    \/ answer[p] = "none" /\ \E n \in Spots : proc[p].todo = Rest(n)

ProbePlaced ==
    /\ proc = [p \in Procs |-> proc[p]] /\ answer = [p \in Procs |-> answer[p]]
    /\ \A p \in Procs : IsProc(proc[p]) /\ InScript(p)

\* A process is a probe when what it has to do is no script of the installer,
\* and then it has no answer.
LEMMA Unlike ==
    ASSUME NEW p \in Procs, ProbePlaced
    PROVE  /\ Probing(p) <=> proc[p].todo \notin Seq(HostSteps)
           /\ Probing(p) => answer[p] = "none" /\ \E n \in Spots : proc[p].todo = Rest(n)
<1>1. proc[p].todo \in Seq(HostSteps) => ~Probing(p)
  BY HostBar DEF Probing
<1>2. \A n \in Spots : proc[p].todo = Rest(n) => Probing(p)
  BY Ahead DEF Probing
<1>. QED
  BY <1>1, <1>2 DEF ProbePlaced, InScript

\* One process moves; so it does for the installation.
LEMMA Turn ==
    ASSUME ProbePlaced, NEW p \in Procs, NEW c, proc' = [proc EXCEPT ![p] = c]
    PROVE  /\ procBar' = [procBar EXCEPT ![p] = Bar(c)]
           /\ proc' = [q \in Procs |-> proc'[q]] /\ proc'[p] = c
           /\ \A q \in Procs \ {p} : proc'[q] = proc[q]
<1>1. /\ proc' = [q \in Procs |-> proc'[q]] /\ proc'[p] = c
      /\ \A q \in Procs \ {p} : proc'[q] = proc[q]
  <2>1. PICK f : f = proc /\ f = [q \in Procs |-> f[q]]
    BY DEF ProbePlaced
  <2>2. DOMAIN f = Procs
    BY <2>1
  <2>3. DOMAIN proc' = Procs /\ \A q \in Procs : proc'[q] = IF q = p THEN c ELSE f[q]
    BY <2>1, <2>2
  <2>4. proc' = [q \in Procs |-> IF q = p THEN c ELSE f[q]]
    BY <2>1
  <2>. QED
    BY <2>1, <2>3, <2>4
<1>2. [procBar EXCEPT ![p] = Bar(c)] = [q \in Procs |-> IF q = p THEN Bar(c) ELSE procBar[q]]
  BY DEF procBar
<1>3. procBar' = [q \in Procs |-> Bar(proc'[q])]
  BY DEF procBar
<1>4. \A q \in Procs : Bar(proc'[q]) = IF q = p THEN Bar(c) ELSE procBar[q]
  BY <1>1 DEF procBar
<1>. QED
  BY <1>1, <1>2, <1>3, <1>4

\* A turn of one process keeps ProbePlaced, when it ends in a script of the
\* installer or at a spot without an answer.
LEMMA TurnPlaced ==
    ASSUME ProbePlaced, NEW p \in Procs, NEW c, proc' = [proc EXCEPT ![p] = c], IsProc(c),
           answer' = [answer EXCEPT ![p] = answer'[p]],
           c.todo \in Seq(HostSteps) \/ (answer'[p] = "none" /\ \E n \in Spots : c.todo = Rest(n))
    PROVE  ProbePlaced'
<1>1. /\ proc' = [q \in Procs |-> proc'[q]] /\ proc'[p] = c
      /\ \A q \in Procs \ {p} : proc'[q] = proc[q]
  BY Turn
<1>2. answer' = [q \in Procs |-> answer'[q]] /\ \A q \in Procs \ {p} : answer'[q] = answer[q]
  BY DEF ProbePlaced
<1>3. ASSUME NEW q \in Procs PROVE IsProc(proc'[q]) /\ InScript(q)'
  <2>1. CASE q = p
    BY <1>1, <2>1 DEF InScript
  <2>2. CASE q # p
    BY <1>1, <1>2, <2>2 DEF InScript, ProbePlaced
  <2>. QED
    BY <2>1, <2>2
<1>. QED
  BY <1>1, <1>2, <1>3 DEF ProbePlaced, IsProc

\* A turn that ends in a script of the installer is seen as it is.
LEMMA HostTurn ==
    ASSUME ProbePlaced, NEW p \in Procs, NEW c, proc' = [proc EXCEPT ![p] = c], IsProc(c),
           c.todo \in Seq(HostSteps), answer' = [answer EXCEPT ![p] = answer'[p]]
    PROVE  ProbePlaced' /\ procBar' = [procBar EXCEPT ![p] = c]
  BY Turn, TurnPlaced, HostBar

\* A process in a script of the installer is seen as it is.
LEMMA HostSame ==
    ASSUME NEW p \in Procs, proc[p].todo \in Seq(HostSteps)
    PROVE  procBar[p] = proc[p]
  BY HostBar DEF procBar

(***************************************************************************)
(* What the installation sees of a process.                                *)
(***************************************************************************)
LEMMA BarActive ==
    ASSUME ProbePlaced, NEW p \in Procs
    PROVE  /\ B!Active(p) <=> Active(p)
           /\ B!At(p, "flock", "state") <=> At(p, "flock", "state")
           /\ procBar[p].locked = proc[p].locked /\ procBar[p].dir = proc[p].dir
           /\ procBar[p].r = proc[p].r
           /\ procBar[p].todo = <<>> <=> proc[p].todo = <<>>
<1>1. CASE proc[p].todo \in Seq(HostSteps)
  BY <1>1, HostSame DEF B!Active, Active, B!At, At
<1>2. CASE proc[p].todo \notin Seq(HostSteps)
  <2>1. PICK n \in Spots : proc[p].todo = Rest(n)
    BY <1>2 DEF ProbePlaced, InScript
  <2>2. /\ procBar[p] = [todo |-> Todo(SeenAs(n)), r |-> proc[p].r, dir |-> proc[p].dir,
                        locked |-> proc[p].locked]
        /\ SeenAs(n) \in {26, 27, 28}
    BY <2>1, ProbeBar DEF procBar, ProbePlaced
  <2>3. Todo(SeenAs(n)) # <<>> /\ Head(Todo(SeenAs(n))) = Code[SeenAs(n)]
    <3>1. SeenAs(n) \in Places /\ SeenAs(n) # 0
      BY <2>2 DEF Places
    <3>. QED
      BY <3>1, Walk
  <2>4. Rest(n) # <<>> /\ Head(Rest(n)) = ProbeCode[n]
    BY Remaining
  <2>5. /\ Code[26] = <<"open", "state">> /\ Code[27] = <<"flock", "state">>
        /\ Code[28] = <<"receipt", "any">>
    BY DEF Code
  <2>6. Code[SeenAs(n)] = <<"flock", "state">> <=> n \in {3, 35}
    <3>1. <<"open", "state">> # <<"flock", "state">> /\ <<"receipt", "any">> # <<"flock", "state">>
      OBVIOUS
    <3>2. SeenAs(n) = 27 <=> n \in {3, 35}
      BY DEF SeenAs
    <3>. QED
      BY <2>2, <2>5, <3>1, <3>2
  <2>7. ProbeCode[n] = <<"flock", "state">> <=> n \in {3, 35}
    <3>1. ProbeCode[n] = <<"flock", "state">> => n \in {3, 35}
      BY Spotted DEF ProbeAt
    <3>2. n \in {3, 35} => ProbeCode[n] = <<"flock", "state">>
      BY Landmarks
    <3>. QED
      BY <3>1, <3>2
  <2>. QED
    BY <2>1, <2>2, <2>3, <2>4, <2>6, <2>7 DEF B!Active, Active, B!At, At
<1>. QED
  BY <1>1, <1>2

\* A step nothing comes into is seen as one nothing comes into.
LEMMA BarUndisturbed ==
    ASSUME ProbePlaced, NEW p \in Procs, Undisturbed(p)
    PROVE  B!Undisturbed(p)
  BY BarActive DEF B!Undisturbed, Undisturbed

\* A process of the installer is seen as it is.
Plain(p) == p \in Procs /\ proc[p].todo \in Seq(HostSteps)

\* A process of the installer is seen at the step it is at.
LEMMA BarAt ==
    ASSUME NEW p, Plain(p), NEW kind, NEW x
    PROVE  B!At(p, kind, x) <=> At(p, kind, x)
  BY HostSame DEF Plain, B!Active, Active, B!At, At

\* A process of the installer that goes on is seen to go on.
LEMMA BarAdvance ==
    ASSUME ProbePlaced, NEW p, Plain(p), Active(p), Advance(p), UNCHANGED answer
    PROVE  B!Advance(p) /\ ProbePlaced'
<1>. DEFINE c == [proc[p] EXCEPT !.todo = Tail(proc[p].todo)]
<1>1. proc' = [proc EXCEPT ![p] = c]
  BY DEF Advance
<1>2. IsProc(c) /\ c.todo = Tail(proc[p].todo)
  BY ProcTodo DEF ProbePlaced, Plain
<1>3. Tail(proc[p].todo) \in Seq(HostSteps)
  BY HeadTailProperties DEF Plain, Active
<1>4. answer' = [answer EXCEPT ![p] = answer'[p]]
  BY DEF ProbePlaced
<1>. HIDE DEF c
<1>5. ProbePlaced' /\ procBar' = [procBar EXCEPT ![p] = c]
  BY <1>1, <1>2, <1>3, <1>4, HostTurn DEF Plain
<1>6. c = [procBar[p] EXCEPT !.todo = Tail(procBar[p].todo)]
  BY HostSame DEF Plain, c
<1>. QED
  BY <1>5, <1>6 DEF B!Advance

\* A process of the installer that goes on with another receipt is seen to do
\* so.
LEMMA BarAdvanceWith ==
    ASSUME ProbePlaced, NEW p, Plain(p), Active(p), NEW r, AdvanceWith(p, r), UNCHANGED answer
    PROVE  B!AdvanceWith(p, r) /\ ProbePlaced'
<1>. DEFINE c == [proc[p] EXCEPT !.todo = Tail(proc[p].todo), !.r = r]
<1>1. proc' = [proc EXCEPT ![p] = c]
  BY DEF AdvanceWith
<1>2. IsProc(c) /\ c.todo = Tail(proc[p].todo)
  <2>1. IsProc(proc[p])
    BY DEF ProbePlaced, Plain
  <2>2. PICK v : v = Tail(proc[p].todo)
    OBVIOUS
  <2>. DEFINE k == [proc[p] EXCEPT !.todo = v, !.r = r]
  <2>3. IsProc(k) /\ k.todo = v
    BY <2>1, ProcReceipt
  <2>4. k = c
    BY <2>2
  <2>. HIDE DEF k, c
  <2>. QED
    BY <2>2, <2>3, <2>4
<1>3. Tail(proc[p].todo) \in Seq(HostSteps)
  BY HeadTailProperties DEF Plain, Active
<1>4. answer' = [answer EXCEPT ![p] = answer'[p]]
  BY DEF ProbePlaced
<1>. HIDE DEF c
<1>5. ProbePlaced' /\ procBar' = [procBar EXCEPT ![p] = c]
  BY <1>1, <1>2, <1>3, <1>4, HostTurn DEF Plain
<1>6. c = [procBar[p] EXCEPT !.todo = Tail(procBar[p].todo), !.r = r]
  BY HostSame DEF Plain, c
<1>. QED
  BY <1>5, <1>6 DEF B!AdvanceWith

\* An idle process is one of the installer, seen as idle.
LEMMA IdleHost == IsProc(Idle) /\ Idle.todo \in Seq(HostSteps) /\ Bar(Idle) = Idle
<1>1. IsProc(Idle) /\ Idle.todo = <<>>
  BY DEF Idle, IsProc
<1>2. Idle.todo \in Seq(HostSteps)
  BY <1>1, EmptySeq
<1>. QED
  BY <1>1, <1>2, HostBar

\* Whoever leaves, leaves for the installation too.
LEMMA BarIdle ==
    ASSUME ProbePlaced, NEW p \in Procs, proc' = [proc EXCEPT ![p] = Idle],
           answer' = [answer EXCEPT ![p] = answer'[p]]
    PROVE  procBar' = [procBar EXCEPT ![p] = B!Idle] /\ ProbePlaced'
<1>1. B!Idle = Idle
  BY DEF B!Idle, Idle, B!NoReceipt, NoReceipt
<1>. QED
  BY <1>1, IdleHost, HostTurn

\* The answers are seen as they were when none is given.
LEMMA BarAnswerSame ==
    ASSUME UNCHANGED answer PROVE UNCHANGED answerBar
  BY DEF answerBar

(***************************************************************************)
(* A step of the installer is one with the probes seen as rollbacks.       *)
(***************************************************************************)
LEMMA SameHost ==
    /\ B!Fresh <=> Fresh
    /\ B!ReceiptReadable <=> ReceiptReadable
    /\ B!AllFiles <=> AllFiles
    /\ \A r : B!Identity(r) <=> Identity(r)
    /\ \A r : B!PartialIdentity(r) <=> PartialIdentity(r)
    /\ \A r : B!PartialFiles(r) <=> PartialFiles(r)
    /\ B!InPlace <=> InPlace
    /\ \A x : B!Parent(x) = Parent(x)
    /\ B!Paths = Paths /\ B!Targets = Targets
    /\ B!NoUser = NoUser /\ B!NoGroup = NoGroup /\ B!NoReceipt = NoReceipt
<1>1. /\ B!Paths = Paths /\ B!Targets = Targets
      /\ B!NoUser = NoUser /\ B!NoGroup = NoGroup /\ B!NoReceipt = NoReceipt
  BY DEF B!Paths, Paths, B!Targets, Targets, B!NoUser, NoUser, B!NoGroup, NoGroup, B!NoReceipt, NoReceipt
<1>2. B!ReceiptReadable <=> ReceiptReadable
  BY DEF B!ReceiptReadable, ReceiptReadable
<1>3. B!Fresh <=> Fresh
  BY <1>1 DEF B!Fresh, Fresh
<1>4. B!AllFiles <=> AllFiles
  BY <1>1 DEF B!AllFiles, AllFiles
<1>5. \A r : B!Identity(r) <=> Identity(r)
  BY <1>1 DEF B!Identity, Identity
<1>6. \A r : B!PartialIdentity(r) <=> PartialIdentity(r)
  BY <1>1, <1>5 DEF B!PartialIdentity, PartialIdentity
<1>7. \A r : B!PartialFiles(r) <=> PartialFiles(r)
  BY <1>1 DEF B!PartialFiles, PartialFiles
<1>8. B!InPlace <=> InPlace
  BY <1>1, <1>2, <1>4 DEF B!InPlace, InPlace
<1>9. \A x : B!Parent(x) = Parent(x)
  BY DEF B!Parent, Parent
<1>. QED
  BY <1>1, <1>2, <1>3, <1>4, <1>5, <1>6, <1>7, <1>8, <1>9

\* A step that only looks, of a process of the installer, is seen as that
\* step.
LEMMA PlainReads ==
    ASSUME ProbePlaced, NEW p, Plain(p),
           \/ ReadReceipt(p) \/ CheckIdentity(p) \/ CheckFiles(p) \/ CheckPartial(p) \/ CheckUnit(p)
           \/ ConfirmRemoval(p)
    PROVE  B!HostStep(p) /\ ProbePlaced'
<1>1. procBar[p] = proc[p]
  BY HostSame DEF Plain
<1>2. UNCHANGED <<host, answer, ops, edits>> => UNCHANGED <<B!host, answerBar, ops, edits>>
  BY BarAnswerSame DEF host, B!host
<1>3. UNCHANGED <<host, answer, ops, edits>> => UNCHANGED answer
  OBVIOUS
<1>4. CASE ReadReceipt(p)
  <2>1. Active(p) /\ AdvanceWith(p, saved) /\ UNCHANGED <<host, answer, ops, edits>>
    BY <1>4 DEF ReadReceipt, At
  <2>2. B!AdvanceWith(p, saved) /\ ProbePlaced'
    BY <2>1, BarAdvanceWith
  <2>3. B!ReadReceipt(p)
    BY <1>2, <1>4, <2>1, <2>2, SameHost, BarAt DEF B!ReadReceipt, ReadReceipt
  <2>. QED
    BY <2>2, <2>3 DEF B!HostStep
<1>5. CASE CheckIdentity(p)
  <2>1. Active(p) /\ UNCHANGED <<host, answer, ops, edits>>
    BY <1>5 DEF CheckIdentity, At
  <2>2. \/ At(p, "identity", "full") /\ Advance(p)
        \/ At(p, "identity", "adopt") /\ AdvanceWith(p, [proc[p].r EXCEPT !.uid = user.uid])
    BY <1>5 DEF CheckIdentity
  <2>3. Identity(proc[p].r)
    BY <1>5 DEF CheckIdentity
  <2>4. /\ ProbePlaced'
        /\ \/ B!At(p, "identity", "full") /\ B!Advance(p)
           \/ B!At(p, "identity", "adopt") /\ B!AdvanceWith(p, [procBar[p].r EXCEPT !.uid = user.uid])
    <3>1. CASE At(p, "identity", "full") /\ Advance(p)
      BY <1>3, <2>1, <3>1, BarAt, BarAdvance
    <3>2. CASE At(p, "identity", "adopt") /\ AdvanceWith(p, [proc[p].r EXCEPT !.uid = user.uid])
      <4>. DEFINE r == [proc[p].r EXCEPT !.uid = user.uid]
      <4>1. r = [procBar[p].r EXCEPT !.uid = user.uid]
        BY <1>1
      <4>2. AdvanceWith(p, r)
        BY <3>2
      <4>. HIDE DEF r
      <4>3. B!AdvanceWith(p, r) /\ ProbePlaced'
        BY <1>3, <2>1, <4>2, BarAdvanceWith
      <4>4. B!At(p, "identity", "adopt")
        BY <3>2, BarAt
      <4>. QED
        BY <4>1, <4>3, <4>4
    <3>. QED
      BY <2>2, <3>1, <3>2
  <2>5. B!CheckIdentity(p)
    BY <1>1, <1>2, <2>1, <2>3, <2>4, SameHost DEF B!CheckIdentity
  <2>. QED
    BY <2>4, <2>5 DEF B!HostStep
<1>6. CASE CheckFiles(p)
  <2>1. Active(p) /\ Advance(p) /\ UNCHANGED <<host, answer, ops, edits>>
    BY <1>6 DEF CheckFiles, At
  <2>2. B!Advance(p) /\ ProbePlaced'
    BY <2>1, BarAdvance
  <2>3. B!CheckFiles(p)
    BY <1>2, <1>6, <2>1, <2>2, SameHost, BarAt DEF B!CheckFiles, CheckFiles
  <2>. QED
    BY <2>2, <2>3 DEF B!HostStep
<1>7. CASE CheckPartial(p)
  <2>1. Active(p) /\ Advance(p) /\ UNCHANGED <<host, answer, ops, edits>>
    BY <1>7 DEF CheckPartial, At
  <2>2. B!Advance(p) /\ ProbePlaced'
    BY <2>1, BarAdvance
  <2>3. B!CheckPartial(p)
    BY <1>1, <1>2, <1>7, <2>1, <2>2, SameHost, BarAt DEF B!CheckPartial, CheckPartial
  <2>. QED
    BY <2>2, <2>3 DEF B!HostStep
<1>8. CASE CheckUnit(p)
  <2>1. Active(p) /\ Advance(p) /\ UNCHANGED <<host, answer, ops, edits>>
    BY <1>8 DEF CheckUnit, At
  <2>2. B!Advance(p) /\ ProbePlaced'
    BY <2>1, BarAdvance
  <2>3. B!CheckUnit(p)
    BY <1>2, <1>8, <2>1, <2>2, BarAt DEF B!CheckUnit, CheckUnit
  <2>. QED
    BY <2>2, <2>3 DEF B!HostStep
<1>9. CASE ConfirmRemoval(p)
  <2>1. Active(p) /\ Advance(p) /\ UNCHANGED <<host, answer, ops, edits>>
    BY <1>9 DEF ConfirmRemoval, At
  <2>2. B!Advance(p) /\ ProbePlaced'
    BY <2>1, BarAdvance
  <2>3. B!ConfirmRemoval(p)
    BY <1>2, <1>9, <2>1, <2>2, SameHost, BarAt DEF B!ConfirmRemoval, ConfirmRemoval
  <2>. QED
    BY <2>2, <2>3 DEF B!HostStep
<1>. QED
  BY <1>4, <1>5, <1>6, <1>7, <1>8, <1>9

\* A step that changes files, unit or account, of a process of the installer,
\* is seen as that step.
LEMMA PlainWrites ==
    ASSUME ProbePlaced, NEW p, Plain(p),
           \/ Replace(p) \/ Reload(p) \/ remove_user(p) \/ remove_group(p)
           \/ \E x \in Paths : Make(p, x) \/ Own(p, x) \/ Drop(p, x)
    PROVE  B!HostStep(p) /\ ProbePlaced'
<1>1. procBar[p] = proc[p]
  BY HostSame DEF Plain
<1>2. CASE Replace(p)
  <2>1. Active(p) /\ Advance(p) /\ UNCHANGED answer
    BY <1>2 DEF Replace, At
  <2>2. B!Advance(p) /\ ProbePlaced'
    BY <2>1, BarAdvance
  <2>3. B!Replace(p)
    BY <1>2, <2>1, <2>2, BarAt, BarAnswerSame, SameHost DEF B!Replace, Replace
  <2>. QED
    BY <2>2, <2>3 DEF B!HostStep
<1>3. CASE Reload(p)
  <2>1. Active(p) /\ Advance(p) /\ UNCHANGED answer
    BY <1>3 DEF Reload, At
  <2>2. B!Advance(p) /\ ProbePlaced'
    BY <2>1, BarAdvance
  <2>3. B!Reload(p)
    BY <1>3, <2>1, <2>2, BarAt, BarAnswerSame, SameHost DEF B!Reload, Reload
  <2>. QED
    BY <2>2, <2>3 DEF B!HostStep
<1>4. CASE remove_user(p)
  <2>1. Active(p) /\ Advance(p) /\ UNCHANGED answer
    BY <1>4 DEF remove_user, At
  <2>2. B!Advance(p) /\ ProbePlaced'
    BY <2>1, BarAdvance
  <2>3. B!remove_user(p)
    BY <1>1, <1>4, <2>1, <2>2, BarAt, BarAnswerSame, SameHost DEF B!remove_user, remove_user
  <2>. QED
    BY <2>2, <2>3 DEF B!HostStep
<1>5. CASE remove_group(p)
  <2>1. Active(p) /\ Advance(p) /\ UNCHANGED answer
    BY <1>5 DEF remove_group, At
  <2>2. B!Advance(p) /\ ProbePlaced'
    BY <2>1, BarAdvance
  <2>3. B!remove_group(p)
    BY <1>1, <1>5, <2>1, <2>2, BarAt, BarAnswerSame, SameHost DEF B!remove_group, remove_group
  <2>. QED
    BY <2>2, <2>3 DEF B!HostStep
<1>6. ASSUME NEW x \in Paths, Make(p, x) PROVE B!HostStep(p) /\ ProbePlaced'
  <2>1. Active(p) /\ Advance(p) /\ UNCHANGED answer
    BY <1>6 DEF Make, At
  <2>2. B!Advance(p) /\ ProbePlaced'
    BY <2>1, BarAdvance
  <2>3. B!Make(p, x)
    BY <1>6, <2>1, <2>2, BarAt, BarAnswerSame, SameHost DEF B!Make, Make
  <2>. QED
    BY <2>2, <2>3, SameHost DEF B!HostStep
<1>7. ASSUME NEW x \in Paths, Own(p, x) PROVE B!HostStep(p) /\ ProbePlaced'
  <2>1. Active(p) /\ Advance(p) /\ UNCHANGED answer
    BY <1>7 DEF Own, At
  <2>2. B!Advance(p) /\ ProbePlaced'
    BY <2>1, BarAdvance
  <2>3. B!Own(p, x)
    BY <1>1, <1>7, <2>1, <2>2, BarAt, BarAnswerSame DEF B!Own, Own
  <2>. QED
    BY <2>2, <2>3, SameHost DEF B!HostStep
<1>8. ASSUME NEW x \in Paths, Drop(p, x) PROVE B!HostStep(p) /\ ProbePlaced'
  <2>1. Active(p) /\ Advance(p) /\ UNCHANGED answer
    BY <1>8 DEF Drop, At
  <2>2. B!Advance(p) /\ ProbePlaced'
    BY <2>1, BarAdvance
  <2>3. B!Drop(p, x)
    BY <1>8, <2>1, <2>2, BarAt, BarAnswerSame, SameHost DEF B!Drop, Drop
  <2>. QED
    BY <2>2, <2>3, SameHost DEF B!HostStep
<1>. QED
  BY <1>2, <1>3, <1>4, <1>5, <1>6, <1>7, <1>8

\* The creation of the account, and the turn of rollback there, are seen as
\* those steps.
LEMMA PlainAccount ==
    ASSUME ProbePlaced, NEW p, Plain(p), create_user(p) \/ RecordUser(p)
    PROVE  B!HostStep(p) /\ ProbePlaced'
<1>1. procBar[p] = proc[p] /\ p \in Procs
  BY HostSame DEF Plain
<1>2. CASE create_user(p)
  <2>1. Active(p) /\ At(p, "useradd", "user") /\ UNCHANGED answer
    BY <1>2 DEF create_user, At
  <2>2. PICK n \in Uids :
          /\ group' = [gid |-> n, own |-> TRUE, clean |-> TRUE]
          /\ \/ user' = [tag |-> proc[p].r.id, uid |-> n, clean |-> TRUE] /\ Advance(p)
             \/ user' = NoUser /\ proc' = [proc EXCEPT ![p] = Idle]
    BY <1>2 DEF create_user
  <2>3. user = NoUser /\ group = NoGroup /\ UNCHANGED <<obj, dirs, saved, draft, loaded, answer, ops, edits>>
    BY <1>2 DEF create_user
  <2>4. answer' = [answer EXCEPT ![p] = answer'[p]]
    BY <2>1 DEF ProbePlaced
  <2>5. /\ ProbePlaced'
        /\ \/ user' = [tag |-> procBar[p].r.id, uid |-> n, clean |-> TRUE] /\ B!Advance(p)
           \/ user' = B!NoUser /\ procBar' = [procBar EXCEPT ![p] = B!Idle]
    <3>1. CASE user' = [tag |-> proc[p].r.id, uid |-> n, clean |-> TRUE] /\ Advance(p)
      BY <1>1, <2>1, <3>1, BarAdvance
    <3>2. CASE user' = NoUser /\ proc' = [proc EXCEPT ![p] = Idle]
      BY <1>1, <2>4, <3>2, BarIdle, SameHost
    <3>. QED
      BY <2>2, <3>1, <3>2
  <2>6. B!create_user(p)
    BY <2>1, <2>2, <2>3, <2>5, BarAt, BarAnswerSame, SameHost DEF B!create_user
  <2>. QED
    BY <2>5, <2>6 DEF B!HostStep
<1>3. CASE RecordUser(p)
  <2>1. Active(p) /\ At(p, "record", "user") /\ UNCHANGED <<host, answer, ops, edits>>
    BY <1>3 DEF RecordUser, At
  <2>2. UNCHANGED <<B!host, answerBar, ops, edits>>
    BY <2>1, BarAnswerSame DEF host, B!host
  <2>3. CASE user = NoUser
    <3>1. Advance(p)
      BY <1>3, <2>3 DEF RecordUser
    <3>2. B!Advance(p) /\ ProbePlaced'
      BY <2>1, <3>1, BarAdvance
    <3>3. B!RecordUser(p)
      BY <2>1, <2>2, <2>3, <3>2, BarAt, SameHost DEF B!RecordUser
    <3>. QED
      BY <3>2, <3>3 DEF B!HostStep
  <2>4. CASE user # NoUser
    <3>. DEFINE t == UserdelScript \o Tail(proc[p].todo)
                w == [proc[p].r EXCEPT !.uid = user.uid]
                c == [proc[p] EXCEPT !.todo = t, !.r = w]
    <3>1. proc' = [proc EXCEPT ![p] = [proc[p] EXCEPT !.todo = t, !.r.uid = user.uid]]
      BY <1>3, <2>4 DEF RecordUser
    <3>2. [proc[p] EXCEPT !.todo = t, !.r.uid = user.uid] = c
      OBVIOUS
    <3>3. t \in Seq(HostSteps)
      <4>1. UserdelScript \in Seq(HostSteps)
        <5>1. UserdelScript = Part(42, 45)
          BY Pieces, Joints DEF UserdelScript, SaveReceipt
        <5>2. 42 \in 1..50 /\ 45 \in 42..50
          OBVIOUS
        <5>. QED
          BY <5>1, <5>2, Cut
      <4>2. Tail(proc[p].todo) \in Seq(HostSteps)
        BY <2>1, HeadTailProperties DEF Plain, Active
      <4>. QED
        BY <4>1, <4>2, ConcatProperties
    <3>4. answer' = [answer EXCEPT ![p] = answer'[p]]
      BY <2>1 DEF ProbePlaced
    <3>5. c = [procBar[p] EXCEPT !.todo = B!UserdelScript \o Tail(procBar[p].todo), !.r.uid = user.uid]
      <4>1. B!UserdelScript = UserdelScript
        BY DEF B!UserdelScript, UserdelScript, B!SaveReceipt, SaveReceipt, B!MakeOwn, MakeOwn
      <4>. QED
        BY <1>1, <3>2, <4>1
    <3>. HIDE DEF t, w
    <3>6. IsProc(proc[p])
      BY <1>1 DEF ProbePlaced
    <3>7. IsProc(c) /\ c.todo = t
      BY <3>6, ProcReceipt
    <3>. HIDE DEF c
    <3>8. proc' = [proc EXCEPT ![p] = c]
      BY <3>1, <3>2
    <3>9. ProbePlaced' /\ procBar' = [procBar EXCEPT ![p] = c]
      BY <1>1, <3>3, <3>4, <3>7, <3>8, HostTurn
    <3>10. B!RecordUser(p)
      BY <2>1, <2>2, <2>4, <3>5, <3>9, BarAt, SameHost DEF B!RecordUser
    <3>. QED
      BY <3>9, <3>10 DEF B!HostStep
  <2>. QED
    BY <2>3, <2>4
<1>. QED
  BY <1>2, <1>3

\* Both leave the scripts: an exception or a kill, and the last line.
LEMMA PlainEnds ==
    ASSUME ProbePlaced, NEW p, Plain(p), Abort(p) \/ Answer(p)
    PROVE  B!HostStep(p) /\ ProbePlaced'
<1>1. procBar[p] = proc[p] /\ p \in Procs
  BY HostSame DEF Plain
<1>2. CASE Abort(p)
  <2>1. Active(p) /\ proc' = [proc EXCEPT ![p] = Idle] /\ UNCHANGED <<host, answer, ops, edits>>
    BY <1>2 DEF Abort
  <2>2. answer' = [answer EXCEPT ![p] = answer'[p]]
    BY <2>1 DEF ProbePlaced
  <2>3. procBar' = [procBar EXCEPT ![p] = B!Idle] /\ ProbePlaced'
    BY <1>1, <2>1, <2>2, BarIdle
  <2>4. B!Active(p)
    BY <1>1, <2>1, BarActive
  <2>5. B!Abort(p)
    BY <2>1, <2>3, <2>4, BarAnswerSame DEF B!Abort, host, B!host
  <2>. QED
    BY <2>3, <2>5 DEF B!HostStep
<1>3. CASE Answer(p)
  <2>1. PICK line \in {"installed", "rolled_back"} :
          At(p, "answer", line) /\ answer' = [answer EXCEPT ![p] = line]
    BY <1>3 DEF Answer
  <2>2. proc' = [proc EXCEPT ![p] = Idle] /\ UNCHANGED <<host, ops, edits>>
    BY <1>3 DEF Answer
  <2>3. answer' = [answer EXCEPT ![p] = answer'[p]] /\ DOMAIN answer = Procs
    <3>1. DOMAIN answer = Procs
      BY DEF ProbePlaced
    <3>. QED
      BY <1>1, <2>1, <3>1
  <2>4. procBar' = [procBar EXCEPT ![p] = B!Idle] /\ ProbePlaced'
    BY <1>1, <2>2, <2>3, BarIdle
  <2>5. answerBar' = [answerBar EXCEPT ![p] = line]
    <3>1. \A q \in Procs : answer'[q] = IF q = p THEN line ELSE answer[q]
      BY <1>1, <2>1, <2>3
    <3>2. line \notin {"probed", "stop"}
      BY <2>1
    <3>3. [answerBar EXCEPT ![p] = line] = [q \in Procs |-> IF q = p THEN line ELSE answerBar[q]]
      BY DEF answerBar
    <3>4. answerBar' = [q \in Procs |-> IF answer'[q] \in {"probed", "stop"} THEN "none" ELSE answer'[q]]
      BY DEF answerBar
    <3>. QED
      BY <3>1, <3>2, <3>3, <3>4 DEF answerBar
  <2>6. B!At(p, "answer", line)
    BY <2>1, BarAt
  <2>7. B!Answer(p)
    BY <2>1, <2>2, <2>4, <2>5, <2>6 DEF B!Answer, host, B!host
  <2>. QED
    BY <2>4, <2>7 DEF B!HostStep
<1>. QED
  BY <1>2, <1>3

\* Open and flock of a process of the installer are seen as those steps.
LEMMA PlainLocks ==
    ASSUME ProbePlaced, NEW p, Plain(p), Open(p) \/ Flock(p)
    PROVE  B!HostStep(p) /\ ProbePlaced'
<1>1. procBar[p] = proc[p] /\ p \in Procs
  BY HostSame DEF Plain
<1>2. Active(p) /\ UNCHANGED <<host, answer, ops, edits>>
  BY DEF Open, Flock, At
<1>3. UNCHANGED <<B!host, answerBar, ops, edits>>
  BY <1>2, BarAnswerSame DEF host, B!host
<1>4. answer' = [answer EXCEPT ![p] = answer'[p]]
  BY <1>2 DEF ProbePlaced
<1>5. PICK t : t = Tail(proc[p].todo) /\ t \in Seq(HostSteps)
  BY <1>2, HeadTailProperties DEF Plain, Active
<1>6. IsProc(proc[p])
  BY <1>1 DEF ProbePlaced
<1>7. CASE Open(p)
  <2>. DEFINE c == [proc[p] EXCEPT !.todo = t, !.dir = dirs]
  <2>1. proc' = [proc EXCEPT ![p] = c]
    BY <1>5, <1>7 DEF Open
  <2>2. IsProc(c) /\ c.todo = t
    BY <1>6, ProcDir
  <2>3. c = [procBar[p] EXCEPT !.todo = Tail(procBar[p].todo), !.dir = dirs]
    BY <1>1, <1>5
  <2>. HIDE DEF c
  <2>5. ProbePlaced' /\ procBar' = [procBar EXCEPT ![p] = c]
    BY <1>1, <1>4, <1>5, <2>1, <2>2, HostTurn
  <2>6. B!Open(p)
    BY <1>3, <1>7, <2>3, <2>5, BarAt DEF B!Open, Open
  <2>. QED
    BY <2>5, <2>6 DEF B!HostStep
<1>8. CASE Flock(p)
  <2>. DEFINE c == [proc[p] EXCEPT !.todo = t, !.locked = TRUE]
  <2>1. proc' = [proc EXCEPT ![p] = c]
    BY <1>5, <1>8 DEF Flock
  <2>2. IsProc(c) /\ c.todo = t
    BY <1>6, ProcLocked
  <2>3. c = [procBar[p] EXCEPT !.todo = Tail(procBar[p].todo), !.locked = TRUE]
    BY <1>1, <1>5
  <2>. HIDE DEF c
  <2>5. ProbePlaced' /\ procBar' = [procBar EXCEPT ![p] = c]
    BY <1>1, <1>4, <1>5, <2>1, <2>2, HostTurn
  <2>6. ~\E q \in Procs \ {p} : procBar[q].locked /\ procBar[q].dir = procBar[p].dir
    BY <1>1, <1>8, BarActive DEF Flock
  <2>7. B!Flock(p)
    BY <1>3, <1>8, <2>3, <2>5, <2>6, BarAt DEF B!Flock, Flock
  <2>. QED
    BY <2>5, <2>7 DEF B!HostStep
<1>. QED
  BY <1>7, <1>8

\* Every step of a process of the installer is seen as that step.
LEMMA PlainStep ==
    ASSUME ProbePlaced, NEW p, Plain(p), HostStep(p)
    PROVE  B!HostStep(p) /\ ProbePlaced'
  BY PlainReads, PlainWrites, PlainAccount, PlainEnds, PlainLocks DEF HostStep

(***************************************************************************)
(* An operation that begins; the start of a probe is that of a rollback.   *)
(***************************************************************************)
LEMMA Started ==
    ASSUME NEW v, NEW id
    PROVE  [Idle EXCEPT !.todo = v, !.r.id = id]
             = [todo |-> v, r |-> [id |-> id, uid |-> 0], dir |-> 0, locked |-> FALSE]
<1>. DEFINE w == [Idle.r EXCEPT !.id = id]
<1>0. Idle \in Processes
  BY DEF Idle, Processes, NoReceipt, Receipts
<1>1. Idle.r = [id |-> 0, uid |-> 0] /\ Idle.dir = 0 /\ Idle.locked = FALSE
  BY DEF Idle, NoReceipt
<1>2. [Idle EXCEPT !.todo = v, !.r.id = id] = [Idle EXCEPT !.todo = v, !.r = w]
  OBVIOUS
<1>3. w = [id |-> id, uid |-> 0]
  BY <1>1
<1>. HIDE DEF w
<1>4. [Idle EXCEPT !.todo = v, !.r = w] = [todo |-> v, r |-> w, dir |-> Idle.dir, locked |-> Idle.locked]
  BY <1>0, SetTodoReceipt
<1>. QED
  BY <1>1, <1>2, <1>3, <1>4 DEF w

\* The start of an operation is seen as the start of the operation it is seen
\* as.
LEMMA BarBegin ==
    ASSUME ProbePlaced, NEW p \in Procs, NEW s, NEW t, NEW id, Begin(p, s, id),
           \/ s \in Seq(HostSteps) /\ t = s
           \/ (\E n \in {1, 33} : s = Rest(n)) /\ t = Todo(26)
    PROVE  B!Begin(p, t, id) /\ ProbePlaced'
<1>. DEFINE c == [Idle EXCEPT !.todo = s, !.r.id = id]
            d == [Idle EXCEPT !.todo = t, !.r.id = id]
<1>1. /\ c = [todo |-> s, r |-> [id |-> id, uid |-> 0], dir |-> 0, locked |-> FALSE]
      /\ d = [todo |-> t, r |-> [id |-> id, uid |-> 0], dir |-> 0, locked |-> FALSE]
  BY Started
<1>2. proc' = [proc EXCEPT ![p] = c] /\ ~Active(p) /\ ops < MaxOps /\ ops' = ops + 1
  BY DEF Begin
<1>3. answer' = [answer EXCEPT ![p] = "none"] /\ UNCHANGED <<host, edits>>
  BY DEF Begin
<1>4. d = [B!Idle EXCEPT !.todo = t, !.r.id = id]
  BY DEF Idle, NoReceipt, B!Idle, B!NoReceipt
<1>5. IsProc(c) /\ c.todo = s
  BY <1>1 DEF IsProc
<1>6. Bar(c) = d
  <2>1. CASE s \in Seq(HostSteps) /\ t = s
    <3>1. Bar(c) = c
      BY <1>5, <2>1, HostBar
    <3>. QED
      BY <1>1, <2>1, <3>1
  <2>2. CASE (\E n \in {1, 33} : s = Rest(n)) /\ t = Todo(26)
    <3>1. PICK n \in {1, 33} : s = Rest(n)
      BY <2>2
    <3>2. n \in Spots /\ SeenAs(n) = 26
      BY <3>1 DEF Spots, SeenAs
    <3>3. Bar(c) = [todo |-> Todo(26), r |-> c.r, dir |-> c.dir, locked |-> c.locked]
      BY <1>5, <3>1, <3>2, ProbeBar
    <3>4. c.r = [id |-> id, uid |-> 0] /\ c.dir = 0 /\ c.locked = FALSE
      BY <1>1
    <3>. QED
      BY <1>1, <2>2, <3>3, <3>4
  <2>. QED
    BY <2>1, <2>2
<1>. HIDE DEF c, d
<1>7. DOMAIN answer = Procs /\ answer'[p] = "none" /\ answer' = [answer EXCEPT ![p] = answer'[p]]
  <2>1. DOMAIN answer = Procs
    BY DEF ProbePlaced
  <2>. QED
    BY <1>3, <2>1
<1>8. procBar' = [procBar EXCEPT ![p] = d]
  BY <1>2, <1>6, Turn
<1>9. ProbePlaced'
  <2>1. CASE s \in Seq(HostSteps)
    BY <1>2, <1>5, <1>7, <2>1, TurnPlaced
  <2>2. CASE \E n \in {1, 33} : s = Rest(n)
    <3>1. \E n \in Spots : c.todo = Rest(n)
      <4>1. 1 \in Spots /\ 33 \in Spots
        BY DEF Spots
      <4>. QED
        BY <1>5, <2>2, <4>1
    <3>. QED
      BY <1>2, <1>5, <1>7, <3>1, TurnPlaced
  <2>. QED
    BY <2>1, <2>2
<1>10. answerBar' = [answerBar EXCEPT ![p] = "none"]
  <2>1. \A q \in Procs : answer'[q] = IF q = p THEN "none" ELSE answer[q]
    BY <1>3, <1>7
  <2>2. [answerBar EXCEPT ![p] = "none"] = [q \in Procs |-> IF q = p THEN "none" ELSE answerBar[q]]
    BY DEF answerBar
  <2>3. answerBar' = [q \in Procs |-> IF answer'[q] \in {"probed", "stop"} THEN "none" ELSE answer'[q]]
    BY DEF answerBar
  <2>. QED
    BY <2>1, <2>2, <2>3 DEF answerBar
<1>11. ~B!Active(p)
  BY <1>2, BarActive
<1>. QED
  BY <1>2, <1>3, <1>4, <1>8, <1>9, <1>10, <1>11 DEF B!Begin, host, B!host

\* The scripts of the installer are the same in both views.
LEMMA SameScripts ==
    /\ B!ApplyScript = ApplyScript /\ ApplyScript \in Seq(HostSteps)
    /\ B!VerifyScript = VerifyScript /\ VerifyScript \in Seq(HostSteps)
    /\ B!RollbackScript = RollbackScript /\ RollbackScript \in Seq(HostSteps)
    /\ RollbackScript = Todo(26)
<1>1. /\ B!VerifyScript = VerifyScript
      /\ B!ApplyScript = ApplyScript
      /\ B!RollbackScript = RollbackScript
  <2>1. B!LockState = LockState /\ B!SaveReceipt = SaveReceipt /\ \A x : B!MakeOwn(x) = MakeOwn(x)
    BY DEF B!LockState, LockState, B!SaveReceipt, SaveReceipt, B!MakeOwn, MakeOwn
  <2>2. B!VerifyScript = VerifyScript
    BY DEF B!VerifyScript, VerifyScript, B!VerifySteps, VerifySteps
  <2>3. B!InstallScript = InstallScript
    BY <2>1, <2>2 DEF B!InstallScript, InstallScript
  <2>4. B!RemoveScript = RemoveScript
    BY DEF B!RemoveScript, RemoveScript
  <2>. QED
    BY <2>1, <2>2, <2>3, <2>4 DEF B!ApplyScript, ApplyScript, B!RollbackScript, RollbackScript
<1>2. ApplyScript = Todo(1) /\ VerifyScript = Todo(21) /\ RollbackScript = Todo(26)
  BY Scripts
<1>3. Todo(1) \in Seq(HostSteps) /\ Todo(21) \in Seq(HostSteps) /\ Todo(26) \in Seq(HostSteps)
  BY TodoType DEF Places
<1>. QED
  BY <1>1, <1>2, <1>3

\* The start of apply, verify or rollback is seen as that start.
LEMMA PlainBegin ==
    ASSUME ProbePlaced, NEW p \in Procs, apply(p) \/ verify(p) \/ rollback(p)
    PROVE  (B!apply(p) \/ B!verify(p) \/ B!rollback(p)) /\ ProbePlaced'
<1>1. CASE apply(p)
  <2>1. Fresh /\ Begin(p, ApplyScript, ops + 1)
    BY <1>1 DEF apply
  <2>2. B!Begin(p, ApplyScript, ops + 1) /\ ProbePlaced'
    BY <2>1, SameScripts, BarBegin
  <2>. QED
    BY <2>1, <2>2, SameHost, SameScripts DEF B!apply
<1>2. CASE verify(p)
  <2>1. Begin(p, VerifyScript, 0)
    BY <1>2 DEF verify
  <2>2. B!Begin(p, VerifyScript, 0) /\ ProbePlaced'
    BY <2>1, SameScripts, BarBegin
  <2>. QED
    BY <2>2, SameScripts DEF B!verify
<1>3. CASE rollback(p)
  <2>1. Begin(p, RollbackScript, 0)
    BY <1>3 DEF rollback
  <2>2. B!Begin(p, RollbackScript, 0) /\ ProbePlaced'
    BY <2>1, SameScripts, BarBegin
  <2>. QED
    BY <2>2, SameScripts DEF B!rollback
<1>. QED
  BY <1>1, <1>2, <1>3

\* The start of a probe is seen as the start of a rollback.
LEMMA ProbeBegin ==
    ASSUME ProbePlaced, kinds \subseteq {"h2b", "h2d"}, NEW p \in Procs, StartProbe(p)
    PROVE  B!rollback(p) /\ ProbePlaced'
<1>1. PICK kind \in kinds : Begin(p, ProbeScript(kind), 0)
  BY DEF StartProbe
<1>2. kind = "h2b" \/ kind = "h2d"
  BY <1>1
<1>3. \E n \in {1, 33} : ProbeScript(kind) = Rest(n)
  BY <1>2, ProbeScripts
<1>4. B!Begin(p, Todo(26), 0) /\ ProbePlaced'
  BY <1>1, <1>3, BarBegin
<1>. QED
  BY <1>4, SameScripts DEF B!rollback

(***************************************************************************)
(* A probe goes on: to the installation it opens the state directory,      *)
(* locks it, leaves, or does nothing.                                      *)
(***************************************************************************)
LEMMA ProbeHead ==
    ASSUME NEW p \in Procs, NEW n \in Spots, proc[p].todo = Rest(n), NEW kind, NEW x, At(p, kind, x)
    PROVE  ProbeAt(n, kind, x) /\ <<kind, x>> \in ProbeSteps
<1>1. ProbeCode[n] = <<kind, x>>
  BY Remaining DEF At
<1>. QED
  BY <1>1, Spotted

\* The first words of the steps of a probe.
Words ==
    {"verify", "try", "launch", "ready", "active", "observe", "fault", "await", "cleanup", "reap",
     "finally", "report"}

\* A process about to take a probe's step is at a spot of that step.
LEMMA InProbe ==
    ASSUME ProbePlaced, NEW p \in Procs, NEW kind \in Words, NEW x, At(p, kind, x)
    PROVE  \E n \in Spots : proc[p].todo = Rest(n) /\ ProbeAt(n, kind, x)
<1>1. proc[p].todo \notin Seq(HostSteps)
  <2>. SUFFICES ASSUME proc[p].todo \in Seq(HostSteps) PROVE FALSE
    OBVIOUS
  <2>1. Head(proc[p].todo) \in HostSteps
    BY HeadTailProperties DEF At, Active
  <2>2. <<kind, x>> \notin HostSteps
    BY DEF HostSteps, Words
  <2>. QED
    BY <2>1, <2>2 DEF At
<1>2. PICK n \in Spots : proc[p].todo = Rest(n)
  BY <1>1 DEF ProbePlaced, InScript
<1>. QED
  BY <1>2, ProbeHead

\* How a probe at a spot is seen.
LEMMA BarOf ==
    ASSUME ProbePlaced, NEW p \in Procs, NEW n \in Spots, proc[p].todo = Rest(n)
    PROVE  /\ procBar[p] = [todo |-> Todo(SeenAs(n)), r |-> proc[p].r, dir |-> proc[p].dir,
                            locked |-> proc[p].locked]
           /\ Probing(p) /\ answer[p] = "none" /\ answerBar[p] = "none"
<1>1. IsProc(proc[p])
  BY DEF ProbePlaced
<1>2. procBar[p] = Bar(proc[p])
  BY DEF procBar
<1>3. Probing(p)
  BY Ahead DEF Probing
<1>4. answer[p] = "none"
  BY <1>3, Unlike
<1>. QED
  BY <1>1, <1>2, <1>3, <1>4, ProbeBar DEF answerBar

GoesTo(p, c) == proc' = [proc EXCEPT ![p] = c]

OnSpot(c) == IsProc(c) /\ \E n \in Spots : c.todo = Rest(n)

\* A probe that goes to another spot is seen to go where that spot is seen.
LEMMA BarGoes ==
    ASSUME ProbePlaced, NEW p \in Procs, Probing(p), UNCHANGED answer, NEW c, GoesTo(p, c), OnSpot(c)
    PROVE  ProbePlaced' /\ procBar' = [procBar EXCEPT ![p] = Bar(c)]
<1>1. answer[p] = "none" /\ answer' = [answer EXCEPT ![p] = answer'[p]] /\ answer'[p] = "none"
  BY Unlike DEF ProbePlaced
<1>2. proc' = [proc EXCEPT ![p] = c] /\ IsProc(c) /\ \E n \in Spots : c.todo = Rest(n)
  BY DEF GoesTo, OnSpot
<1>3. ProbePlaced'
  BY <1>1, <1>2, TurnPlaced
<1>4. procBar' = [procBar EXCEPT ![p] = Bar(c)]
  BY <1>2, Turn
<1>. QED
  BY <1>3, <1>4

\* A probe that goes on under the lock is not seen to move.
LEMMA BarStays ==
    ASSUME ProbePlaced, NEW p \in Procs, NEW n \in Spots, proc[p].todo = Rest(n), UNCHANGED answer,
           NEW m \in Spots, proc' = [proc EXCEPT ![p] = [proc[p] EXCEPT !.todo = Rest(m)]],
           SeenAs(m) = SeenAs(n)
    PROVE  ProbePlaced' /\ UNCHANGED <<procBar, answerBar>>
<1>. DEFINE c == [proc[p] EXCEPT !.todo = Rest(m)]
<1>0. IsProc(proc[p])
  BY DEF ProbePlaced
<1>1. IsProc(c) /\ c.todo = Rest(m)
  BY <1>0, ProcTodo
<1>2. c = [todo |-> Rest(m), r |-> proc[p].r, dir |-> proc[p].dir, locked |-> proc[p].locked]
  BY <1>0, ProcTodo
<1>3. proc' = [proc EXCEPT ![p] = c]
  OBVIOUS
<1>. HIDE DEF c
<1>4. c.r = proc[p].r /\ c.dir = proc[p].dir /\ c.locked = proc[p].locked
  BY <1>2
<1>5. ProbePlaced' /\ procBar' = [procBar EXCEPT ![p] = Bar(c)]
  <2>1. Probing(p)
    BY BarOf
  <2>2. GoesTo(p, c) /\ OnSpot(c)
    BY <1>1, <1>3 DEF GoesTo, OnSpot
  <2>. QED
    BY <2>1, <2>2, BarGoes
<1>5a. Bar(c) = [todo |-> Todo(SeenAs(m)), r |-> c.r, dir |-> c.dir, locked |-> c.locked]
  BY <1>1, ProbeBar
<1>6. procBar' = [procBar EXCEPT ![p] = procBar[p]]
  BY <1>4, <1>5, <1>5a, BarOf
<1>7. procBar' = procBar
  BY <1>6 DEF procBar
<1>. QED
  BY <1>5, <1>7, BarAnswerSame

\* A probe's next step is not seen, beyond the processes under the account
\* that may come and go.
LEMMA ProbeGoes ==
    ASSUME ProbePlaced, NEW p \in Procs, NEW kind \in Words, kind # "report", NEW x,
           At(p, kind, x), Go(p)
    PROVE  ProbePlaced' /\ B!Others
<1>1. PICK n \in Spots : proc[p].todo = Rest(n) /\ ProbeAt(n, kind, x)
  BY InProbe
<1>2. n \notin {2, 3, 34, 35, 32, 46}
  BY <1>1 DEF ProbeAt, Words
<1>3. Tail(Rest(n)) = Rest(n + 1) /\ n + 1 \in Spots
  BY <1>2, Remaining
<1>4. SeenAs(n + 1) = SeenAs(n)
  BY <1>2 DEF SeenAs, Spots
<1>5. UNCHANGED <<host, answer, ops, edits>> /\ proc' = [proc EXCEPT ![p] = [proc[p] EXCEPT !.todo = Tail(proc[p].todo)]]
  BY DEF Go, Advance
<1>6. proc' = [proc EXCEPT ![p] = [proc[p] EXCEPT !.todo = Rest(n + 1)]]
  BY <1>1, <1>3, <1>5
<1>7. ProbePlaced' /\ UNCHANGED <<procBar, answerBar>>
  BY <1>1, <1>3, <1>4, <1>5, <1>6, BarStays
<1>. QED
  BY <1>5, <1>7 DEF B!Others, host, B!host

\* A probe that ends is seen as a rollback that stops.
LEMMA ProbeLeaves ==
    ASSUME ProbePlaced, NEW p \in Procs, Probing(p), proc' = [proc EXCEPT ![p] = Idle],
           answer' = [answer EXCEPT ![p] = answer'[p]], answer'[p] \in {"none", "probed", "stop"},
           UNCHANGED <<host, ops, edits>>
    PROVE  B!Abort(p) /\ ProbePlaced'
<1>1. PICK n \in Spots : proc[p].todo = Rest(n)
  BY Unlike
<1>2. Active(p)
  BY <1>1, Remaining DEF Active
<1>3. procBar' = [procBar EXCEPT ![p] = B!Idle] /\ ProbePlaced'
  BY BarIdle
<1>4. answer[p] = "none"
  BY <1>1, BarOf
<1>5. UNCHANGED answerBar
  <2>1. \A q \in Procs \ {p} : answer'[q] = answer[q]
    BY DEF ProbePlaced
  <2>2. ASSUME NEW q \in Procs
        PROVE  (IF answer'[q] \in {"probed", "stop"} THEN "none" ELSE answer'[q])
                 = (IF answer[q] \in {"probed", "stop"} THEN "none" ELSE answer[q])
    BY <1>4, <2>1
  <2>. QED
    BY <2>2 DEF answerBar
<1>6. B!Active(p)
  BY <1>2, BarActive
<1>. QED
  BY <1>3, <1>5, <1>6 DEF B!Abort, host, B!host

\* The first two places of rollback are open and flock.
LEMMA OpenPlace ==
    /\ Todo(26) # <<>> /\ Head(Todo(26)) = <<"open", "state">>
    /\ Tail(Todo(26)) = Todo(27) /\ Tail(Todo(27)) = Todo(28)
<1>1. 26 \in Places /\ 27 \in Places /\ After(26) = 27 /\ After(27) = 28
  BY DEF Places, After
<1>2. Todo(26) # <<>> /\ Head(Todo(26)) = Code[26] /\ Tail(Todo(26)) = Todo(27)
  BY <1>1, Walk
<1>3. Tail(Todo(27)) = Todo(28)
  BY <1>1, Walk
<1>4. Code[26] = <<"open", "state">>
  BY DEF Code
<1>. QED
  BY <1>2, <1>3, <1>4

\* Of the installer's steps a probe takes three.
LEMMA ProbeOpens ==
    ASSUME ProbePlaced, NEW p \in Procs, Probing(p), Open(p)
    PROVE  B!Open(p) /\ ProbePlaced'
<1>1. PICK n \in Spots : proc[p].todo = Rest(n)
  BY Unlike
<1>2. At(p, "open", "state") /\ obj["state"] # "absent" /\ UNCHANGED <<host, answer, ops, edits>>
  BY DEF Open
<1>3. n \in {2, 34}
  BY <1>1, <1>2, ProbeHead DEF ProbeAt
<1>4. Tail(Rest(n)) = Rest(n + 1) /\ n + 1 \in Spots /\ SeenAs(n) = 26 /\ SeenAs(n + 1) = 27
  <2>1. n \notin {32, 46}
    BY <1>3
  <2>2. SeenAs(n) = 26 /\ SeenAs(n + 1) = 27
    BY <1>3 DEF SeenAs
  <2>. QED
    BY <2>1, <2>2, Remaining
<1>. DEFINE v == Rest(n + 1)
            c == [proc[p] EXCEPT !.todo = v, !.dir = dirs]
<1>5. proc' = [proc EXCEPT ![p] = c]
  BY <1>1, <1>4 DEF Open
<1>6. IsProc(proc[p])
  BY DEF ProbePlaced
<1>. HIDE DEF v
<1>7. /\ c = [todo |-> v, r |-> proc[p].r, dir |-> dirs, locked |-> proc[p].locked]
      /\ IsProc(c) /\ c.todo = v
  BY <1>6, ProcDir
<1>. HIDE DEF c
<1>8. c.r = proc[p].r /\ c.dir = dirs /\ c.locked = proc[p].locked
  BY <1>7
<1>9. /\ ProbePlaced'
      /\ procBar' = [procBar EXCEPT ![p] = [todo |-> Todo(27), r |-> c.r, dir |-> c.dir, locked |-> c.locked]]
  <2>1. c.todo = Rest(n + 1) /\ IsProc(c)
    BY <1>7 DEF v
  <2>2. ProbePlaced' /\ procBar' = [procBar EXCEPT ![p] = Bar(c)]
    <3>1. GoesTo(p, c) /\ OnSpot(c)
      BY <1>4, <1>5, <2>1 DEF GoesTo, OnSpot
    <3>. QED
      BY <1>2, <3>1, BarGoes
  <2>3. Bar(c) = [todo |-> Todo(27), r |-> c.r, dir |-> c.dir, locked |-> c.locked]
    BY <1>4, <2>1, ProbeBar
  <2>. QED
    BY <2>2, <2>3
<1>10. procBar[p] = [todo |-> Todo(26), r |-> proc[p].r, dir |-> proc[p].dir, locked |-> proc[p].locked]
  BY <1>1, <1>4, BarOf
<1>11. Tail(Todo(26)) = Todo(27) /\ Todo(26) # <<>> /\ Head(Todo(26)) = <<"open", "state">>
  BY OpenPlace
<1>12. [procBar[p] EXCEPT !.todo = Tail(procBar[p].todo), !.dir = dirs]
         = [todo |-> Todo(27), r |-> c.r, dir |-> c.dir, locked |-> c.locked]
  <2>. DEFINE b == procBar[p]
              t == Todo(27)
  <2>1. b.todo = Todo(26) /\ b.r = proc[p].r /\ b.locked = proc[p].locked
    BY <1>10
  <2>2. Tail(b.todo) = t
    BY <1>11, <2>1
  <2>3. IsProc(b)
    BY <1>10 DEF IsProc
  <2>. HIDE DEF b, t
  <2>4. [b EXCEPT !.todo = t, !.dir = dirs] = [todo |-> t, r |-> b.r, dir |-> dirs, locked |-> b.locked]
    BY <2>3, ProcDir
  <2>. QED
    BY <1>8, <2>1, <2>2, <2>4 DEF b, t
<1>13. B!At(p, "open", "state")
  BY <1>10, <1>11 DEF B!At, B!Active
<1>. QED
  BY <1>2, <1>9, <1>12, <1>13, BarAnswerSame DEF B!Open, host, B!host

\* A probe that takes the lock is seen as a rollback that takes it.
LEMMA ProbeLocks ==
    ASSUME ProbePlaced, NEW p \in Procs, Probing(p), Flock(p)
    PROVE  B!Flock(p) /\ ProbePlaced'
<1>1. PICK n \in Spots : proc[p].todo = Rest(n)
  BY Unlike
<1>2. /\ At(p, "flock", "state") /\ UNCHANGED <<host, answer, ops, edits>>
      /\ ~\E q \in Procs \ {p} : proc[q].locked /\ proc[q].dir = proc[p].dir
  BY DEF Flock
<1>3. n \in {3, 35}
  BY <1>1, <1>2, ProbeHead DEF ProbeAt
<1>4. Tail(Rest(n)) = Rest(n + 1) /\ n + 1 \in Spots /\ SeenAs(n) = 27 /\ SeenAs(n + 1) = 28
  <2>1. n \notin {32, 46}
    BY <1>3
  <2>2. SeenAs(n) = 27 /\ SeenAs(n + 1) = 28
    BY <1>3 DEF SeenAs
  <2>. QED
    BY <2>1, <2>2, Remaining
<1>. DEFINE v == Rest(n + 1)
            c == [proc[p] EXCEPT !.todo = v, !.locked = TRUE]
<1>5. proc' = [proc EXCEPT ![p] = c]
  BY <1>1, <1>4 DEF Flock
<1>6. IsProc(proc[p])
  BY DEF ProbePlaced
<1>. HIDE DEF v
<1>7. /\ c = [todo |-> v, r |-> proc[p].r, dir |-> proc[p].dir, locked |-> TRUE]
      /\ IsProc(c) /\ c.todo = v
  BY <1>6, ProcLocked
<1>. HIDE DEF c
<1>8. c.r = proc[p].r /\ c.dir = proc[p].dir /\ c.locked = TRUE
  BY <1>7
<1>9. /\ ProbePlaced'
      /\ procBar' = [procBar EXCEPT ![p] = [todo |-> Todo(28), r |-> c.r, dir |-> c.dir, locked |-> c.locked]]
  <2>1. c.todo = Rest(n + 1) /\ IsProc(c)
    BY <1>7 DEF v
  <2>2. ProbePlaced' /\ procBar' = [procBar EXCEPT ![p] = Bar(c)]
    <3>1. GoesTo(p, c) /\ OnSpot(c)
      BY <1>4, <1>5, <2>1 DEF GoesTo, OnSpot
    <3>. QED
      BY <1>2, <3>1, BarGoes
  <2>3. Bar(c) = [todo |-> Todo(28), r |-> c.r, dir |-> c.dir, locked |-> c.locked]
    BY <1>4, <2>1, ProbeBar
  <2>. QED
    BY <2>2, <2>3
<1>10. procBar[p] = [todo |-> Todo(27), r |-> proc[p].r, dir |-> proc[p].dir, locked |-> proc[p].locked]
  BY <1>1, <1>4, BarOf
<1>11. Tail(Todo(27)) = Todo(28)
  BY OpenPlace
<1>12. [procBar[p] EXCEPT !.todo = Tail(procBar[p].todo), !.locked = TRUE]
         = [todo |-> Todo(28), r |-> c.r, dir |-> c.dir, locked |-> c.locked]
  <2>. DEFINE b == procBar[p]
              t == Todo(28)
  <2>1. b.todo = Todo(27) /\ b.r = proc[p].r /\ b.dir = proc[p].dir
    BY <1>10
  <2>2. Tail(b.todo) = t
    BY <1>11, <2>1
  <2>3. IsProc(b)
    BY <1>10 DEF IsProc
  <2>. HIDE DEF b, t
  <2>4. [b EXCEPT !.todo = t, !.locked = TRUE] = [todo |-> t, r |-> b.r, dir |-> b.dir, locked |-> TRUE]
    BY <2>3, ProcLocked
  <2>. QED
    BY <1>8, <2>1, <2>2, <2>4 DEF b, t
<1>13. B!At(p, "flock", "state")
  BY <1>2, BarActive
<1>14. ~\E q \in Procs \ {p} : procBar[q].locked /\ procBar[q].dir = procBar[p].dir
  BY <1>2, BarActive
<1>. QED
  BY <1>2, <1>9, <1>12, <1>13, <1>14, BarAnswerSame DEF B!Flock, host, B!host

\* A probe takes only three of the installer's steps: it stops, opens, or
\* takes the lock.
LEMMA ProbeTakes ==
    ASSUME ProbePlaced, NEW p \in Procs, Probing(p), HostStep(p)
    PROVE  Abort(p) \/ Open(p) \/ Flock(p)
<1>1. PICK n \in Spots : proc[p].todo = Rest(n)
  BY Unlike
<1>2. ASSUME NEW kind, NEW x, At(p, kind, x) PROVE <<kind, x>> \in ProbeSteps
  BY <1>1, <1>2, ProbeHead
<1>3. \A kind, x : At(p, kind, x) => kind \in Words \cup {"open", "flock"}
  <2>1. \A kind, x : <<kind, x>> \in ProbeSteps => kind \in Words \cup {"open", "flock"}
    BY DEF ProbeSteps, Words
  <2>. QED
    BY <1>2, <2>1
<1>. QED
  <2>1. ~Replace(p) /\ ~create_user(p) /\ ~ReadReceipt(p) /\ ~CheckIdentity(p) /\ ~CheckFiles(p)
    BY <1>3 DEF Replace, create_user, ReadReceipt, CheckIdentity, CheckFiles, Words
  <2>2. ~CheckPartial(p) /\ ~CheckUnit(p) /\ ~Reload(p) /\ ~RecordUser(p) /\ ~remove_user(p)
    BY <1>3 DEF CheckPartial, CheckUnit, Reload, RecordUser, remove_user, Words
  <2>3. ~remove_group(p) /\ ~ConfirmRemoval(p) /\ ~Answer(p)
    BY <1>3 DEF remove_group, ConfirmRemoval, Answer, Words
  <2>4. \A x \in Paths : ~Make(p, x) /\ ~Own(p, x) /\ ~Drop(p, x)
    BY <1>3 DEF Make, Own, Drop, Words
  <2>. QED
    BY <2>1, <2>2, <2>3, <2>4 DEF HostStep

\* The installer's steps a probe takes are seen as those steps of a rollback.
LEMMA ProbeHostStep ==
    ASSUME ProbePlaced, NEW p \in Procs, Probing(p), HostStep(p)
    PROVE  B!HostStep(p) /\ ProbePlaced'
<1>1. PICK n \in Spots : proc[p].todo = Rest(n)
  BY Unlike
<1>4. Abort(p) \/ Open(p) \/ Flock(p)
  BY ProbeTakes
<1>5. CASE Abort(p)
  <2>1. proc' = [proc EXCEPT ![p] = Idle] /\ UNCHANGED <<host, answer, ops, edits>>
    BY <1>5 DEF Abort
  <2>2. answer' = [answer EXCEPT ![p] = answer'[p]] /\ answer'[p] \in {"none", "probed", "stop"}
    BY <1>1, <2>1, BarOf DEF ProbePlaced
  <2>3. B!Abort(p) /\ ProbePlaced'
    BY <2>1, <2>2, ProbeLeaves
  <2>. QED
    BY <2>3 DEF B!HostStep
<1>. QED
  BY <1>4, <1>5, ProbeOpens, ProbeLocks DEF B!HostStep

\* An exception goes up to the next finally block, or out of the probe.
LEMMA ProbeRaises ==
    ASSUME ProbePlaced, NEW p \in Procs, Raise(p)
    PROVE  (B!Abort(p) \/ B!Others) /\ ProbePlaced'
<1>1. Probing(p) /\ UNCHANGED <<host, answer, ops, edits>>
  BY DEF Raise
<1>2. PICK n \in Spots : proc[p].todo = Rest(n)
  BY <1>1, Unlike
<1>3. proc' = [proc EXCEPT ![p] = IF Handler(Rest(n)) = <<>> THEN Idle
                                  ELSE [proc[p] EXCEPT !.todo = Handler(Rest(n))]]
  BY <1>2 DEF Raise
<1>4. CASE CaughtAt(n) = 0
  <2>1. Handler(Rest(n)) = <<>>
    BY <1>4, Caught
  <2>2. proc' = [proc EXCEPT ![p] = Idle]
    BY <1>3, <2>1
  <2>3. answer' = [answer EXCEPT ![p] = answer'[p]] /\ answer'[p] \in {"none", "probed", "stop"}
    BY <1>1, <1>2, BarOf DEF ProbePlaced
  <2>. QED
    BY <1>1, <2>2, <2>3, ProbeLeaves
<1>5. CASE CaughtAt(n) # 0
  <2>1. PICK m \in Spots : m = CaughtAt(n) /\ m \in {14, 17, 26, 29, 30, 40, 43, 44}
    BY <1>5, Caught
  <2>2. Handler(Rest(n)) = Rest(m) /\ Rest(m) # <<>>
    BY <1>5, <2>1, Caught, Remaining
  <2>3. SeenAs(m) = SeenAs(n)
    <3>1. SeenAs(m) = 28
      BY <2>1 DEF SeenAs
    <3>2. SeenAs(n) = 28
      BY <1>5 DEF SeenAs, CaughtAt
    <3>. QED
      BY <3>1, <3>2
  <2>4. proc' = [proc EXCEPT ![p] = [proc[p] EXCEPT !.todo = Rest(m)]]
    BY <1>3, <2>2
  <2>5. ProbePlaced' /\ UNCHANGED <<procBar, answerBar>>
    BY <1>1, <1>2, <2>3, <2>4, BarStays
  <2>. QED
    BY <1>1, <2>5 DEF B!Others, host, B!host
<1>. QED
  BY <1>4, <1>5

\* The wait for the launcher is not seen.
LEMMA ProbeReaps ==
    ASSUME ProbePlaced, NEW p \in Procs, ReapLauncher(p)
    PROVE  B!Others /\ ProbePlaced'
<1>1. At(p, "reap", "launcher") /\ UNCHANGED <<host, answer, ops, edits>>
  BY DEF ReapLauncher
<1>2. PICK n \in Spots : proc[p].todo = Rest(n) /\ ProbeAt(n, "reap", "launcher")
  BY <1>1, InProbe DEF Words
<1>3. n \in {17, 29, 43}
  BY <1>2 DEF ProbeAt
<1>. DEFINE rest == IF p \in failed THEN From(Rest(n), <<"finally", "h2a">>) ELSE Tail(Rest(n))
<1>4. PICK m \in Spots : m \in {18, 30, 44} /\ rest = Rest(m)
  <2>1. Tail(Rest(n)) = Rest(n + 1) /\ n + 1 \in Spots /\ n + 1 \in {18, 30, 44}
    <3>1. n \notin {32, 46} /\ n + 1 \in {18, 30, 44}
      BY <1>3
    <3>. QED
      BY <3>1, Remaining
  <2>2. \E m \in {30, 44} : From(Rest(n), <<"finally", "h2a">>) = Rest(m)
    <3>1. n \in {17, 18, 29, 30} => From(Rest(n), <<"finally", "h2a">>) = Rest(30)
      BY FromAt
    <3>2. n \in {43, 44} => From(Rest(n), <<"finally", "h2a">>) = Rest(44)
      BY FromAt
    <3>. QED
      BY <1>3, <3>1, <3>2
  <2>3. 30 \in Spots /\ 44 \in Spots
    BY DEF Spots
  <2>. QED
    BY <2>1, <2>2, <2>3
<1>5. proc' = [proc EXCEPT ![p] = [proc[p] EXCEPT !.todo = rest]]
  BY <1>2 DEF ReapLauncher
<1>. HIDE DEF rest
<1>6. SeenAs(m) = SeenAs(n)
  BY <1>3, <1>4 DEF SeenAs
<1>7. proc' = [proc EXCEPT ![p] = [proc[p] EXCEPT !.todo = Rest(m)]]
  BY <1>4, <1>5
<1>8. ProbePlaced' /\ UNCHANGED <<procBar, answerBar>>
  BY <1>1, <1>2, <1>6, <1>7, BarStays
<1>. QED
  BY <1>1, <1>8 DEF B!Others, host, B!host

\* The report of a probe is seen as a rollback that stops.
LEMMA ProbeReports ==
    ASSUME ProbePlaced, NEW p \in Procs, Report(p)
    PROVE  B!Abort(p) /\ ProbePlaced'
<1>1. /\ At(p, "report", "ok") /\ UNCHANGED <<host, ops, edits>> /\ proc' = [proc EXCEPT ![p] = Idle]
      /\ answer' = [answer EXCEPT ![p] = IF p \in failed THEN "stop" ELSE "probed"]
  BY DEF Report
<1>2. \E n \in Spots : proc[p].todo = Rest(n)
  BY <1>1, InProbe DEF Words
<1>3. Probing(p)
  BY <1>2, BarOf
<1>4. answer' = [answer EXCEPT ![p] = answer'[p]] /\ answer'[p] \in {"none", "probed", "stop"}
  <2>1. DOMAIN answer = Procs
    BY DEF ProbePlaced
  <2>. QED
    BY <1>1, <2>1
<1>. QED
  BY <1>1, <1>3, <1>4, ProbeLeaves

\* The other steps of a probe concern its units, and the installation not at all.
LEMMA ProbeWorks ==
    ASSUME ProbePlaced, NEW p \in Procs,
           \/ Marker(p) \/ VerifyInstalled(p) \/ Launch(p) \/ ready(p) \/ active(p)
           \/ observe_processes(p) \/ FaultMain(p) \/ FaultLauncher(p) \/ wait_failure(p)
           \/ LauncherEnds(p) \/ CleanupStop(p) \/ CleanupReset(p) \/ CleanupGone(p)
    PROVE  B!Others /\ ProbePlaced'
<1>1. Go(p) /\ \E kind \in Words \ {"report"} : \E x : At(p, kind, x)
  <2>1. CASE Marker(p)
    BY <2>1 DEF Marker, Words
  <2>2. CASE VerifyInstalled(p)
    BY <2>2 DEF VerifyInstalled, Words
  <2>3. CASE Launch(p)
    BY <2>3 DEF Launch, Words
  <2>4. CASE ready(p) \/ active(p) \/ observe_processes(p)
    BY <2>4 DEF ready, active, observe_processes, Words
  <2>5. CASE FaultMain(p) \/ FaultLauncher(p)
    BY <2>5 DEF FaultMain, FaultLauncher, Words
  <2>6. CASE wait_failure(p)
    BY <2>6 DEF wait_failure, Words
  <2>7. CASE LauncherEnds(p)
    BY <2>7 DEF LauncherEnds, Words
  <2>8. CASE CleanupStop(p) \/ CleanupReset(p) \/ CleanupGone(p)
    BY <2>8 DEF CleanupStop, CleanupReset, CleanupGone, Words
  <2>. QED
    BY <2>1, <2>2, <2>3, <2>4, <2>5, <2>6, <2>7, <2>8
<1>2. PICK kind \in Words \ {"report"} : \E x : At(p, kind, x)
  BY <1>1
<1>3. PICK x : At(p, kind, x)
  BY <1>2
<1>. QED
  BY <1>1, <1>3, ProbeGoes

\* So do the manager, and a launcher that ends.
LEMMA AroundProbes ==
    ASSUME ProbePlaced,
           (\E p \in Procs : LauncherExits(p)) \/ (\E n \in Names : ManagerStep(n))
    PROVE  B!Others /\ ProbePlaced'
<1>1. UNCHANGED <<host, proc, answer, ops, edits>>
  BY DEF LauncherExits, ManagerStep
<1>2. UNCHANGED <<procBar, answerBar>>
  BY <1>1 DEF procBar, answerBar
<1>3. ProbePlaced'
  BY <1>1 DEF ProbePlaced, InScript, IsProc
<1>. QED
  BY <1>1, <1>2, <1>3 DEF B!Others, host, B!host

\* An edit of the administrator is seen as that edit.
LEMMA SameAdmin ==
    ASSUME ProbePlaced, AdminEdit
    PROVE  B!AdminEdit /\ ProbePlaced'
<1>1. Quiet /\ edits < MaxEdits /\ edits' = edits + 1 /\ (AdminFile \/ AdminAccount)
  BY DEF AdminEdit
<1>2. UNCHANGED <<dirs, saved, draft, loaded, proc, answer, ops>>
  BY DEF AdminEdit
<1>3. UNCHANGED <<procBar, answerBar>>
  BY <1>2 DEF procBar, answerBar
<1>4. ProbePlaced'
  BY <1>2 DEF ProbePlaced, InScript, IsProc
<1>5. B!Quiet
  BY <1>1, BarActive DEF B!Quiet, Quiet
<1>6. (AdminFile => B!AdminFile) /\ (AdminAccount => B!AdminAccount)
  BY SameHost DEF AdminFile, B!AdminFile, AdminAccount, B!AdminAccount
<1>. QED
  BY <1>1, <1>2, <1>3, <1>4, <1>5, <1>6 DEF B!AdminEdit

(***************************************************************************)
(* Every step of the composition is one of the installer.                  *)
(***************************************************************************)
KindsKnown == kinds \subseteq {"h2b", "h2d"}

\* A process is seen idle exactly when it is idle.
LEMMA BarTodo ==
    ASSUME NEW c, IsProc(c), c.todo \in Seq(HostSteps) \/ \E n \in Spots : c.todo = Rest(n)
    PROVE  Bar(c).todo = <<>> <=> c.todo = <<>>
<1>1. CASE c.todo \in Seq(HostSteps)
  BY <1>1, HostBar
<1>2. ASSUME NEW n \in Spots, c.todo = Rest(n) PROVE Bar(c).todo = <<>> <=> c.todo = <<>>
  <2>1. Bar(c).todo = Todo(SeenAs(n)) /\ SeenAs(n) \in Places /\ SeenAs(n) # 0
    <3>1. /\ Bar(c) = [todo |-> Todo(SeenAs(n)), r |-> c.r, dir |-> c.dir, locked |-> c.locked]
          /\ SeenAs(n) \in {26, 27, 28}
      BY <1>2, ProbeBar
    <3>. QED
      BY <3>1 DEF Places
  <2>2. Todo(SeenAs(n)) # <<>> /\ Rest(n) # <<>>
    BY <2>1, Walk, Remaining
  <2>. QED
    BY <1>2, <2>1, <2>2
<1>. QED
  BY <1>1, <1>2

\* The history variable is the same in both views.
LEMMA SameHistory ==
    ASSUME ProbePlaced, ProbePlaced', Observe
    PROVE  B!Observe
<1>1. B!InPlace' <=> InPlace'
  BY DEF B!InPlace, InPlace, B!ReceiptReadable, ReceiptReadable, B!AllFiles, AllFiles, B!Targets, Targets,
         B!NoUser, NoUser
<1>2. ASSUME NEW p \in Procs
      PROVE  /\ procBar[p].todo = <<>> <=> proc[p].todo = <<>>
             /\ procBar'[p].todo = <<>> <=> proc'[p].todo = <<>>
  <2>1. procBar[p] = Bar(proc[p]) /\ procBar'[p] = Bar(proc'[p])
    BY DEF procBar
  <2>2. /\ IsProc(proc[p])
        /\ proc[p].todo \in Seq(HostSteps) \/ \E n \in Spots : proc[p].todo = Rest(n)
    BY DEF ProbePlaced, InScript
  <2>3. /\ IsProc(proc'[p])
        /\ proc'[p].todo \in Seq(HostSteps) \/ \E n \in Spots : proc'[p].todo = Rest(n)
    BY DEF ProbePlaced, InScript
  <2>4. procBar[p].todo = <<>> <=> proc[p].todo = <<>>
    BY <2>1, <2>2, BarTodo
  <2>5. procBar'[p].todo = <<>> <=> proc'[p].todo = <<>>
    BY <2>1, <2>3, BarTodo
  <2>. QED
    BY <2>4, <2>5
<1>3. \A p \in Procs : B!Beginning(p) <=> Beginning(p)
  BY <1>2 DEF B!Beginning, Beginning
<1>. QED
  BY <1>1, <1>2, <1>3 DEF B!Observe, Observe

\* Every step of a probe is seen as the start or a step of a rollback, or not
\* at all.
LEMMA ProbeStepBar ==
    ASSUME ProbePlaced, KindsKnown, NEW p \in Procs, ProbeStep(p)
    PROVE  (B!rollback(p) \/ B!HostStep(p) \/ B!Others) /\ ProbePlaced'
<1>1. CASE StartProbe(p)
  BY <1>1, ProbeBegin DEF KindsKnown
<1>2. CASE Raise(p) \/ Report(p)
  BY <1>2, ProbeRaises, ProbeReports DEF B!HostStep
<1>3. CASE ReapLauncher(p)
  BY <1>3, ProbeReaps
<1>4. CASE \/ Marker(p) \/ VerifyInstalled(p) \/ Launch(p) \/ ready(p) \/ active(p)
           \/ observe_processes(p) \/ FaultMain(p) \/ FaultLauncher(p) \/ wait_failure(p)
           \/ LauncherEnds(p) \/ CleanupStop(p) \/ CleanupReset(p) \/ CleanupGone(p)
  BY <1>4, ProbeWorks
<1>. QED
  BY <1>1, <1>2, <1>3, <1>4 DEF ProbeStep

\* Every step of the installer's processes is seen as a step of the
\* installer.
LEMMA StepBar ==
    ASSUME ProbePlaced, Step
    PROVE  B!Step /\ ProbePlaced'
<1>1. CASE AdminEdit
  BY <1>1, SameAdmin DEF B!Step
<1>2. ASSUME NEW p \in Procs, Undisturbed(p), apply(p) \/ verify(p) \/ rollback(p) \/ HostStep(p)
      PROVE  B!Step /\ ProbePlaced'
  <2>1. B!Undisturbed(p)
    BY <1>2, BarUndisturbed
  <2>2. (B!apply(p) \/ B!verify(p) \/ B!rollback(p) \/ B!HostStep(p)) /\ ProbePlaced'
    <3>1. CASE apply(p) \/ verify(p) \/ rollback(p)
      BY <3>1, PlainBegin
    <3>2. CASE HostStep(p) /\ Probing(p)
      BY <3>2, ProbeHostStep
    <3>3. CASE HostStep(p) /\ ~Probing(p)
      <4>1. Plain(p)
        BY <3>3, Unlike DEF Plain
      <4>. QED
        BY <3>3, <4>1, PlainStep
    <3>. QED
      BY <1>2, <3>1, <3>2, <3>3
  <2>. QED
    BY <2>1, <2>2 DEF B!Step
<1>. QED
  BY <1>1, <1>2 DEF Step

\* Every step of the composition is seen as one of the installer, or as none.
LEMMA ProbeNextBar ==
    ASSUME ProbePlaced, KindsKnown, [ProbeNext]_probeVars
    PROVE  ProbePlaced' /\ KindsKnown' /\ [B!InstallNext]_(B!vars)
<1>1. CASE UNCHANGED probeVars
  <2>1. UNCHANGED <<obj, dirs, saved, draft, user, group, loaded, busy, proc, answer, seen, ops, edits, kinds>>
    BY <1>1 DEF probeVars, vars
  <2>2. UNCHANGED <<procBar, answerBar>>
    BY <2>1 DEF procBar, answerBar
  <2>3. ProbePlaced' /\ KindsKnown'
    BY <2>1 DEF ProbePlaced, InScript, IsProc, KindsKnown
  <2>. QED
    BY <2>1, <2>2, <2>3 DEF B!vars
<1>2. CASE ProbeNext
  <2>1. KindsKnown' /\ Observe
    BY <1>2 DEF ProbeNext, KindsKnown
  <2>2. ProbePlaced' /\ (B!Step \/ B!Others)
    <3>1. CASE InstallerStep
      BY <3>1, StepBar DEF InstallerStep
    <3>2. ASSUME NEW p \in Procs, Undisturbed(p), ProbeStep(p) PROVE ProbePlaced' /\ (B!Step \/ B!Others)
      <4>1. B!Undisturbed(p)
        BY <3>2, BarUndisturbed
      <4>2. (B!rollback(p) \/ B!HostStep(p) \/ B!Others) /\ ProbePlaced'
        BY <3>2, ProbeStepBar
      <4>. QED
        BY <4>1, <4>2 DEF B!Step
    <3>3. CASE (\E p \in Procs : LauncherExits(p)) \/ (\E n \in Names : ManagerStep(n))
      BY <3>3, AroundProbes
    <3>. QED
      BY <1>2, <3>1, <3>2, <3>3 DEF ProbeNext
  <2>3. B!Observe
    BY <2>1, <2>2, SameHistory
  <2>. QED
    BY <2>1, <2>2, <2>3 DEF B!InstallNext
<1>. QED
  BY <1>1, <1>2

\* The composition starts as the installer does.
LEMMA ProbeInitBar == ProbeInit => B!InstallInit /\ ProbePlaced /\ KindsKnown
<1>. SUFFICES ASSUME ProbeInit PROVE B!InstallInit /\ ProbePlaced /\ KindsKnown
  OBVIOUS
<1>1. KindsKnown
  BY ProbeAssumption DEF ProbeInit, KindsKnown
<1>2. Installed \/ Init
  BY DEF ProbeInit
<1>3. proc = [p \in Procs |-> Idle] /\ answer = [p \in Procs |-> "none"]
  BY <1>2 DEF Installed, Init
<1>4. ProbePlaced
  <2>1. \A p \in Procs : proc[p] = Idle
    BY <1>3
  <2>. QED
    BY <1>3, <2>1, IdleHost DEF ProbePlaced, InScript
<1>5. procBar = [p \in Procs |-> B!Idle] /\ answerBar = [p \in Procs |-> "none"]
  <2>1. \A p \in Procs : Bar(proc[p]) = B!Idle
    BY <1>3, IdleHost DEF Idle, B!Idle, NoReceipt, B!NoReceipt
  <2>2. \A p \in Procs : answer[p] = "none"
    BY <1>3
  <2>. QED
    BY <2>1, <2>2 DEF procBar, answerBar
<1>6. CASE Init
  <2>1. B!Paths = Paths /\ B!NoUser = NoUser /\ B!NoGroup = NoGroup /\ B!NoReceipt = NoReceipt
    BY SameHost
  <2>2. /\ obj = [x \in B!Paths |-> "absent"] /\ dirs = 0
        /\ saved = B!NoReceipt /\ draft = B!NoReceipt
        /\ user = B!NoUser /\ group = B!NoGroup /\ loaded = FALSE /\ busy = {}
        /\ seen = {} /\ ops = 0 /\ edits = 0
    BY <1>6, <2>1 DEF Init
  <2>3. B!Init
    BY <1>5, <2>2 DEF B!Init
  <2>. QED
    BY <1>1, <1>4, <2>3 DEF B!InstallInit
<1>7. CASE Installed
  <2>1. B!Paths = Paths /\ B!NoReceipt = NoReceipt
    BY SameHost
  <2>2. /\ obj = [x \in B!Paths |-> IF x = "next" THEN "absent" ELSE "ok"] /\ dirs = 1
        /\ draft = B!NoReceipt /\ loaded = TRUE /\ busy = {}
        /\ seen = {} /\ ops = 2 /\ edits = MaxEdits
    BY <1>7, <2>1 DEF Installed
  <2>3. \E n \in Uids :
         /\ saved = [id |-> 1, uid |-> n]
         /\ user = [tag |-> 1, uid |-> n, clean |-> TRUE]
         /\ group = [gid |-> n, own |-> TRUE, clean |-> TRUE]
    BY <1>7 DEF Installed
  <2>4. B!Installed
    BY <1>5, <2>2, <2>3 DEF B!Installed
  <2>. QED
    BY <1>1, <1>4, <2>4 DEF B!InstallInit
<1>. QED
  BY <1>1, <1>2, <1>4, <1>6, <1>7

\* A probe changes nothing of the installation: with every probe seen as a rollback
\* that waits under the lock, the composition behaves as the installer alone.
THEOREM ProbesImplementInstaller == ProbeSpec => B!InstallSpec
<1>1. ProbeInit => B!InstallInit /\ ProbePlaced /\ KindsKnown
  BY ProbeInitBar
<1>2. ProbePlaced /\ KindsKnown /\ [ProbeNext]_probeVars
        => ProbePlaced' /\ KindsKnown' /\ [B!InstallNext]_(B!vars)
  BY ProbeNextBar
<1>. QED
  BY <1>1, <1>2, PTL DEF ProbeSpec, B!InstallSpec

\* A probe is seen with more than one step left to do.
LEMMA SeenLength ==
    ASSUME NEW n \in Spots
    PROVE  Len(Todo(SeenAs(n))) > 1
<1>1. SeenAs(n) \in {26, 27, 28} /\ Todo(SeenAs(n)) = Part(SeenAs(n), 41)
  BY DEF SeenAs, Todo
<1>2. PICK k \in 26..28 : k = SeenAs(n)
  BY <1>1
<1>3. k \in 1..50 /\ 41 \in k..50
  BY <1>2
<1>4. Len(Part(k, 41)) = 41 - k + 1
  BY <1>3, Cut
<1>. QED
  BY <1>1, <1>2, <1>4

\* Whatever fails, is interrupted or killed, a process is at a place of the installer's
\* scripts, or at one of a probe's and has no answer yet.
THEOREM ProbePlacesHold == ProbeSpec => []ProbePlaced
<1>1. ProbeInit => ProbePlaced /\ KindsKnown
  BY ProbeInitBar
<1>2. ProbePlaced /\ KindsKnown /\ [ProbeNext]_probeVars => ProbePlaced' /\ KindsKnown'
  BY ProbeNextBar
<1>. QED
  BY <1>1, <1>2, PTL DEF ProbeSpec

\* With probes or without, what the administrator made or altered stays.
THEOREM ProbedForeignSurvives == ProbeSpec => ForeignUntouched
<1>1. B!InstallSpec => B!ForeignUntouched
  BY B!ForeignThingsSurvive, CustodyAssumption
<1>2. [/\ \A x \in B!Targets : obj[x] = "foreign" => obj'[x] = "foreign"
       /\ user # B!NoUser /\ (user.tag = 0 \/ ~user.clean) => user'.uid = user.uid
       /\ group # B!NoGroup /\ ~group.own => group' = group]_(B!vars)
      => [/\ \A x \in Targets : obj[x] = "foreign" => obj'[x] = "foreign"
          /\ user # NoUser /\ (user.tag = 0 \/ ~user.clean) => user'.uid = user.uid
          /\ group # NoGroup /\ ~group.own => group' = group]_vars
  BY SameHost DEF B!vars
<1>. QED
  BY <1>1, <1>2, ProbesImplementInstaller, PTL DEF ForeignUntouched, B!ForeignUntouched

\* The lock serialises installers and probes alike.
THEOREM ProbedMutationIsSerial == AtomicLock => (ProbeSpec => []MutationSerialised)
<1>1. AtomicLock => (B!InstallSpec => []B!MutationSerialised)
  BY B!MutationIsSerial, CustodyAssumption
<1>2. ProbePlaced /\ B!MutationSerialised => MutationSerialised
  <2>. SUFFICES ASSUME ProbePlaced, B!MutationSerialised PROVE MutationSerialised
    OBVIOUS
  <2>1. ASSUME NEW p \in Procs, Mutating(p) PROVE B!Mutating(p)
    <3>1. CASE proc[p].todo \in Seq(HostSteps)
      BY <2>1, <3>1, HostSame DEF Mutating, B!Mutating
    <3>2. ASSUME NEW n \in Spots, proc[p].todo = Rest(n) PROVE B!Mutating(p)
      <4>0. procBar[p] = [todo |-> Todo(SeenAs(n)), r |-> proc[p].r, dir |-> proc[p].dir,
                         locked |-> proc[p].locked]
        BY <3>2, BarOf
      <4>1. procBar[p].todo = Todo(SeenAs(n)) /\ procBar[p].locked = proc[p].locked
        BY <4>0
      <4>2. Len(Todo(SeenAs(n))) > 1
        BY SeenLength
      <4>. QED
        BY <2>1, <4>1, <4>2 DEF Mutating, B!Mutating
    <3>. QED
      BY <3>1, <3>2 DEF ProbePlaced, InScript
  <2>. QED
    BY <2>1 DEF MutationSerialised, B!MutationSerialised
<1>. QED
  BY <1>1, <1>2, ProbesImplementInstaller, ProbePlacesHold, PTL

\* Also with probes about, an operation that stops anywhere leaves what the next
\* apply notices and, short of the cases for review, rollback removes.
THEOREM ProbedStopsAreRecoverable == AtomicLock => (ProbeSpec => []RemainsAreRecoverable)
<1>1. AtomicLock => (B!InstallSpec => []B!RemainsAreRecoverable)
  BY B!StopsAreRecoverable, CustodyAssumption
<1>2. ProbePlaced /\ B!RemainsAreRecoverable => RemainsAreRecoverable
  <2>. SUFFICES ASSUME ProbePlaced, B!RemainsAreRecoverable PROVE RemainsAreRecoverable
    OBVIOUS
  <2>1. B!Quiet <=> Quiet
    BY BarActive DEF B!Quiet, Quiet
  <2>2. B!StateGuardsArtifacts => StateGuardsArtifacts
    BY SameHost DEF B!StateGuardsArtifacts, StateGuardsArtifacts, B!OwnTarget, OwnTarget
  <2>3. B!NeedsReview <=> NeedsReview
    BY SameHost DEF B!NeedsReview, NeedsReview
  <2>4. B!AdminTouched <=> AdminTouched
    BY SameHost DEF B!AdminTouched, AdminTouched
  <2>5. B!InterruptedStaysRemovable => InterruptedStaysRemovable
    BY <2>1, <2>3, <2>4, SameHost DEF B!InterruptedStaysRemovable, InterruptedStaysRemovable
  <2>. QED
    BY <2>2, <2>5 DEF RemainsAreRecoverable, B!RemainsAreRecoverable
<1>. QED
  BY <1>1, <1>2, ProbesImplementInstaller, ProbePlacesHold, PTL

\* A verify that passes next to probes had a complete installation before its eyes.
THEOREM ProbedVerifyIsTrue == AtomicLock => (ProbeSpec => []VerifiedWasInstalled)
<1>1. AtomicLock => (B!InstallSpec => []B!VerifiedWasInstalled)
  BY B!VerifiedIsTrue, CustodyAssumption
<1>2. B!VerifiedWasInstalled => VerifiedWasInstalled
  BY DEF B!VerifiedWasInstalled, VerifiedWasInstalled, answerBar
<1>. QED
  BY <1>1, <1>2, ProbesImplementInstaller, PTL

(***************************************************************************)
(* What is known of the units while a probe is at a spot.                  *)
(***************************************************************************)
\* Nothing of the unit is left, and nothing will become of it.
Gone(u) == u.phase = "absent" /\ reaped(u)

\* The i-th unit of p's probe is gone, for the reason under test.
Ended(p, i, reason) ==
    LET u == units[names[p][i]] IN Gone(u) /\ u.result = reason

Failing(p, reason) ==
    Mine(p).phase = "failed" /\ reaped(Mine(p)) /\ Mine(p).result = reason

CourseAt(p, n) ==
    /\ n \in 1..6 \cup 33..38 => names[p] = <<>>
    /\ n \in 7..19 \cup 39..46 => Len(names[p]) = 1
    /\ n \in 20..32 => Len(names[p]) = 2
    /\ n \in 13..15 => Failing(p, "signal")
    /\ n \in 16..32 => Ended(p, 1, "signal")
    /\ n \in 26..27 => Failing(p, "timeout")
    /\ n \in 28..32 => Ended(p, 2, "timeout")
    /\ n = 39 => ~Mine(p).tree
    /\ n \in 40..41 => Mine(p).phase \in {"absent", "failed"} /\ reaped(Mine(p)) /\ Mine(p).result = "success"
    /\ n \in 42..46 => Ended(p, 1, "success")
    /\ n \in 30..32 \cup 44..46 => launcher[p] = "none"

\* The second verify, under the lock, is behind the probe.
Verified(n) == n \in 5..32 \cup 37..46

Here(p, n) ==
    /\ n \in Spots /\ proc[p].todo = Rest(n)
    /\ Verified(n) => p \in seen
    /\ p \notin failed => CourseAt(p, n)

Course(p) == Probing(p) => \E n \in Spots : Here(p, n)

Earned(p) ==
    answer[p] = "probed" =>
      /\ p \in seen /\ launcher[p] = "none"
      /\ \/ Len(names[p]) = 2 /\ Ended(p, 1, "signal") /\ Ended(p, 2, "timeout")
         \/ Len(names[p]) = 1 /\ Ended(p, 1, "success")

UnitType ==
    [phase : {"absent", "requested", "active", "stopping", "failed"},
     result : {"none", "exit", "success", "signal", "timeout", "stopped"},
     main : {"none", "live", "zombie"}, child : {"none", "live", "zombie"},
     ready : BOOLEAN, tree : BOOLEAN, collect : BOOLEAN, uid : Nat]

UnitSound(u) ==
    /\ u.phase \notin {"active", "stopping"} => u.main = "none"
    /\ ~u.tree \/ u.phase = "requested" => u.child = "none"

\* Names are used once.
NamesInv ==
    /\ made \in 0..MaxUnits /\ names \in [Procs -> Seq(1..made)]
    /\ \A p \in Procs : \A i, j \in DOMAIN names[p] : i # j => names[p][i] # names[p][j]
    /\ \A p, q \in Procs : p # q =>
         \A i \in DOMAIN names[p], j \in DOMAIN names[q] : names[p][i] # names[q][j]

UnitsInv ==
    /\ units \in [Names -> UnitType] /\ \A n \in Names : UnitSound(units[n])
    /\ launcher \in [Procs -> {"none", "running", "killed", "exited"}]
    /\ \A p \in Procs : launcher[p] = "exited" => Mine(p).phase \in {"absent", "failed"}

PassInv == NamesInv /\ UnitsInv /\ \A p \in Procs : Course(p) /\ Earned(p)

(***************************************************************************)
(* What concerns no unit of a probe leaves what is known of them.          *)
(***************************************************************************)
\* A unit after a step that does not belong to its probe.
Kept1(u, v) ==
    /\ v.tree = u.tree
    /\ u.phase \in {"absent", "failed"} => v.phase = u.phase
    /\ u.phase \in {"absent", "failed"} /\ reaped(u) => v = u

UnitsKept(p) ==
    /\ names'[p] = names[p] /\ launcher'[p] = launcher[p]
    /\ \A i \in DOMAIN names[p] : Kept1(units[names[p][i]], units'[names[p][i]])

\* The units of a process are among those that were named, and its current
\* one is the last.
LEMMA NamesOf ==
    ASSUME NamesInv, NEW p \in Procs
    PROVE  /\ names[p] \in Seq(Nat) /\ DOMAIN names[p] = 1..Len(names[p]) /\ Len(names[p]) \in Nat
           /\ \A i \in DOMAIN names[p] : names[p][i] \in 1..made /\ names[p][i] \in Names
           /\ names[p] # <<>> => Len(names[p]) \in DOMAIN names[p] /\ Name(p) = names[p][Len(names[p])]
           /\ names[p] # <<>> => Name(p) \in Names /\ Name(p) # 0 /\ Name(p) <= made
           /\ names[p] = <<>> => Name(p) = 0 /\ Mine(p) = NoUnit
           /\ names[p] # <<>> => Mine(p) = units[Name(p)]
<1>1. names[p] \in Seq(1..made) /\ made \in 0..MaxUnits /\ made \in Nat /\ MaxUnits \in Nat
  BY ProbeAssumption DEF NamesInv
<1>2. names[p] \in Seq(Nat) /\ DOMAIN names[p] = 1..Len(names[p]) /\ Len(names[p]) \in Nat
  <2>1. DOMAIN names[p] = 1..Len(names[p]) /\ Len(names[p]) \in Nat
    BY <1>1, LenProperties
  <2>2. \A i \in 1..Len(names[p]) : names[p][i] \in 1..made
    BY <1>1, ElementOfSeq
  <2>3. names[p] \in Seq(Nat)
    BY <1>1
  <2>. QED
    BY <2>1, <2>3
<1>3. ASSUME NEW i \in DOMAIN names[p] PROVE names[p][i] \in 1..made /\ names[p][i] \in Names
  <2>1. names[p][i] \in 1..made
    BY <1>1, <1>2, ElementOfSeq
  <2>. QED
    BY <1>1, <2>1 DEF Names
<1>4. names[p] # <<>> => Len(names[p]) \in DOMAIN names[p]
  BY <1>2, EmptySeq
<1>5. names[p] # <<>> => Name(p) = names[p][Len(names[p])]
  BY DEF Name
<1>6. names[p] # <<>> => Name(p) \in Names /\ Name(p) # 0 /\ Name(p) <= made
  <2>1. names[p] # <<>> => Name(p) \in 1..made /\ Name(p) \in Names
    BY <1>3, <1>4, <1>5
  <2>. QED
    BY <1>1, <2>1
<1>7. names[p] = <<>> => Name(p) = 0 /\ Mine(p) = NoUnit
  BY DEF Name, Mine
<1>8. names[p] # <<>> => Mine(p) = units[Name(p)]
  BY <1>6 DEF Mine
<1>. QED
  BY <1>2, <1>3, <1>4, <1>5, <1>6, <1>7, <1>8

\* The current unit of a process is kept when its units are.
LEMMA MineKept ==
    ASSUME NamesInv, NEW p \in Procs, UnitsKept(p)
    PROVE  Kept1(Mine(p), Mine(p)')
<1>1. Name(p)' = Name(p)
  BY DEF UnitsKept, Name
<1>2. CASE names[p] = <<>>
  <2>1. Name(p) = 0
    BY <1>2, NamesOf
  <2>2. Mine(p) = NoUnit /\ Mine(p)' = NoUnit
    BY <1>1, <2>1 DEF Mine
  <2>. QED
    BY <2>2 DEF Kept1
<1>3. CASE names[p] # <<>>
  <2>1. Len(names[p]) \in DOMAIN names[p] /\ Name(p) = names[p][Len(names[p])] /\ Name(p) # 0
    BY <1>3, NamesOf
  <2>2. Mine(p) = units[Name(p)] /\ Mine(p)' = units'[Name(p)]
    BY <1>1, <2>1 DEF Mine
  <2>. QED
    BY <2>1, <2>2 DEF UnitsKept
<1>. QED
  BY <1>2, <1>3

\* A unit that ended for a reason stays so.
LEMMA EndedKept ==
    ASSUME NEW p \in Procs, UnitsKept(p), NEW i \in DOMAIN names[p], NEW reason, Ended(p, i, reason)
    PROVE  Ended(p, i, reason)'
<1>1. Kept1(units[names[p][i]], units'[names[p][i]]) /\ names'[p] = names[p]
  BY DEF UnitsKept
<1>2. units'[names[p][i]] = units[names[p][i]]
  BY <1>1 DEF Kept1, Ended, Gone
<1>. QED
  BY <1>1, <1>2 DEF Ended, Gone

\* What is known of a probe at its spot still holds when its units are kept.
LEMMA CourseKept ==
    ASSUME NamesInv, NEW p \in Procs, UnitsKept(p), NEW n \in Spots, CourseAt(p, n)
    PROVE  CourseAt(p, n)'
<1>1. Kept1(Mine(p), Mine(p)') /\ names'[p] = names[p] /\ launcher'[p] = launcher[p]
  BY MineKept DEF UnitsKept
<1>2. \A reason : Failing(p, reason) => Failing(p, reason)'
  <2>1. ASSUME NEW reason, Failing(p, reason) PROVE Failing(p, reason)'
    <3>1. Mine(p)' = Mine(p)
      BY <1>1, <2>1 DEF Kept1, Failing
    <3>. QED
      BY <2>1, <3>1 DEF Failing
  <2>. QED
    BY <2>1
<1>3. DOMAIN names[p] = 1..Len(names[p])
  BY NamesOf
<1>4. \A i \in 1..Len(names[p]) : \A reason : Ended(p, i, reason) => Ended(p, i, reason)'
  BY <1>3, EndedKept
<1>5. n \in Nat
  BY DEF Spots
<1>6. /\ n \in 13..15 => Failing(p, "signal")'
      /\ n \in 26..27 => Failing(p, "timeout")'
  BY <1>2 DEF CourseAt
<1>7. /\ n \in 16..32 => Ended(p, 1, "signal")'
      /\ n \in 28..32 => Ended(p, 2, "timeout")'
      /\ n \in 42..46 => Ended(p, 1, "success")'
  <2>1. n \in 16..32 => Len(names[p]) \in {1, 2} /\ Ended(p, 1, "signal")
    BY <1>5 DEF CourseAt
  <2>2. n \in 28..32 => Len(names[p]) = 2 /\ Ended(p, 2, "timeout")
    BY <1>5 DEF CourseAt
  <2>3. n \in 42..46 => Len(names[p]) = 1 /\ Ended(p, 1, "success")
    BY <1>5 DEF CourseAt
  <2>4. Len(names[p]) \in {1, 2} => 1 \in 1..Len(names[p])
    OBVIOUS
  <2>5. Len(names[p]) = 2 => 2 \in 1..Len(names[p])
    OBVIOUS
  <2>. QED
    BY <1>4, <2>1, <2>2, <2>3, <2>4, <2>5
<1>8. n = 39 => ~Mine(p)'.tree
  BY <1>1 DEF CourseAt, Kept1
<1>9. n \in 40..41 => Mine(p)'.phase \in {"absent", "failed"} /\ reaped(Mine(p)') /\ Mine(p)'.result = "success"
  BY <1>1 DEF CourseAt, Kept1
<1>10. /\ n \in 1..6 \cup 33..38 => names'[p] = <<>>
       /\ n \in 7..19 \cup 39..46 => Len(names'[p]) = 1
       /\ n \in 20..32 => Len(names'[p]) = 2
       /\ n \in 30..32 \cup 44..46 => launcher'[p] = "none"
  BY <1>1 DEF CourseAt
<1>. QED
  BY <1>6, <1>7, <1>8, <1>9, <1>10 DEF CourseAt


(***************************************************************************)
(* The others, and the manager.                                            *)
(***************************************************************************)
LEMMA CourseSame ==
    ASSUME NEW p \in Procs, UNCHANGED <<names, units>>, NEW n \in Spots, CourseAt(p, n),
           launcher'[p] = launcher[p] \/ launcher'[p] = "none" \/ n \notin 30..32 \cup 44..46
    PROVE  CourseAt(p, n)'
<1>1. Mine(p)' = Mine(p) /\ names'[p] = names[p]
  BY DEF Mine, Name
<1>2. \A reason : Failing(p, reason) => Failing(p, reason)'
  BY <1>1 DEF Failing
<1>3. \A i, reason : Ended(p, i, reason) => Ended(p, i, reason)'
  BY <1>1 DEF Ended
<1>4. n \in 30..32 \cup 44..46 => launcher'[p] = "none"
  BY DEF CourseAt
<1>. QED
  BY <1>1, <1>2, <1>3, <1>4 DEF CourseAt

\* Most steps ask nothing of the units that was not known before.
LEMMA CourseOn ==
    ASSUME NEW p \in Procs, NEW n \in Spots, CourseAt(p, n),
           n \notin {6, 12, 15, 19, 25, 27, 29, 32, 38, 39, 41, 43, 46}
    PROVE  CourseAt(p, n + 1)
<1>1. PICK m \in Nat : m = n + 1
  BY DEF Spots
<1>2. /\ m \in 1..6 \cup 33..38 => n \in 1..6 \cup 33..38
      /\ m \in 7..19 \cup 39..46 => n \in 7..19 \cup 39..46
      /\ m \in 20..32 => n \in 20..32
      /\ m \in 13..15 => n \in 13..15
      /\ m \in 16..32 => n \in 16..32
      /\ m \in 26..27 => n \in 26..27
      /\ m \in 28..32 => n \in 28..32
      /\ m # 39
      /\ m \in 40..41 => n \in 40..41
      /\ m \in 42..46 => n \in 42..46
      /\ m \in 30..32 \cup 44..46 => n \in 30..32 \cup 44..46
  BY <1>1 DEF Spots
<1>3. /\ m \in 1..6 \cup 33..38 => names[p] = <<>>
      /\ m \in 7..19 \cup 39..46 => Len(names[p]) = 1
      /\ m \in 20..32 => Len(names[p]) = 2
  BY <1>2 DEF CourseAt
<1>4. /\ m \in 13..15 => Failing(p, "signal")
      /\ m \in 16..32 => Ended(p, 1, "signal")
      /\ m \in 26..27 => Failing(p, "timeout")
      /\ m \in 28..32 => Ended(p, 2, "timeout")
  BY <1>2 DEF CourseAt
<1>5. /\ m = 39 => ~Mine(p).tree
      /\ m \in 40..41 => Mine(p).phase \in {"absent", "failed"} /\ reaped(Mine(p)) /\ Mine(p).result = "success"
      /\ m \in 42..46 => Ended(p, 1, "success")
      /\ m \in 30..32 \cup 44..46 => launcher[p] = "none"
  BY <1>2 DEF CourseAt
<1>6. CourseAt(p, m)
  BY <1>3, <1>4, <1>5 DEF CourseAt
<1>. QED
  BY <1>1, <1>6

\* Who has seen the installation keeps that until it begins anew.
LEMMA SeenStays ==
    ASSUME Observe, NEW p \in Procs, p \in seen, proc[p].todo # <<>> \/ proc'[p].todo = <<>>
    PROVE  p \in seen'
  BY DEF Observe, Beginning

\* A process that does not move.
Still(p) ==
    /\ proc'[p] = proc[p] /\ answer'[p] = answer[p]
    /\ p \in failed => p \in failed'

\* A process that does not move keeps what is known of it and what it has
\* earned.
LEMMA StillKeeps ==
    ASSUME NamesInv, Observe, NEW p \in Procs, Still(p), UnitsKept(p), Course(p), Earned(p)
    PROVE  Course(p)' /\ Earned(p)'
<1>1. p \in seen => p \in seen'
  BY SeenStays DEF Still
<1>2. Course(p)'
  <2>. SUFFICES ASSUME Probing(p)' PROVE \E n \in Spots : Here(p, n)'
    BY DEF Course
  <2>1. Probing(p)
    BY DEF Probing, Still
  <2>2. PICK n \in Spots : Here(p, n)
    BY <2>1 DEF Course
  <2>3. p \notin failed => CourseAt(p, n)'
    BY <2>2, CourseKept DEF Here
  <2>4. Here(p, n)'
    BY <1>1, <2>2, <2>3 DEF Here, Still
  <2>. QED
    BY <2>4
<1>3. Earned(p)'
  <2>. SUFFICES ASSUME answer[p] = "probed"
                PROVE  /\ p \in seen' /\ launcher'[p] = "none"
                       /\ \/ Len(names'[p]) = 2 /\ Ended(p, 1, "signal")' /\ Ended(p, 2, "timeout")'
                          \/ Len(names'[p]) = 1 /\ Ended(p, 1, "success")'
    BY DEF Earned, Still
  <2>1. names'[p] = names[p] /\ launcher'[p] = launcher[p] /\ DOMAIN names[p] = 1..Len(names[p])
    BY NamesOf DEF UnitsKept
  <2>2. CASE Len(names[p]) = 2 /\ Ended(p, 1, "signal") /\ Ended(p, 2, "timeout")
    <3>1. 1 \in DOMAIN names[p] /\ 2 \in DOMAIN names[p]
      BY <2>1, <2>2
    <3>2. Ended(p, 1, "signal")'
      BY <2>2, <3>1, EndedKept
    <3>3. Ended(p, 2, "timeout")'
      BY <2>2, <3>1, EndedKept
    <3>. QED
      BY <1>1, <2>1, <2>2, <3>2, <3>3 DEF Earned
  <2>3. CASE Len(names[p]) = 1 /\ Ended(p, 1, "success")
    <3>1. 1 \in DOMAIN names[p]
      BY <2>1, <2>3
    <3>2. Ended(p, 1, "success")'
      BY <2>3, <3>1, EndedKept
    <3>. QED
      BY <1>1, <2>1, <2>3, <3>2 DEF Earned
  <2>. QED
    BY <2>2, <2>3 DEF Earned
<1>. QED
  BY <1>2, <1>3

\* When its launcher is gone, a process's current unit is gone or failed, and
\* stays so.
LEMMA ExitedKept ==
    ASSUME NamesInv, UnitsInv, NEW p \in Procs, UnitsKept(p), launcher'[p] = "exited"
    PROVE  Mine(p)'.phase \in {"absent", "failed"}
<1>1. launcher[p] = "exited" /\ Kept1(Mine(p), Mine(p)')
  BY MineKept DEF UnitsKept
<1>. QED
  BY <1>1 DEF UnitsInv, Kept1

(***************************************************************************)
(* A step of one probe.                                                    *)
(***************************************************************************)
\* What p does to itself and to its last unit, or to a unit that is new.
Local(p) ==
    /\ \A q \in Procs \ {p} : Still(q) /\ names'[q] = names[q] /\ launcher'[q] = launcher[q]
    /\ \A k \in Names : units'[k] = units[k] \/ k = Name(p) \/ k = made + 1

Sound(us) == us \in [Names -> UnitType] /\ \A k \in Names : UnitSound(us[k])

LauncherType == [Procs -> {"none", "running", "killed", "exited"}]

Moves(p) ==
    /\ Local(p) /\ NamesInv' /\ Sound(units') /\ launcher' \in LauncherType
    /\ launcher'[p] = "exited" => Mine(p)'.phase \in {"absent", "failed"}
    /\ Course(p)' /\ Earned(p)'

\* A step about the units of one process keeps those of every other.
LEMMA LocalKeeps ==
    ASSUME NamesInv, NEW p \in Procs, Local(p), NEW q \in Procs \ {p}
    PROVE  UnitsKept(q)
<1>1. names'[q] = names[q] /\ launcher'[q] = launcher[q]
  BY DEF Local
<1>2. ASSUME NEW j \in DOMAIN names[q] PROVE Kept1(units[names[q][j]], units'[names[q][j]])
  <2>1. names[q][j] \in 1..made /\ names[q][j] \in Names
    BY NamesOf
  <2>2. names[q][j] # made + 1
    BY <2>1 DEF NamesInv
  <2>3. names[q][j] # Name(p)
    <3>1. CASE names[p] = <<>>
      <4>1. Name(p) = 0
        BY <3>1, NamesOf
      <4>. QED
        BY <2>1, <4>1
    <3>2. CASE names[p] # <<>>
      <4>1. Len(names[p]) \in DOMAIN names[p] /\ Name(p) = names[p][Len(names[p])]
        BY <3>2, NamesOf
      <4>. QED
        BY <4>1 DEF NamesInv
    <3>. QED
      BY <3>1, <3>2
  <2>4. units'[names[q][j]] = units[names[q][j]]
    BY <2>1, <2>2, <2>3 DEF Local
  <2>. QED
    BY <2>4 DEF Kept1
<1>. QED
  BY <1>1, <1>2 DEF UnitsKept

\* A step that is one process's own, and true at its new spot, keeps PassInv.
LEMMA MovesPass ==
    ASSUME PassInv, Observe, NEW p \in Procs, Moves(p)
    PROVE  PassInv'
<1>1. ASSUME NEW q \in Procs \ {p}
      PROVE  /\ Course(q)' /\ Earned(q)'
             /\ launcher'[q] = "exited" => Mine(q)'.phase \in {"absent", "failed"}
  <2>1. UnitsKept(q) /\ Still(q)
    BY LocalKeeps DEF PassInv, Moves, Local
  <2>2. NamesInv /\ UnitsInv /\ Course(q) /\ Earned(q)
    BY DEF PassInv
  <2>3. Course(q)' /\ Earned(q)'
    BY <2>1, <2>2, StillKeeps
  <2>4. launcher'[q] = "exited" => Mine(q)'.phase \in {"absent", "failed"}
    BY <2>1, <2>2, ExitedKept
  <2>. QED
    BY <2>3, <2>4
<1>2. \A q \in Procs : Course(q)' /\ Earned(q)'
  BY <1>1 DEF Moves
<1>3. \A q \in Procs : launcher'[q] = "exited" => Mine(q)'.phase \in {"absent", "failed"}
  BY <1>1 DEF Moves
<1>4. UnitsInv'
  BY <1>3 DEF UnitsInv, Moves, Sound, LauncherType
<1>. QED
  BY <1>2, <1>4 DEF PassInv, Moves

\* A process about to take a probe's step is at a spot of that step, with no
\* answer.
LEMMA OnCourse ==
    ASSUME ProbePlaced, NEW p \in Procs, Course(p), NEW kind \in Words, NEW x, At(p, kind, x)
    PROVE  \E n \in Spots : Here(p, n) /\ ProbeAt(n, kind, x)
<1>1. PICK m \in Spots : proc[p].todo = Rest(m)
  BY InProbe
<1>2. Probing(p)
  BY <1>1, BarOf
<1>3. PICK n \in Spots : Here(p, n)
  BY <1>2 DEF Course
<1>4. proc[p].todo = Rest(n)
  BY <1>3 DEF Here
<1>5. ProbeAt(n, kind, x)
  BY <1>4, ProbeHead
<1>. QED
  BY <1>3, <1>5

\* A probe at a new spot with what that spot says is on course, and has
\* nothing to earn yet.
LEMMA Arrival ==
    ASSUME NEW p \in Procs, NEW m \in Spots, Here(p, m)', answer'[p] # "probed"
    PROVE  Course(p)' /\ Earned(p)'
  BY DEF Course, Earned

\* A probe takes its next step.
LEMMA GoOn ==
    ASSUME ProbePlaced, NEW p \in Procs, NEW n \in Spots, n \notin {32, 46}, Here(p, n), Go(p)
    PROVE  /\ proc'[p].todo = Rest(n + 1) /\ n + 1 \in Spots
           /\ \A q \in Procs \ {p} : proc'[q] = proc[q]
           /\ UNCHANGED answer /\ answer'[p] = "none"
           /\ proc[p].todo # <<>> /\ proc'[p].todo # <<>>
<1>1. proc[p].todo = Rest(n)
  BY DEF Here
<1>2. answer[p] = "none"
  BY <1>1, BarOf
<1>3. Tail(Rest(n)) = Rest(n + 1) /\ n + 1 \in Spots /\ Rest(n) # <<>>
  BY Remaining
<1>4. Rest(n + 1) # <<>>
  BY <1>3, Remaining
<1>5. proc' = [proc EXCEPT ![p].todo = Tail(@)] /\ UNCHANGED answer
  BY DEF Go, Advance
<1>6. IsProc(proc[p]) /\ proc = [q \in Procs |-> proc[q]]
  BY DEF ProbePlaced
<1>7. proc'[p] = [proc[p] EXCEPT !.todo = Tail(proc[p].todo)] /\ \A q \in Procs \ {p} : proc'[q] = proc[q]
  BY <1>5, <1>6
<1>8. proc'[p].todo = Tail(proc[p].todo)
  BY <1>6, <1>7, ProcTodo
<1>. QED
  BY <1>1, <1>2, <1>3, <1>4, <1>5, <1>7, <1>8

\* A probe's step that leaves the units alone is its own, when the new spot's
\* knowledge follows from the old one's.
LEMMA QuietMove ==
    ASSUME ProbePlaced, PassInv, Observe, NEW p \in Procs, NEW n \in Spots, n \notin {32, 46}, Here(p, n),
           Go(p), UNCHANGED probe,
           Verified(n + 1) => p \in seen', p \notin failed => CourseAt(p, n + 1)
    PROVE  Moves(p)
<1>1. /\ proc'[p].todo = Rest(n + 1) /\ n + 1 \in Spots
      /\ \A q \in Procs \ {p} : proc'[q] = proc[q]
      /\ UNCHANGED answer /\ answer'[p] = "none"
  BY GoOn
<1>2. UNCHANGED <<units, made, launcher, names, failed>>
  BY DEF probe
<1>3. p \notin failed' => CourseAt(p, n + 1)'
  BY <1>1, <1>2, CourseSame
<1>4. Here(p, n + 1)'
  BY <1>1, <1>3 DEF Here
<1>5. Course(p)' /\ Earned(p)'
  BY <1>1, <1>4, Arrival
<1>6. Local(p)
  BY <1>1, <1>2 DEF Local, Still
<1>7. Mine(p)' = Mine(p)
  BY <1>2 DEF Mine, Name
<1>8. NamesInv' /\ Sound(units') /\ launcher' \in LauncherType
  BY <1>2 DEF PassInv, NamesInv, UnitsInv, Sound, LauncherType
<1>. QED
  BY <1>2, <1>5, <1>6, <1>7, <1>8 DEF Moves, PassInv, UnitsInv

(***************************************************************************)
(* The steps that change no unit.                                          *)
(***************************************************************************)
\* Spots behind the second verify follow each other.
LEMMA VerifiedOn ==
    \A n \in Spots : n \notin {4, 36} /\ n \notin {32, 46} /\ Verified(n + 1) => Verified(n)
  BY DEF Verified, Spots

\* A probe past a verify keeps having seen the installation.
LEMMA SeenOn ==
    ASSUME ProbePlaced, Observe, NEW p \in Procs, NEW n \in Spots, n \notin {4, 32, 36, 46}, Here(p, n),
           Verified(n + 1)
    PROVE  p \in seen'
<1>1. Rest(n) # <<>> /\ proc[p].todo = Rest(n)
  BY Remaining DEF Here
<1>2. p \in seen
  BY VerifiedOn DEF Here
<1>. QED
  BY <1>1, <1>2, SeenStays

\* A step that only marks try or finally keeps PassInv.
LEMMA MarkerMoves ==
    ASSUME ProbePlaced, PassInv, Observe, NEW p \in Procs, Marker(p)
    PROVE  Moves(p)
<1>1. PICK n \in Spots : Here(p, n) /\ n \in {5, 37, 30, 44}
  <2>1. Course(p) /\ {"try", "finally"} \subseteq Words
    BY DEF PassInv, Words
  <2>2. \E n \in Spots : Here(p, n) /\ (ProbeAt(n, "try", "h2a") \/ ProbeAt(n, "finally", "h2a"))
    BY <2>1, OnCourse DEF Marker
  <2>. QED
    BY <2>2 DEF ProbeAt
<1>2. Go(p) /\ UNCHANGED probe
  BY DEF Marker
<1>3. n \notin {6, 12, 15, 19, 25, 27, 29, 32, 38, 39, 41, 43, 46} /\ n \notin {4, 32, 36, 46}
  BY <1>1
<1>4. p \notin failed => CourseAt(p, n + 1)
  BY <1>1, <1>3, CourseOn DEF Here
<1>5. Verified(n + 1) => p \in seen'
  BY <1>1, <1>3, SeenOn
<1>. QED
  BY <1>1, <1>2, <1>3, <1>4, <1>5, QuietMove

\* The verify under the lock has a complete installation before its eyes.
LEMMA VerifyMoves ==
    ASSUME ProbePlaced, PassInv, Observe, NEW p \in Procs, VerifyInstalled(p)
    PROVE  Moves(p)
<1>1. PICK n \in Spots : Here(p, n) /\ n \in {1, 4, 18, 31, 33, 36, 45}
  <2>1. Course(p) /\ "verify" \in Words
    BY DEF PassInv, Words
  <2>2. \E n \in Spots : Here(p, n) /\ ProbeAt(n, "verify", "h2a")
    BY <2>1, OnCourse DEF VerifyInstalled
  <2>. QED
    BY <2>2 DEF ProbeAt
<1>2. Go(p) /\ UNCHANGED probe /\ InPlace
  BY DEF VerifyInstalled, Complete
<1>3. n \notin {6, 12, 15, 19, 25, 27, 29, 32, 38, 39, 41, 43, 46}
  BY <1>1
<1>4. p \notin failed => CourseAt(p, n + 1)
  BY <1>1, <1>3, CourseOn DEF Here
<1>5. InPlace'
  BY <1>2 DEF Go, host, InPlace, ReceiptReadable, AllFiles
<1>6. p \in seen'
  <2>1. proc'[p].todo # <<>>
    BY <1>1, <1>2, <1>3, GoOn
  <2>. QED
    BY <1>5, <2>1 DEF Observe
<1>. QED
  BY <1>1, <1>2, <1>3, <1>4, <1>6, QuietMove

\* A step that only looks at a unit keeps PassInv.
LEMMA WatchMoves ==
    ASSUME ProbePlaced, PassInv, Observe, NEW p \in Procs,
           ready(p) \/ active(p) \/ observe_processes(p) \/ CleanupGone(p)
    PROVE  Moves(p)
<1>1. PICK n \in Spots : Here(p, n) /\ n \in {7, 20, 8, 10, 21, 24, 9, 22, 16, 28, 42}
  <2>1. Course(p) /\ {"ready", "active", "observe", "cleanup"} \subseteq Words
    BY DEF PassInv, Words
  <2>2. \E n \in Spots : /\ Here(p, n)
                         /\ \/ ProbeAt(n, "ready", "tree") \/ ProbeAt(n, "active", "unit")
                            \/ ProbeAt(n, "observe", "tree") \/ ProbeAt(n, "cleanup", "gone")
    <3>1. CASE ready(p)
      BY <2>1, <3>1, OnCourse DEF ready
    <3>2. CASE active(p)
      BY <2>1, <3>2, OnCourse DEF active
    <3>3. CASE observe_processes(p)
      BY <2>1, <3>3, OnCourse DEF observe_processes
    <3>4. CASE CleanupGone(p)
      BY <2>1, <3>4, OnCourse DEF CleanupGone
    <3>. QED
      BY <3>1, <3>2, <3>3, <3>4
  <2>. QED
    BY <2>2 DEF ProbeAt
<1>2. Go(p) /\ UNCHANGED probe
  BY DEF ready, active, observe_processes, CleanupGone
<1>3. n \notin {6, 12, 15, 19, 25, 27, 29, 32, 38, 39, 41, 43, 46} /\ n \notin {4, 32, 36, 46}
  BY <1>1
<1>4. p \notin failed => CourseAt(p, n + 1)
  BY <1>1, <1>3, CourseOn DEF Here
<1>5. Verified(n + 1) => p \in seen'
  BY <1>1, <1>3, SeenOn
<1>. QED
  BY <1>1, <1>2, <1>3, <1>4, <1>5, QuietMove

\* The manager has ended the unit for the reason under test.
LEMMA FailureMoves ==
    ASSUME ProbePlaced, PassInv, Observe, NEW p \in Procs, wait_failure(p)
    PROVE  Moves(p)
<1>1. PICK reason \in {"signal", "timeout"} :
        At(p, "await", reason) /\ Mine(p).result = reason
  BY DEF wait_failure
<1>2. PICK n \in Spots : Here(p, n) /\ ((reason = "signal" /\ n = 12) \/ (reason = "timeout" /\ n = 25))
  <2>1. Course(p) /\ "await" \in Words
    BY DEF PassInv, Words
  <2>2. \E n \in Spots : Here(p, n) /\ ProbeAt(n, "await", reason)
    BY <1>1, <2>1, OnCourse
  <2>3. ASSUME NEW n \in Spots, ProbeAt(n, "await", reason)
        PROVE  (reason = "signal" /\ n = 12) \/ (reason = "timeout" /\ n = 25)
    <3>1. CASE reason = "signal"
      BY <2>3, <3>1 DEF ProbeAt
    <3>2. CASE reason = "timeout"
      BY <2>3, <3>2 DEF ProbeAt
    <3>. QED
      BY <1>1, <3>1, <3>2
  <2>. QED
    BY <2>2, <2>3
<1>3. Go(p) /\ UNCHANGED probe /\ Failing(p, reason)
  BY <1>1 DEF wait_failure, Failing
<1>4. CASE n = 12 /\ reason = "signal"
  <2>1. ASSUME p \notin failed PROVE CourseAt(p, 13)
    <3>1. CourseAt(p, 12)
      BY <1>2, <1>4, <2>1 DEF Here
    <3>2. Len(names[p]) = 1
      BY <3>1 DEF CourseAt
    <3>. QED
      BY <1>3, <1>4, <3>2 DEF CourseAt
  <2>2. Verified(n + 1) => p \in seen'
    BY <1>2, <1>4, SeenOn
  <2>3. n + 1 = 13 /\ n \notin {32, 46}
    BY <1>4
  <2>. QED
    BY <1>2, <1>3, <2>1, <2>2, <2>3, QuietMove
<1>5. CASE n = 25 /\ reason = "timeout"
  <2>1. ASSUME p \notin failed PROVE CourseAt(p, 26)
    <3>1. CourseAt(p, 25)
      BY <1>2, <1>5, <2>1 DEF Here
    <3>2. Len(names[p]) = 2 /\ Ended(p, 1, "signal")
      BY <3>1 DEF CourseAt
    <3>. QED
      BY <1>3, <1>5, <3>2 DEF CourseAt
  <2>2. Verified(n + 1) => p \in seen'
    BY <1>2, <1>5, SeenOn
  <2>3. n + 1 = 26 /\ n \notin {32, 46}
    BY <1>5
  <2>. QED
    BY <1>2, <1>3, <2>1, <2>2, <2>3, QuietMove
<1>. QED
  BY <1>2, <1>4, <1>5

\* With its launcher gone a unit is over; the sandbox unit ended by itself.
LEMMA LauncherMoves ==
    ASSUME ProbePlaced, PassInv, Observe, NEW p \in Procs, LauncherEnds(p)
    PROVE  Moves(p)
<1>1. PICK n \in Spots : Here(p, n) /\ (n = 13 \/ (n = 39 /\ Mine(p).result = "success"))
  <2>1. Course(p) /\ "await" \in Words
    BY DEF PassInv, Words
  <2>2. \E n \in Spots : Here(p, n) /\ (ProbeAt(n, "await", "exit")
                                          \/ (ProbeAt(n, "await", "success") /\ Mine(p).result = "success"))
    <3>1. CASE At(p, "await", "exit")
      BY <2>1, <3>1, OnCourse
    <3>2. CASE At(p, "await", "success") /\ Mine(p).result = "success"
      BY <2>1, <3>2, OnCourse
    <3>. QED
      BY <3>1, <3>2 DEF LauncherEnds
  <2>. QED
    BY <2>2 DEF ProbeAt
<1>2. Go(p) /\ UNCHANGED probe /\ launcher[p] = "exited"
  BY DEF LauncherEnds
<1>3. CASE n = 13
  <2>1. p \notin failed => CourseAt(p, n + 1)
    BY <1>1, <1>3, CourseOn DEF Here
  <2>2. Verified(n + 1) => p \in seen'
    BY <1>1, <1>3, SeenOn
  <2>3. n \notin {32, 46}
    BY <1>3
  <2>. QED
    BY <1>1, <1>2, <2>1, <2>2, <2>3, QuietMove
<1>4. CASE n = 39 /\ Mine(p).result = "success"
  <2>1. ASSUME p \notin failed PROVE CourseAt(p, 40)
    <3>1. CourseAt(p, 39)
      BY <1>1, <1>4, <2>1 DEF Here
    <3>2. Len(names[p]) = 1 /\ ~Mine(p).tree
      BY <3>1 DEF CourseAt
    <3>3. Mine(p).phase \in {"absent", "failed"}
      BY <1>2 DEF PassInv, UnitsInv
    <3>4. names[p] # <<>> => Name(p) \in Names /\ Mine(p) = units[Name(p)]
      BY NamesOf DEF PassInv
    <3>5. names[p] # <<>>
      BY <3>2
    <3>6. UnitSound(Mine(p))
      BY <3>4, <3>5 DEF PassInv, UnitsInv
    <3>7. reaped(Mine(p))
      BY <3>2, <3>3, <3>6 DEF UnitSound, reaped
    <3>. QED
      BY <1>4, <3>2, <3>3, <3>7 DEF CourseAt
  <2>2. Verified(n + 1) => p \in seen'
    BY <1>1, <1>4, SeenOn
  <2>3. n + 1 = 40 /\ n \notin {32, 46}
    BY <1>4
  <2>. QED
    BY <1>1, <1>2, <2>1, <2>2, <2>3, QuietMove
<1>. QED
  BY <1>1, <1>3, <1>4

(***************************************************************************)
(* The steps that change the probe's last unit.                            *)
(***************************************************************************)
LEMMA MyUnit ==
    ASSUME PassInv, NEW p \in Procs, Mine(p).phase # "absent"
    PROVE  /\ names[p] # <<>> /\ Name(p) \in Names /\ Mine(p) = units[Name(p)]
           /\ Mine(p) \in UnitType /\ UnitSound(Mine(p))
<1>1. names[p] # <<>>
  <2>1. names[p] = <<>> => Mine(p) = NoUnit
    BY NamesOf DEF PassInv
  <2>. QED
    BY <2>1 DEF NoUnit
<1>2. Name(p) \in Names /\ Mine(p) = units[Name(p)]
  BY <1>1, NamesOf DEF PassInv
<1>. QED
  BY <1>1, <1>2 DEF PassInv, UnitsInv

\* One sound unit replaced leaves all units sound.
LEMMA UnitSet ==
    ASSUME PassInv, NEW k \in Names, NEW v \in UnitType, UnitSound(v), units' = [units EXCEPT ![k] = v]
    PROVE  /\ Sound(units') /\ units'[k] = v
           /\ \A j \in Names : j # k => units'[j] = units[j]
<1>1. units \in [Names -> UnitType] /\ \A j \in Names : UnitSound(units[j])
  BY DEF PassInv, UnitsInv
<1>2. units'[k] = v /\ \A j \in Names : j # k => units'[j] = units[j]
  BY <1>1
<1>3. units' \in [Names -> UnitType]
  BY <1>1
<1>4. \A j \in Names : UnitSound(units'[j])
  BY <1>1, <1>2
<1>. QED
  BY <1>2, <1>3, <1>4 DEF Sound

\* A probe's step on its current unit is its own, when the new spot's
\* knowledge holds of it.
LEMMA UnitMove ==
    ASSUME ProbePlaced, PassInv, Observe, NEW p \in Procs, NEW n \in Spots, n \notin {32, 46}, Here(p, n),
           Go(p), UNCHANGED <<made, launcher, names, failed>>, Sound(units'),
           \A j \in Names : j # Name(p) => units'[j] = units[j],
           launcher[p] = "exited" => Mine(p)'.phase \in {"absent", "failed"},
           Verified(n + 1) => p \in seen', p \notin failed => CourseAt(p, n + 1)'
    PROVE  Moves(p)
<1>1. /\ proc'[p].todo = Rest(n + 1) /\ n + 1 \in Spots
      /\ \A q \in Procs \ {p} : proc'[q] = proc[q]
      /\ UNCHANGED answer /\ answer'[p] = "none"
  BY GoOn
<1>2. Here(p, n + 1)'
  BY <1>1 DEF Here
<1>3. Course(p)' /\ Earned(p)'
  BY <1>1, <1>2, Arrival
<1>4. Local(p)
  BY <1>1 DEF Local, Still
<1>5. NamesInv' /\ launcher' \in LauncherType
  BY DEF PassInv, NamesInv, UnitsInv, LauncherType
<1>. QED
  BY <1>3, <1>4, <1>5 DEF Moves

\* The unit of a probe after its last unit became v.
LEMMA MineSet ==
    ASSUME NEW p \in Procs, UNCHANGED names, Name(p) # 0, NEW v, units'[Name(p)] = v
    PROVE  Mine(p)' = v
<1>1. Name(p)' = Name(p)
  BY DEF Name
<1>. QED
  BY <1>1 DEF Mine

\* The fault on the unit's main process keeps PassInv.
LEMMA FaultMainMoves ==
    ASSUME ProbePlaced, PassInv, Observe, NEW p \in Procs, FaultMain(p)
    PROVE  Moves(p)
<1>1. Here(p, 11) /\ 11 \in Spots
  <2>1. Course(p) /\ "fault" \in Words
    BY DEF PassInv, Words
  <2>2. \E n \in Spots : Here(p, n) /\ ProbeAt(n, "fault", "main")
    BY <2>1, OnCourse DEF FaultMain
  <2>. QED
    BY <2>2 DEF ProbeAt
<1>2. Go(p) /\ UNCHANGED <<made, launcher, names, failed>> /\ Mine(p).phase = "active"
  BY DEF FaultMain
<1>3. Name(p) \in Names /\ Name(p) # 0 /\ Mine(p) = units[Name(p)] /\ Mine(p) \in UnitType /\ UnitSound(Mine(p))
  BY <1>2, MyUnit DEF Names
<1>4. PICK v : /\ units' = [units EXCEPT ![Name(p)] = v]
               /\ v = IF Mine(p).main = "live" THEN [Mine(p) EXCEPT !.main = "zombie", !.result = "signal"]
                                               ELSE Mine(p)
  BY DEF FaultMain, SetUnit
<1>5. v \in UnitType /\ v.phase = "active"
  BY <1>2, <1>3, <1>4 DEF UnitType
<1>6. UnitSound(v)
  BY <1>2, <1>3, <1>4 DEF UnitSound, UnitType
<1>7. Sound(units') /\ \A j \in Names : j # Name(p) => units'[j] = units[j]
  BY <1>3, <1>4, <1>5, <1>6, UnitSet
<1>8. launcher[p] # "exited"
  BY <1>2 DEF PassInv, UnitsInv
<1>9. Verified(12) => p \in seen'
  <2>1. 11 + 1 = 12 /\ 11 \notin {4, 32, 36, 46}
    OBVIOUS
  <2>. QED
    BY <1>1, <2>1, SeenOn
<1>10. ASSUME p \notin failed PROVE CourseAt(p, 12)'
  <2>1. CourseAt(p, 11)
    BY <1>1, <1>10 DEF Here
  <2>2. Len(names'[p]) = 1
    BY <1>2, <2>1 DEF CourseAt
  <2>. QED
    BY <2>2 DEF CourseAt
<1>11. 11 + 1 = 12 /\ 11 \notin {32, 46}
  OBVIOUS
<1>. QED
  BY <1>1, <1>2, <1>7, <1>8, <1>9, <1>10, <1>11, UnitMove

\* Only a case that failed still has its unit running when the cleanup begins.
LEMMA StopMoves ==
    ASSUME ProbePlaced, PassInv, Observe, NEW p \in Procs, CleanupStop(p)
    PROVE  Moves(p)
<1>1. PICK n \in Spots : Here(p, n) /\ n \in {14, 26, 40}
  <2>1. Course(p) /\ "cleanup" \in Words
    BY DEF PassInv, Words
  <2>2. \E n \in Spots : Here(p, n) /\ ProbeAt(n, "cleanup", "stop")
    BY <2>1, OnCourse DEF CleanupStop
  <2>. QED
    BY <2>2 DEF ProbeAt
<1>2. Go(p) /\ UNCHANGED <<made, launcher, names, failed>>
  BY DEF CleanupStop
<1>3. n \notin {6, 12, 15, 19, 25, 27, 29, 32, 38, 39, 41, 43, 46} /\ n \notin {4, 32, 36, 46}
  BY <1>1
<1>4. Verified(n + 1) => p \in seen'
  BY <1>1, <1>3, SeenOn
<1>5. CASE Mine(p).phase # "active"
  <2>1. UNCHANGED probe
    BY <1>2, <1>5 DEF CleanupStop, probe
  <2>2. p \notin failed => CourseAt(p, n + 1)
    BY <1>1, <1>3, CourseOn DEF Here
  <2>. QED
    BY <1>1, <1>2, <1>3, <1>4, <2>1, <2>2, QuietMove
<1>6. CASE Mine(p).phase = "active"
  <2>1. p \in failed
    <3>1. SUFFICES ASSUME CourseAt(p, n) PROVE FALSE
      BY <1>1 DEF Here
    <3>2. CASE n = 14
      BY <1>6, <3>1, <3>2 DEF CourseAt, Failing
    <3>3. CASE n = 26
      BY <1>6, <3>1, <3>3 DEF CourseAt, Failing
    <3>4. CASE n = 40
      BY <1>6, <3>1, <3>4 DEF CourseAt
    <3>. QED
      BY <1>1, <3>2, <3>3, <3>4
  <2>2. Name(p) \in Names /\ Mine(p) = units[Name(p)] /\ Mine(p) \in UnitType /\ UnitSound(Mine(p))
    BY <1>6, MyUnit
  <2>3. PICK v : v = [Mine(p) EXCEPT !.phase = "stopping", !.result = "stopped"]
    OBVIOUS
  <2>4. units' = [units EXCEPT ![Name(p)] = v]
    BY <1>6, <2>2, <2>3 DEF CleanupStop
  <2>5. v \in UnitType
    BY <2>2, <2>3 DEF UnitType
  <2>6. UnitSound(v)
    BY <1>6, <2>2, <2>3 DEF UnitSound, UnitType
  <2>7. Sound(units') /\ \A j \in Names : j # Name(p) => units'[j] = units[j]
    BY <2>2, <2>4, <2>5, <2>6, UnitSet
  <2>8. launcher[p] # "exited"
    BY <1>6 DEF PassInv, UnitsInv
  <2>. QED
    BY <1>1, <1>2, <1>3, <1>4, <2>1, <2>7, <2>8, UnitMove
<1>. QED
  BY <1>5, <1>6

\* reset-failed unloads the unit, whose reason stays known.
LEMMA ResetMoves ==
    ASSUME ProbePlaced, PassInv, Observe, NEW p \in Procs, CleanupReset(p)
    PROVE  Moves(p)
<1>1. PICK n \in Spots : Here(p, n) /\ n \in {15, 27, 41}
  <2>1. Course(p) /\ "cleanup" \in Words
    BY DEF PassInv, Words
  <2>2. \E n \in Spots : Here(p, n) /\ ProbeAt(n, "cleanup", "reset")
    BY <2>1, OnCourse DEF CleanupReset
  <2>. QED
    BY <2>2 DEF ProbeAt
<1>2. Go(p) /\ UNCHANGED <<made, launcher, names, failed>> /\ Mine(p).phase \notin {"active", "stopping"}
  BY DEF CleanupReset
<1>3. n \notin {4, 32, 36, 46}
  BY <1>1
<1>4. Verified(n + 1) => p \in seen'
  BY <1>1, <1>3, SeenOn
<1>5. p \notin failed => CourseAt(p, n)
  BY <1>1 DEF Here
<1>6. DOMAIN names[p] = 1..Len(names[p]) /\ (names[p] # <<>> => Name(p) = names[p][Len(names[p])] /\ Mine(p) = units[Name(p)])
  BY NamesOf DEF PassInv
<1>7. CASE ~Known(Mine(p))
  <2>1. UNCHANGED probe
    BY <1>2, <1>7 DEF CleanupReset, probe
  <2>2. ASSUME p \notin failed PROVE CourseAt(p, n + 1)
    <3>1. n # 15
      BY <1>5, <1>7, <2>2 DEF CourseAt, Failing, Known
    <3>2. n # 27
      BY <1>5, <1>7, <2>2 DEF CourseAt, Failing, Known
    <3>3. n = 41
      BY <1>1, <3>1, <3>2
    <3>4. Len(names[p]) = 1 /\ Mine(p).phase \in {"absent", "failed"} /\ reaped(Mine(p)) /\ Mine(p).result = "success"
      BY <1>5, <2>2, <3>3 DEF CourseAt
    <3>5. units[names[p][1]] = Mine(p) /\ Mine(p).phase = "absent"
      BY <1>6, <1>7, <3>4 DEF Known
    <3>6. Ended(p, 1, "success")
      BY <3>4, <3>5 DEF Ended, Gone
    <3>7. CourseAt(p, 42)
      BY <3>4, <3>6 DEF CourseAt
    <3>. QED
      BY <3>3, <3>7
  <2>. QED
    BY <1>1, <1>2, <1>3, <1>4, <2>1, <2>2, QuietMove
<1>8. CASE Known(Mine(p))
  <2>1. Mine(p).phase # "absent"
    BY <1>8 DEF Known
  <2>2. /\ names[p] # <<>> /\ Name(p) \in Names /\ Name(p) # 0 /\ Mine(p) = units[Name(p)]
        /\ Mine(p) \in UnitType /\ UnitSound(Mine(p))
    BY <2>1, MyUnit DEF Names
  <2>3. Mine(p).phase = "failed"
    BY <1>2, <1>8, <2>2 DEF Known, UnitType
  <2>4. PICK v : v = [Mine(p) EXCEPT !.phase = "absent"]
    OBVIOUS
  <2>5. units' = [units EXCEPT ![Name(p)] = v]
    BY <1>8, <2>2, <2>4 DEF CleanupReset
  <2>6. v \in UnitType /\ v.phase = "absent" /\ v.result = Mine(p).result /\ (reaped(Mine(p)) => reaped(v))
    BY <2>2, <2>4 DEF UnitType, reaped
  <2>7. UnitSound(v)
    BY <2>2, <2>3, <2>4 DEF UnitSound, UnitType
  <2>8. Sound(units') /\ units'[Name(p)] = v /\ \A j \in Names : j # Name(p) => units'[j] = units[j]
    BY <2>2, <2>5, <2>6, <2>7, UnitSet
  <2>9. Mine(p)'.phase = "absent"
    BY <1>2, <2>2, <2>6, <2>8, MineSet
  <2>10. ASSUME p \notin failed PROVE CourseAt(p, n + 1)'
    <3>1. CASE n = 15
      <4>1. Len(names[p]) = 1 /\ Failing(p, "signal")
        BY <1>5, <2>10, <3>1 DEF CourseAt
      <4>2. units'[names'[p][1]] = v
        BY <1>2, <1>6, <2>2, <2>8, <4>1
      <4>3. Ended(p, 1, "signal")'
        BY <2>6, <4>1, <4>2 DEF Ended, Gone, Failing
      <4>4. CourseAt(p, 16)'
        BY <1>2, <4>1, <4>3 DEF CourseAt
      <4>. QED
        BY <3>1, <4>4
    <3>2. CASE n = 27
      <4>1. Len(names[p]) = 2 /\ Ended(p, 1, "signal") /\ Failing(p, "timeout")
        BY <1>5, <2>10, <3>2 DEF CourseAt
      <4>2. names[p][1] \in Names /\ names[p][2] = Name(p) /\ names[p][1] # names[p][2]
        <5>1. 1 \in DOMAIN names[p] /\ 2 \in DOMAIN names[p]
          BY <1>6, <4>1
        <5>2. names[p][1] \in Names
          BY <5>1, NamesOf DEF PassInv
        <5>3. names[p][2] = Name(p)
          BY <1>6, <2>2, <4>1
        <5>. QED
          BY <5>1, <5>2, <5>3 DEF PassInv, NamesInv
      <4>3. units'[names'[p][2]] = v /\ units'[names'[p][1]] = units[names[p][1]]
        BY <1>2, <2>8, <4>2
      <4>4. Ended(p, 2, "timeout")'
        BY <2>6, <4>1, <4>3 DEF Ended, Gone, Failing
      <4>5. Ended(p, 1, "signal")'
        BY <4>1, <4>3 DEF Ended
      <4>6. CourseAt(p, 28)'
        BY <1>2, <4>1, <4>4, <4>5 DEF CourseAt
      <4>. QED
        BY <3>2, <4>6
    <3>3. CASE n = 41
      <4>1. Len(names[p]) = 1 /\ reaped(Mine(p)) /\ Mine(p).result = "success"
        BY <1>5, <2>10, <3>3 DEF CourseAt
      <4>2. units'[names'[p][1]] = v
        BY <1>2, <1>6, <2>2, <2>8, <4>1
      <4>3. Ended(p, 1, "success")'
        BY <2>6, <4>1, <4>2 DEF Ended, Gone
      <4>4. CourseAt(p, 42)'
        BY <1>2, <4>1, <4>3 DEF CourseAt
      <4>. QED
        BY <3>3, <4>4
    <3>. QED
      BY <1>1, <3>1, <3>2, <3>3
  <2>. QED
    BY <1>1, <1>2, <1>3, <1>4, <2>8, <2>9, <2>10, UnitMove
<1>. QED
  BY <1>7, <1>8

(***************************************************************************)
(* The launcher is killed, or reaped in the innermost finally.             *)
(***************************************************************************)
LEMMA FaultLauncherMoves ==
    ASSUME ProbePlaced, PassInv, Observe, NEW p \in Procs, FaultLauncher(p)
    PROVE  Moves(p)
<1>1. Here(p, 23) /\ 23 \in Spots
  <2>1. Course(p) /\ "fault" \in Words
    BY DEF PassInv, Words
  <2>2. \E n \in Spots : Here(p, n) /\ ProbeAt(n, "fault", "launcher")
    BY <2>1, OnCourse DEF FaultLauncher
  <2>. QED
    BY <2>2 DEF ProbeAt
<1>2. Go(p) /\ UNCHANGED <<units, made, names, failed>> /\ launcher' = [launcher EXCEPT ![p] = "killed"]
  BY DEF FaultLauncher
<1>3. 23 + 1 = 24 /\ 23 \notin {4, 32, 36, 46}
  OBVIOUS
<1>4. /\ proc'[p].todo = Rest(24) /\ 24 \in Spots
      /\ \A q \in Procs \ {p} : proc'[q] = proc[q]
      /\ UNCHANGED answer /\ answer'[p] = "none"
  BY <1>1, <1>2, <1>3, GoOn
<1>5. Verified(24) => p \in seen'
  BY <1>1, <1>3, SeenOn
<1>6. launcher \in LauncherType
  BY DEF PassInv, UnitsInv, LauncherType
<1>7. launcher' \in LauncherType /\ launcher'[p] = "killed" /\ \A q \in Procs \ {p} : launcher'[q] = launcher[q]
  BY <1>2, <1>6 DEF LauncherType
<1>8. p \notin failed' => CourseAt(p, 24)'
  <2>1. p \notin failed => CourseAt(p, 24)
    BY <1>1, <1>3, CourseOn DEF Here
  <2>2. 24 \notin 30..32 \cup 44..46
    OBVIOUS
  <2>. QED
    BY <1>2, <1>4, <2>1, <2>2, CourseSame
<1>9. Here(p, 24)'
  BY <1>4, <1>5, <1>8 DEF Here
<1>10. Course(p)' /\ Earned(p)'
  BY <1>4, <1>9, Arrival
<1>11. Local(p)
  BY <1>2, <1>4, <1>7 DEF Local, Still
<1>12. NamesInv' /\ Sound(units')
  BY <1>2 DEF PassInv, NamesInv, UnitsInv, Sound
<1>. QED
  BY <1>7, <1>10, <1>11, <1>12 DEF Moves

(***************************************************************************)
(* An exception, the innermost finally, and the end.                       *)
(***************************************************************************)
\* p goes to spot m without touching a unit.
LEMMA JumpMoves ==
    ASSUME ProbePlaced, PassInv, Observe, NEW p \in Procs, NEW m \in Spots, proc'[p].todo = Rest(m),
           \A q \in Procs \ {p} : proc'[q] = proc[q], UNCHANGED <<answer, units, made, names>>,
           answer[p] = "none", launcher' \in LauncherType,
           \A q \in Procs \ {p} : launcher'[q] = launcher[q], launcher'[p] \in {launcher[p], "none"},
           \A q \in Procs \ {p} : q \in failed => q \in failed',
           Verified(m) => p \in seen', p \notin failed' => CourseAt(p, m)'
    PROVE  Moves(p)
<1>1. Here(p, m)'
  BY DEF Here
<1>2. Course(p)' /\ Earned(p)'
  BY <1>1, Arrival
<1>3. Local(p)
  BY DEF Local, Still
<1>4. NamesInv' /\ Sound(units')
  BY DEF PassInv, NamesInv, UnitsInv, Sound
<1>5. Mine(p)' = Mine(p)
  BY DEF Mine, Name
<1>. QED
  BY <1>2, <1>3, <1>4, <1>5 DEF Moves, PassInv, UnitsInv

\* A process that forgets its names takes them from no other.
LEMMA NamesDropped ==
    ASSUME NamesInv, NEW p \in Procs, UNCHANGED made,
           UNCHANGED names \/ names' = [names EXCEPT ![p] = <<>>]
    PROVE  /\ NamesInv' /\ names'[p] \in {names[p], <<>>}
           /\ \A q \in Procs \ {p} : names'[q] = names[q]
<1>1. names \in [Procs -> Seq(1..made)] /\ made \in 0..MaxUnits
  BY DEF NamesInv
<1>2. /\ names' \in [Procs -> Seq(1..made)] /\ names'[p] \in {names[p], <<>>}
      /\ \A q \in Procs \ {p} : names'[q] = names[q]
  <2>1. <<>> \in Seq(1..made)
    OBVIOUS
  <2>. QED
    BY <1>1, <2>1
<1>3. NamesInv'
  <2>1. \A q \in Procs : \A i \in DOMAIN names'[q] : i \in DOMAIN names[q] /\ names'[q][i] = names[q][i]
    <3>1. \A i \in DOMAIN <<>> : FALSE
      OBVIOUS
    <3>. QED
      BY <1>2, <3>1
  <2>2. \A q \in Procs : \A i, j \in DOMAIN names'[q] : i # j => names'[q][i] # names'[q][j]
    BY <2>1 DEF NamesInv
  <2>3. \A q, r \in Procs : q # r =>
          \A i \in DOMAIN names'[q], j \in DOMAIN names'[r] : names'[q][i] # names'[r][j]
    BY <2>1 DEF NamesInv
  <2>. QED
    BY <1>1, <1>2, <2>2, <2>3 DEF NamesInv
<1>. QED
  BY <1>2, <1>3

\* p is no longer a probe; what it may have dropped are its names.
LEMMA LeaveMoves ==
    ASSUME ProbePlaced, PassInv, NEW p \in Procs, proc' = [proc EXCEPT ![p] = Idle],
           \A q \in Procs \ {p} : answer'[q] = answer[q], UNCHANGED <<units, made, launcher>>,
           UNCHANGED names \/ names' = [names EXCEPT ![p] = <<>>],
           failed' \in {failed, failed \ {p}}, Earned(p)'
    PROVE  Moves(p)
<1>1. proc = [q \in Procs |-> proc[q]]
  BY DEF ProbePlaced
<1>2. proc'[p] = Idle /\ \A q \in Procs \ {p} : proc'[q] = proc[q]
  BY <1>1
<1>3. NamesInv' /\ names'[p] \in {names[p], <<>>} /\ \A q \in Procs \ {p} : names'[q] = names[q]
  BY NamesDropped DEF PassInv
<1>4. Course(p)'
  <2>1. ~Contains(<<>>, <<"report", "ok">>)
    BY EmptySeq DEF Contains
  <2>2. Idle.todo = <<>>
    BY DEF Idle
  <2>3. ~Probing(p)'
    BY <1>2, <2>1, <2>2 DEF Probing
  <2>. QED
    BY <2>3 DEF Course
<1>5. Local(p)
  BY <1>2, <1>3 DEF Local, Still
<1>6. Sound(units') /\ launcher' \in LauncherType
  BY DEF PassInv, UnitsInv, Sound, LauncherType
<1>7. launcher'[p] = "exited" => Mine(p)'.phase \in {"absent", "failed"}
  <2>1. CASE names'[p] = names[p]
    <3>1. Mine(p)' = Mine(p)
      BY <2>1 DEF Mine, Name
    <3>. QED
      BY <3>1 DEF PassInv, UnitsInv
  <2>2. CASE names'[p] = <<>>
    <3>1. Name(p)' = 0
      BY <2>2 DEF Name
    <3>2. Mine(p)' = NoUnit
      BY <3>1 DEF Mine
    <3>. QED
      BY <3>2 DEF NoUnit
  <2>. QED
    BY <1>3, <2>1, <2>2
<1>. QED
  BY <1>3, <1>4, <1>5, <1>6, <1>7 DEF Moves

\* The wait for the launcher keeps PassInv.
LEMMA ReapMoves ==
    ASSUME ProbePlaced, PassInv, Observe, NEW p \in Procs, ReapLauncher(p)
    PROVE  Moves(p)
<1>1. PICK n \in Spots : Here(p, n) /\ n \in {17, 29, 43}
  <2>1. Course(p) /\ "reap" \in Words
    BY DEF PassInv, Words
  <2>2. \E n \in Spots : Here(p, n) /\ ProbeAt(n, "reap", "launcher")
    BY <2>1, OnCourse DEF ReapLauncher
  <2>. QED
    BY <2>2 DEF ProbeAt
<1>2. UNCHANGED <<answer, units, made, names, failed>> /\ launcher' = [launcher EXCEPT ![p] = "none"]
  BY DEF ReapLauncher
<1>3. proc[p].todo = Rest(n) /\ answer[p] = "none" /\ Rest(n) # <<>>
  BY <1>1, BarOf, Remaining DEF Here
<1>4. IsProc(proc[p]) /\ proc = [q \in Procs |-> proc[q]]
  BY DEF ProbePlaced
<1>5. PICK t : t = IF p \in failed THEN From(Rest(n), <<"finally", "h2a">>) ELSE Tail(Rest(n))
  OBVIOUS
<1>6. proc'[p].todo = t /\ \A q \in Procs \ {p} : proc'[q] = proc[q]
  <2>1. proc' = [proc EXCEPT ![p].todo = t]
    BY <1>3, <1>5 DEF ReapLauncher
  <2>2. proc'[p] = [proc[p] EXCEPT !.todo = t] /\ \A q \in Procs \ {p} : proc'[q] = proc[q]
    BY <1>4, <2>1
  <2>. QED
    BY <1>4, <2>2, ProcTodo
<1>7. launcher' \in LauncherType /\ launcher'[p] = "none" /\ \A q \in Procs \ {p} : launcher'[q] = launcher[q]
  BY <1>2 DEF PassInv, UnitsInv, LauncherType
<1>8. p \in seen'
  <2>1. Verified(n)
    BY <1>1 DEF Verified
  <2>2. p \in seen
    BY <1>1, <2>1 DEF Here
  <2>. QED
    BY <1>3, <2>2, SeenStays
<1>9. CASE p \in failed
  <2>1. PICK m \in Spots : t = Rest(m)
    <3>1. t = From(Rest(n), <<"finally", "h2a">>)
      BY <1>5, <1>9
    <3>2. CASE n \in {17, 29}
      <4>1. n \in {17, 18, 29, 30}
        BY <3>2
      <4>2. From(Rest(n), <<"finally", "h2a">>) = Rest(30)
        BY <4>1, FromAt
      <4>3. 30 \in Spots
        BY DEF Spots
      <4>. QED
        BY <3>1, <4>2, <4>3
    <3>3. CASE n = 43
      <4>1. t = Rest(44) /\ 44 \in Spots
        BY <3>1, <3>3, FromAt DEF Spots
      <4>. QED
        BY <4>1
    <3>. QED
      BY <1>1, <3>2, <3>3
  <2>. QED
    BY <1>2, <1>3, <1>6, <1>7, <1>8, <1>9, <2>1, JumpMoves
<1>10. CASE p \notin failed
  <2>1. n \notin {32, 46}
    BY <1>1
  <2>2. t = Rest(n + 1) /\ n + 1 \in Spots
    BY <1>5, <1>10, <2>1, Remaining
  <2>3. CourseAt(p, n)
    BY <1>1, <1>10 DEF Here
  <2>4. CourseAt(p, n + 1)'
    <3>1. CASE n = 17
      <4>1. n \notin {6, 12, 15, 19, 25, 27, 29, 32, 38, 39, 41, 43, 46}
        BY <3>1
      <4>2. CourseAt(p, n + 1)
        BY <2>3, <4>1, CourseOn
      <4>. QED
        BY <1>2, <1>7, <2>2, <4>2, CourseSame
    <3>2. CASE n = 29
      <4>1. Len(names'[p]) = 2 /\ Ended(p, 1, "signal")' /\ Ended(p, 2, "timeout")'
        BY <1>2, <2>3, <3>2 DEF CourseAt, Ended
      <4>2. CourseAt(p, 30)'
        BY <1>7, <4>1 DEF CourseAt
      <4>. QED
        BY <3>2, <4>2
    <3>3. CASE n = 43
      <4>1. Len(names'[p]) = 1 /\ Ended(p, 1, "success")'
        BY <1>2, <2>3, <3>3 DEF CourseAt, Ended
      <4>2. CourseAt(p, 44)'
        BY <1>7, <4>1 DEF CourseAt
      <4>. QED
        BY <3>3, <4>2
    <3>. QED
      BY <1>1, <3>1, <3>2, <3>3
  <2>. QED
    BY <1>2, <1>3, <1>6, <1>7, <1>8, <2>2, <2>4, JumpMoves
<1>. QED
  BY <1>9, <1>10

\* A probe whose unit did not do what was asked goes on marked as failed.
LEMMA RaiseMoves ==
    ASSUME ProbePlaced, PassInv, Observe, NEW p \in Procs, Raise(p)
    PROVE  Moves(p)
<1>1. PICK n \in Spots : Here(p, n)
  BY DEF PassInv, Course, Raise
<1>2. UNCHANGED <<answer, units, made, launcher, names>>
  BY DEF Raise
<1>3. proc[p].todo = Rest(n) /\ answer[p] = "none" /\ Rest(n) # <<>>
  BY <1>1, BarOf, Remaining DEF Here
<1>4. IsProc(proc[p]) /\ proc = [q \in Procs |-> proc[q]]
  BY DEF ProbePlaced
<1>5. PICK t : t = Handler(Rest(n))
  OBVIOUS
<1>6. /\ proc' = [proc EXCEPT ![p] = IF t = <<>> THEN Idle ELSE [@ EXCEPT !.todo = t]]
      /\ failed' = IF t = <<>> THEN failed \ {p} ELSE failed \cup {p}
  BY <1>3, <1>5 DEF Raise
<1>7. CASE t = <<>>
  <2>1. proc' = [proc EXCEPT ![p] = Idle] /\ failed' = failed \ {p}
    BY <1>6, <1>7
  <2>2. Earned(p)'
    BY <1>2, <1>3 DEF Earned
  <2>. QED
    BY <1>2, <2>1, <2>2, LeaveMoves
<1>8. CASE t # <<>>
  <2>1. t = Rest(CaughtAt(n)) /\ CaughtAt(n) \in Spots /\ CaughtAt(n) # 0
    BY <1>5, <1>8, Caught
  <2>2. PICK m \in Spots : m = CaughtAt(n)
    BY <2>1
  <2>3. proc'[p] = [proc[p] EXCEPT !.todo = t] /\ \A q \in Procs \ {p} : proc'[q] = proc[q]
    BY <1>4, <1>6, <1>8
  <2>4. proc'[p].todo = Rest(m)
    BY <1>4, <2>1, <2>2, <2>3, ProcTodo
  <2>5. Verified(n)
    BY <2>1 DEF CaughtAt, Verified, Spots
  <2>6. p \in seen'
    <3>1. p \in seen
      BY <1>1, <2>5 DEF Here
    <3>. QED
      BY <1>3, <3>1, SeenStays
  <2>7. failed' = failed \cup {p}
    BY <1>6, <1>8
  <2>8. launcher' \in LauncherType
    BY <1>2 DEF PassInv, UnitsInv, LauncherType
  <2>9. \A q \in Procs \ {p} : launcher'[q] = launcher[q] /\ (q \in failed => q \in failed')
    BY <1>2, <2>7
  <2>10. launcher'[p] \in {launcher[p], "none"} /\ p \in failed'
    BY <1>2, <2>7
  <2>. QED
    BY <1>2, <1>3, <2>3, <2>4, <2>6, <2>8, <2>9, <2>10, JumpMoves
<1>. QED
  BY <1>7, <1>8

\* The result line is printed when the units are gone for the reasons under test.
LEMMA ReportMoves ==
    ASSUME ProbePlaced, PassInv, Observe, NEW p \in Procs, Report(p)
    PROVE  Moves(p)
<1>1. PICK n \in Spots : Here(p, n) /\ n \in {32, 46}
  <2>1. Course(p) /\ "report" \in Words
    BY DEF PassInv, Words
  <2>2. \E n \in Spots : Here(p, n) /\ ProbeAt(n, "report", "ok")
    BY <2>1, OnCourse DEF Report
  <2>. QED
    BY <2>2 DEF ProbeAt
<1>2. /\ answer' = [answer EXCEPT ![p] = IF p \in failed THEN "stop" ELSE "probed"]
      /\ names' = [names EXCEPT ![p] = IF p \in failed THEN <<>> ELSE @]
      /\ proc' = [proc EXCEPT ![p] = Idle] /\ failed' = failed \ {p}
      /\ UNCHANGED <<units, made, launcher>>
  BY DEF Report
<1>3. answer'[p] = (IF p \in failed THEN "stop" ELSE "probed")
      /\ \A q \in Procs \ {p} : answer'[q] = answer[q]
  <2>1. answer = [q \in Procs |-> answer[q]]
    BY DEF ProbePlaced
  <2>. QED
    BY <1>2, <2>1
<1>4. p \in seen'
  <2>1. Verified(n)
    BY <1>1 DEF Verified
  <2>2. p \in seen /\ proc[p].todo # <<>>
    BY <1>1, <2>1, Remaining DEF Here
  <2>. QED
    BY <2>2, SeenStays
<1>5. CASE p \in failed
  <2>1. names' = [names EXCEPT ![p] = <<>>]
    BY <1>2, <1>5
  <2>2. Earned(p)'
    BY <1>3, <1>5 DEF Earned
  <2>. QED
    BY <1>2, <1>3, <2>1, <2>2, LeaveMoves
<1>6. CASE p \notin failed
  <2>1. UNCHANGED names
    BY <1>2, <1>6 DEF PassInv, NamesInv
  <2>2. CourseAt(p, n)
    BY <1>1, <1>6 DEF Here
  <2>3. CASE n = 32
    <3>1. Len(names[p]) = 2 /\ Ended(p, 1, "signal") /\ Ended(p, 2, "timeout") /\ launcher[p] = "none"
      BY <2>2, <2>3 DEF CourseAt
    <3>. QED
      BY <1>2, <1>3, <1>4, <2>1, <3>1, LeaveMoves DEF Earned, Ended
  <2>4. CASE n = 46
    <3>1. Len(names[p]) = 1 /\ Ended(p, 1, "success") /\ launcher[p] = "none"
      BY <2>2, <2>4 DEF CourseAt
    <3>. QED
      BY <1>2, <1>3, <1>4, <2>1, <3>1, LeaveMoves DEF Earned, Ended
  <2>. QED
    BY <1>1, <2>3, <2>4
<1>. QED
  BY <1>5, <1>6

(***************************************************************************)
(* A probe begins; a probe starts a unit.                                  *)
(***************************************************************************)
LEMMA StartMoves ==
    ASSUME ProbePlaced, KindsKnown, PassInv, Observe, NEW p \in Procs, StartProbe(p)
    PROVE  Moves(p)
<1>1. PICK kind \in {"h2b", "h2d"} : Begin(p, ProbeScript(kind), 0)
  BY DEF StartProbe, KindsKnown
<1>2. /\ UNCHANGED <<units, made>> /\ names' = [names EXCEPT ![p] = <<>>]
      /\ failed' = failed \ {p} /\ launcher' = [launcher EXCEPT ![p] = "none"]
  BY DEF StartProbe
<1>3. PICK m \in {1, 33} : ProbeScript(kind) = Rest(m)
  BY <1>1, ProbeScripts
<1>4. m \in Spots /\ ~Verified(m)
  BY <1>3 DEF Spots, Verified
<1>5. /\ proc'[p].todo = Rest(m) /\ answer'[p] = "none"
      /\ \A q \in Procs \ {p} : proc'[q] = proc[q] /\ answer'[q] = answer[q]
  <2>1. /\ proc' = [proc EXCEPT ![p] = [Idle EXCEPT !.todo = Rest(m), !.r.id = 0]]
        /\ answer' = [answer EXCEPT ![p] = "none"]
    BY <1>1, <1>3 DEF Begin
  <2>2. proc = [q \in Procs |-> proc[q]] /\ answer = [q \in Procs |-> answer[q]]
    BY DEF ProbePlaced
  <2>3. proc'[p] = [Idle EXCEPT !.todo = Rest(m), !.r.id = 0]
    BY <2>1, <2>2
  <2>4. proc'[p].todo = Rest(m)
    BY <2>3, Started
  <2>. QED
    BY <2>1, <2>2, <2>4
<1>6. NamesInv' /\ \A q \in Procs \ {p} : names'[q] = names[q]
  BY <1>2, NamesDropped DEF PassInv
<1>7. names'[p] = <<>>
  BY <1>2 DEF PassInv, NamesInv
<1>8. launcher' \in LauncherType /\ launcher'[p] = "none" /\ \A q \in Procs \ {p} : launcher'[q] = launcher[q]
  BY <1>2 DEF PassInv, UnitsInv, LauncherType
<1>9. CourseAt(p, m)'
  <2>1. CASE m = 1
    BY <1>7, <2>1 DEF CourseAt
  <2>2. CASE m = 33
    BY <1>7, <2>2 DEF CourseAt
  <2>. QED
    BY <1>3, <2>1, <2>2
<1>10. Here(p, m)'
  BY <1>4, <1>5, <1>9 DEF Here
<1>11. Course(p)' /\ Earned(p)'
  BY <1>4, <1>5, <1>10, Arrival
<1>12. Local(p)
  BY <1>2, <1>5, <1>6, <1>8 DEF Local, Still
<1>13. Sound(units')
  BY <1>2 DEF PassInv, UnitsInv, Sound
<1>. QED
  BY <1>6, <1>8, <1>11, <1>12, <1>13 DEF Moves

\* The name of a new unit is new.
LEMMA NamesGrow ==
    ASSUME NamesInv, NEW p \in Procs, made < MaxUnits, made' = made + 1,
           names' = [names EXCEPT ![p] = Append(@, made + 1)]
    PROVE  /\ NamesInv' /\ \A q \in Procs \ {p} : names'[q] = names[q]
           /\ Len(names'[p]) = Len(names[p]) + 1 /\ names'[p][Len(names[p]) + 1] = made + 1
           /\ names'[p] # <<>>
           /\ \A i \in DOMAIN names[p] : names'[p][i] = names[p][i]
<1>1. made \in Nat /\ made' \in 0..MaxUnits /\ names \in [Procs -> Seq(1..made)]
  BY ProbeAssumption DEF NamesInv
<1>2. \A q \in Procs : /\ names[q] \in Seq(Nat) /\ DOMAIN names[q] = 1..Len(names[q]) /\ Len(names[q]) \in Nat
                       /\ \A i \in DOMAIN names[q] : names[q][i] \in 1..made
  BY NamesOf
<1>3. PICK s \in Seq(Nat) : s = names[p]
  BY <1>2
<1>4. names'[p] = Append(s, made + 1) /\ \A q \in Procs \ {p} : names'[q] = names[q]
  BY <1>1, <1>3
<1>5. /\ Append(s, made + 1) \in Seq(Nat) /\ Len(Append(s, made + 1)) = Len(s) + 1
      /\ \A i \in 1..Len(s) : Append(s, made + 1)[i] = s[i]
      /\ Append(s, made + 1)[Len(s) + 1] = made + 1
      /\ DOMAIN Append(s, made + 1) = 1..(Len(s) + 1)
  BY <1>1, AppendProperties
<1>6. Append(s, made + 1) # <<>>
  BY <1>5
<1>7. \A i \in 1..(Len(s) + 1) : Append(s, made + 1)[i] \in 1..(made + 1)
  <2>. SUFFICES ASSUME NEW i \in 1..(Len(s) + 1) PROVE Append(s, made + 1)[i] \in 1..(made + 1)
    OBVIOUS
  <2>1. CASE i \in 1..Len(s)
    BY <1>1, <1>2, <1>3, <1>5, <2>1
  <2>2. CASE i = Len(s) + 1
    BY <1>1, <1>5, <2>2
  <2>. QED
    BY <1>2, <1>3, <2>1, <2>2
<1>8. \A q \in Procs : names'[q] \in Seq(1..made')
  <2>1. Append(s, made + 1) \in Seq(1..(made + 1))
    BY <1>5, <1>7
  <2>2. ASSUME NEW q \in Procs \ {p} PROVE names[q] \in Seq(1..(made + 1))
    <3>1. PICK r \in Seq(Nat) : r = names[q]
      BY <1>2
    <3>2. \A i \in 1..Len(r) : r[i] \in 1..(made + 1)
      BY <1>1, <1>2, <3>1
    <3>3. r \in Seq(1..(made + 1))
      BY <3>2
    <3>. QED
      BY <3>1, <3>3
  <2>. QED
    BY <1>4, <2>1, <2>2
<1>9. names' \in [Procs -> Seq(1..made')]
  BY <1>1, <1>8
<1>10. ASSUME NEW q \in Procs, NEW i \in DOMAIN names'[q]
       PROVE  (i \in DOMAIN names[q] /\ names'[q][i] = names[q][i]) \/ (q = p /\ i = Len(s) + 1)
  <2>1. CASE q = p
    <3>1. i \in 1..(Len(s) + 1) /\ names'[q][i] = Append(s, made + 1)[i] /\ DOMAIN names[q] = 1..Len(s)
      BY <1>2, <1>3, <1>4, <1>5, <1>10, <2>1
    <3>2. CASE i \in 1..Len(s)
      BY <1>3, <1>5, <2>1, <3>1, <3>2
    <3>. QED
      BY <1>2, <1>3, <2>1, <3>1, <3>2
  <2>2. CASE q # p
    BY <1>4, <1>10, <2>2
  <2>. QED
    BY <2>1, <2>2
<1>11. names'[p][Len(s) + 1] = made + 1
  BY <1>4, <1>5
<1>12. \A q \in Procs : \A i \in DOMAIN names[q] : names[q][i] # made + 1
  BY <1>1, <1>2
<1>13. \A q \in Procs : \A i, j \in DOMAIN names'[q] : i # j => names'[q][i] # names'[q][j]
  BY <1>10, <1>11, <1>12 DEF NamesInv
<1>14. \A q, r \in Procs : q # r =>
         \A i \in DOMAIN names'[q], j \in DOMAIN names'[r] : names'[q][i] # names'[r][j]
  BY <1>10, <1>11, <1>12 DEF NamesInv
<1>15. NamesInv'
  BY <1>1, <1>9, <1>13, <1>14 DEF NamesInv
<1>16. \A i \in DOMAIN names[p] : names'[p][i] = names[p][i]
  BY <1>2, <1>3, <1>4, <1>5
<1>. QED
  BY <1>3, <1>4, <1>5, <1>6, <1>15, <1>16

\* The launch of a unit keeps PassInv.
LEMMA LaunchMoves ==
    ASSUME ProbePlaced, PassInv, Observe, user.uid \in Nat, NEW p \in Procs, Launch(p)
    PROVE  Moves(p)
<1>1. PICK n \in Spots : Here(p, n) /\ ((n \in {6, 19}) \/ (n = 38 /\ At(p, "launch", "single")))
  <2>1. Course(p) /\ "launch" \in Words
    BY DEF PassInv, Words
  <2>2. CASE At(p, "launch", "tree")
    <3>1. \E n \in Spots : Here(p, n) /\ ProbeAt(n, "launch", "tree")
      BY <2>1, <2>2, OnCourse
    <3>. QED
      BY <3>1 DEF ProbeAt
  <2>3. CASE At(p, "launch", "single")
    <3>1. \E n \in Spots : Here(p, n) /\ ProbeAt(n, "launch", "single")
      BY <2>1, <2>3, OnCourse
    <3>. QED
      BY <2>3, <3>1 DEF ProbeAt
  <2>. QED
    BY <2>2, <2>3 DEF Launch
<1>2. PICK v : v = [NoUnit EXCEPT !.phase = "requested", !.uid = user.uid,
                      !.tree = At(p, "launch", "tree"), !.collect = At(p, "launch", "single")]
  OBVIOUS
<1>3. /\ Go(p) /\ UNCHANGED failed /\ made < MaxUnits /\ made' = made + 1
      /\ names' = [names EXCEPT ![p] = Append(@, made + 1)]
      /\ launcher' = [launcher EXCEPT ![p] = "running"]
      /\ units' = [units EXCEPT ![made + 1] = v]
  BY <1>2 DEF Launch, SetUnit
<1>4. n \notin {4, 32, 36, 46}
  BY <1>1
<1>5. /\ proc'[p].todo = Rest(n + 1) /\ n + 1 \in Spots
      /\ \A q \in Procs \ {p} : proc'[q] = proc[q]
      /\ UNCHANGED answer /\ answer'[p] = "none"
  BY <1>1, <1>3, <1>4, GoOn
<1>6. Verified(n + 1) => p \in seen'
  BY <1>1, <1>4, SeenOn
<1>7. /\ NamesInv' /\ \A q \in Procs \ {p} : names'[q] = names[q]
      /\ Len(names'[p]) = Len(names[p]) + 1 /\ names'[p][Len(names[p]) + 1] = made + 1
      /\ names'[p] # <<>>
      /\ \A i \in DOMAIN names[p] : names'[p][i] = names[p][i]
  BY <1>3, NamesGrow DEF PassInv
<1>8. v = [phase |-> "requested", result |-> "none", main |-> "none", child |-> "none",
           ready |-> FALSE, tree |-> At(p, "launch", "tree"), collect |-> At(p, "launch", "single"),
           uid |-> user.uid]
  BY <1>2 DEF NoUnit
<1>9. v \in UnitType /\ UnitSound(v)
  <2>1. At(p, "launch", "tree") \in BOOLEAN /\ At(p, "launch", "single") \in BOOLEAN
    BY DEF At
  <2>. QED
    BY <1>8, <2>1 DEF UnitType, UnitSound
<1>10. made \in Nat /\ made + 1 \in Names /\ made + 1 # 0
  BY <1>3, ProbeAssumption DEF PassInv, NamesInv, Names
<1>11. Sound(units') /\ units'[made + 1] = v /\ \A j \in Names : j # made + 1 => units'[j] = units[j]
  BY <1>3, <1>9, <1>10, UnitSet
<1>12. launcher' \in LauncherType /\ launcher'[p] = "running" /\ \A q \in Procs \ {p} : launcher'[q] = launcher[q]
  BY <1>3 DEF PassInv, UnitsInv, LauncherType
<1>13. Mine(p)' = v
  <2>1. Name(p)' = made + 1
    BY <1>7 DEF Name
  <2>. QED
    BY <1>10, <1>11, <2>1 DEF Mine
<1>14. ASSUME p \notin failed' PROVE CourseAt(p, n + 1)'
  <2>1. CourseAt(p, n)
    BY <1>1, <1>3, <1>14 DEF Here
  <2>2. CASE n = 6
    <3>1. Len(names'[p]) = 1
      BY <1>7, <2>1, <2>2 DEF CourseAt
    <3>2. CourseAt(p, 7)'
      BY <3>1 DEF CourseAt
    <3>. QED
      BY <2>2, <3>2
  <2>3. CASE n = 19
    <3>1. Len(names[p]) = 1 /\ Ended(p, 1, "signal")
      BY <2>1, <2>3 DEF CourseAt
    <3>2. Len(names'[p]) = 2
      BY <1>7, <3>1
    <3>3. 1 \in DOMAIN names[p] /\ names[p][1] \in Names /\ names[p][1] # made + 1
      <4>1. 1 \in DOMAIN names[p]
        BY <3>1, NamesOf DEF PassInv
      <4>2. names[p][1] \in 1..made /\ names[p][1] \in Names
        BY <4>1, NamesOf DEF PassInv
      <4>. QED
        BY <1>10, <4>1, <4>2
    <3>4. units'[names'[p][1]] = units[names[p][1]]
      BY <1>7, <1>11, <3>3
    <3>5. Ended(p, 1, "signal")'
      BY <3>1, <3>4 DEF Ended
    <3>6. CourseAt(p, 20)'
      BY <3>2, <3>5 DEF CourseAt
    <3>. QED
      BY <2>3, <3>6
  <2>4. CASE n = 38 /\ At(p, "launch", "single")
    <3>1. Len(names'[p]) = 1
      BY <1>7, <2>1, <2>4 DEF CourseAt
    <3>2. ~At(p, "launch", "tree")
      BY <2>4 DEF At
    <3>3. ~Mine(p)'.tree
      BY <1>8, <1>13, <3>2
    <3>4. CourseAt(p, 39)'
      BY <3>1, <3>3 DEF CourseAt
    <3>. QED
      BY <2>4, <3>4
  <2>. QED
    BY <1>1, <2>2, <2>3, <2>4
<1>15. Here(p, n + 1)'
  BY <1>5, <1>6, <1>14 DEF Here
<1>16. Course(p)' /\ Earned(p)'
  BY <1>5, <1>15, Arrival
<1>17. Local(p)
  BY <1>3, <1>5, <1>7, <1>11, <1>12 DEF Local, Still
<1>. QED
  BY <1>7, <1>11, <1>12, <1>16, <1>17 DEF Moves

\* Every step of a probe is its own and keeps PassInv.
LEMMA ProbeStepMoves ==
    ASSUME ProbePlaced, KindsKnown, PassInv, Observe, user.uid \in Nat, NEW p \in Procs, ProbeStep(p)
    PROVE  Moves(p)
<1>1. CASE StartProbe(p) \/ Raise(p) \/ Marker(p) \/ VerifyInstalled(p) \/ Launch(p)
  BY <1>1, StartMoves, RaiseMoves, MarkerMoves, VerifyMoves, LaunchMoves
<1>2. CASE ready(p) \/ active(p) \/ observe_processes(p) \/ CleanupGone(p)
  BY <1>2, WatchMoves
<1>3. CASE FaultMain(p) \/ FaultLauncher(p) \/ wait_failure(p) \/ LauncherEnds(p)
  BY <1>3, FaultMainMoves, FaultLauncherMoves, FailureMoves, LauncherMoves
<1>4. CASE CleanupStop(p) \/ CleanupReset(p) \/ ReapLauncher(p) \/ Report(p)
  BY <1>4, StopMoves, ResetMoves, ReapMoves, ReportMoves
<1>. QED
  BY <1>1, <1>2, <1>3, <1>4 DEF ProbeStep

(***************************************************************************)
(* Steps of the manager, and of a launcher whose unit is over.             *)
(***************************************************************************)
\* What the manager does to a unit.
LEMMA ManagerSets ==
    ASSUME NEW k \in Names, NEW u, u = units[k], u \in UnitType, UnitSound(u), ManagerStep(k)
    PROVE  \E v \in UnitType : SetUnit(k, v) /\ UnitSound(v) /\ Kept1(u, v)
<1>1. CASE StartUnit(k)
  <2>1. u.phase = "requested"
    BY <1>1 DEF StartUnit
  <2>2. \/ SetUnit(k, [u EXCEPT !.phase = "active", !.main = "live"])
        \/ SetUnit(k, [u EXCEPT !.phase = IF u.collect THEN "absent" ELSE "failed", !.result = "exit"])
        \/ SetUnit(k, [u EXCEPT !.phase = "absent"])
    BY <1>1 DEF StartUnit
  <2>3. PICK v : /\ SetUnit(k, v)
                 /\ \/ v = [u EXCEPT !.phase = "active", !.main = "live"]
                    \/ v = [u EXCEPT !.phase = IF u.collect THEN "absent" ELSE "failed", !.result = "exit"]
                    \/ v = [u EXCEPT !.phase = "absent"]
    BY <2>2
  <2>4. v \in UnitType
    BY <2>3 DEF UnitType
  <2>5. UnitSound(v) /\ Kept1(u, v)
    BY <2>1, <2>3 DEF UnitSound, Kept1, UnitType
  <2>. QED
    BY <2>3, <2>4, <2>5
<1>2. CASE ForkChild(k)
  <2>1. PICK v : v = [u EXCEPT !.child = "live", !.ready = TRUE]
    OBVIOUS
  <2>2. SetUnit(k, v) /\ u.tree /\ u.phase = "active"
    BY <1>2, <2>1 DEF ForkChild
  <2>3. v \in UnitType
    BY <2>1 DEF UnitType
  <2>4. UnitSound(v) /\ Kept1(u, v)
    BY <2>1, <2>2 DEF UnitSound, Kept1, UnitType
  <2>. QED
    BY <2>2, <2>3, <2>4
<1>3. CASE MainExits(k)
  <2>1. PICK v : v = [u EXCEPT !.main = "zombie", !.result = IF u.tree THEN "exit" ELSE "success"]
    OBVIOUS
  <2>2. SetUnit(k, v) /\ u.phase = "active"
    BY <1>3, <2>1 DEF MainExits
  <2>3. v \in UnitType
    BY <2>1 DEF UnitType
  <2>4. UnitSound(v) /\ Kept1(u, v)
    BY <2>1, <2>2 DEF UnitSound, Kept1, UnitType
  <2>. QED
    BY <2>2, <2>3, <2>4
<1>4. CASE MainReaped(k)
  <2>1. PICK v : v = [u EXCEPT !.phase = "stopping", !.main = "none"]
    OBVIOUS
  <2>2. SetUnit(k, v) /\ u.phase = "active"
    BY <1>4, <2>1 DEF MainReaped
  <2>3. v \in UnitType
    BY <2>1 DEF UnitType
  <2>4. UnitSound(v) /\ Kept1(u, v)
    BY <2>1, <2>2 DEF UnitSound, Kept1, UnitType
  <2>. QED
    BY <2>2, <2>3, <2>4
<1>5. CASE RuntimeMax(k)
  <2>1. PICK v : v = [u EXCEPT !.phase = "stopping", !.result = "timeout"]
    OBVIOUS
  <2>2. SetUnit(k, v) /\ u.phase = "active"
    BY <1>5, <2>1 DEF RuntimeMax
  <2>3. v \in UnitType
    BY <2>1 DEF UnitType
  <2>4. UnitSound(v) /\ Kept1(u, v)
    BY <2>1, <2>2 DEF UnitSound, Kept1, UnitType
  <2>. QED
    BY <2>2, <2>3, <2>4
<1>6. CASE KillTree(k)
  <2>1. PICK v : /\ SetUnit(k, v) /\ u.phase = "stopping"
                 /\ (v = [u EXCEPT !.main = "none"]) \/ (u.child = "live" /\ v = [u EXCEPT !.child = "zombie"])
    BY <1>6 DEF KillTree
  <2>2. v \in UnitType
    BY <2>1 DEF UnitType
  <2>3. UnitSound(v) /\ Kept1(u, v)
    BY <2>1 DEF UnitSound, Kept1, UnitType
  <2>. QED
    BY <2>1, <2>2, <2>3
<1>7. CASE ChildReaped(k)
  <2>1. PICK v : v = [u EXCEPT !.child = "none"]
    OBVIOUS
  <2>2. SetUnit(k, v) /\ u.child = "zombie"
    BY <1>7, <2>1 DEF ChildReaped
  <2>3. v \in UnitType
    BY <2>1 DEF UnitType
  <2>4. UnitSound(v) /\ Kept1(u, v)
    BY <2>1, <2>2 DEF UnitSound, Kept1, UnitType, reaped
  <2>. QED
    BY <2>2, <2>3, <2>4
<1>8. CASE Settle(k)
  <2>1. PICK v : v = [u EXCEPT !.phase = IF u.result \in {"exit", "signal", "timeout"} /\ ~u.collect
                                         THEN "failed" ELSE "absent"]
    OBVIOUS
  <2>2. SetUnit(k, v) /\ u.phase = "stopping" /\ u.main = "none"
    BY <1>8, <2>1 DEF Settle
  <2>3. v \in UnitType
    BY <2>1 DEF UnitType
  <2>4. UnitSound(v) /\ Kept1(u, v)
    BY <2>1, <2>2 DEF UnitSound, Kept1, UnitType
  <2>. QED
    BY <2>2, <2>3, <2>4
<1>. QED
  BY <1>1, <1>2, <1>3, <1>4, <1>5, <1>6, <1>7, <1>8 DEF ManagerStep, StopStep

\* A step in which no process moves and all units are kept keeps PassInv.
LEMMA StillPass ==
    ASSUME PassInv, Observe, \A p \in Procs : Still(p) /\ UnitsKept(p),
           NamesInv', Sound(units'), launcher' \in LauncherType
    PROVE  PassInv'
<1>1. ASSUME NEW p \in Procs
      PROVE  /\ Course(p)' /\ Earned(p)'
             /\ launcher'[p] = "exited" => Mine(p)'.phase \in {"absent", "failed"}
  <2>1. NamesInv /\ UnitsInv /\ Course(p) /\ Earned(p) /\ Still(p) /\ UnitsKept(p)
    BY DEF PassInv
  <2>2. Course(p)' /\ Earned(p)'
    BY <2>1, StillKeeps
  <2>. QED
    BY <2>1, <2>2, ExitedKept
<1>2. UnitsInv'
  BY <1>1 DEF UnitsInv, Sound, LauncherType
<1>. QED
  BY <1>1, <1>2 DEF PassInv

\* A step of the service manager keeps PassInv.
LEMMA ManagerPass ==
    ASSUME PassInv, Observe, NEW k \in Names, ManagerStep(k)
    PROVE  PassInv'
<1>1. PICK u : u = units[k]
  OBVIOUS
<1>2. u \in UnitType /\ UnitSound(u)
  BY <1>1 DEF PassInv, UnitsInv
<1>3. PICK v \in UnitType : SetUnit(k, v) /\ UnitSound(v) /\ Kept1(u, v)
  BY <1>1, <1>2, ManagerSets
<1>4. Sound(units') /\ units'[k] = v /\ \A j \in Names : j # k => units'[j] = units[j]
  BY <1>3, UnitSet DEF SetUnit
<1>5. UNCHANGED <<proc, answer, made, launcher, names, failed>>
  BY DEF ManagerStep
<1>6. \A j \in Names : Kept1(units[j], units'[j])
  BY <1>1, <1>3, <1>4 DEF Kept1
<1>7. \A p \in Procs : Still(p) /\ UnitsKept(p)
  <2>1. \A p \in Procs : \A i \in DOMAIN names[p] : names[p][i] \in Names
    BY NamesOf DEF PassInv
  <2>. QED
    BY <1>5, <1>6, <2>1 DEF Still, UnitsKept
<1>8. NamesInv' /\ launcher' \in LauncherType
  BY <1>5 DEF PassInv, NamesInv, UnitsInv, LauncherType
<1>. QED
  BY <1>4, <1>7, <1>8, StillPass

\* The end of a launcher keeps PassInv.
LEMMA ExitMoves ==
    ASSUME ProbePlaced, PassInv, Observe, NEW p \in Procs, LauncherExits(p)
    PROVE  Moves(p)
<1>1. /\ launcher[p] = "running" /\ Mine(p).phase \in {"absent", "failed"}
      /\ launcher' = [launcher EXCEPT ![p] = "exited"]
      /\ UNCHANGED <<proc, answer, units, made, names, failed>>
  BY DEF LauncherExits
<1>2. launcher' \in LauncherType /\ \A q \in Procs \ {p} : launcher'[q] = launcher[q]
  BY <1>1 DEF PassInv, UnitsInv, LauncherType
<1>3. Course(p)'
  <2>. SUFFICES ASSUME Probing(p)' PROVE \E n \in Spots : Here(p, n)'
    BY DEF Course
  <2>1. Probing(p)
    BY <1>1 DEF Probing
  <2>2. PICK n \in Spots : Here(p, n)
    BY <2>1 DEF PassInv, Course
  <2>3. ASSUME p \notin failed PROVE CourseAt(p, n)'
    <3>1. CourseAt(p, n)
      BY <2>2, <2>3 DEF Here
    <3>2. n \notin 30..32 \cup 44..46
      BY <1>1, <3>1 DEF CourseAt
    <3>. QED
      BY <1>1, <3>1, <3>2, CourseSame
  <2>4. p \in seen => p \in seen'
    <3>1. proc[p].todo # <<>>
      BY <2>2, Remaining DEF Here
    <3>. QED
      BY <3>1, SeenStays
  <2>5. Here(p, n)'
    BY <1>1, <2>2, <2>3, <2>4 DEF Here
  <2>. QED
    BY <2>5
<1>4. Earned(p)'
  BY <1>1 DEF PassInv, Earned
<1>5. Local(p)
  BY <1>1, <1>2 DEF Local, Still
<1>6. NamesInv' /\ Sound(units')
  BY <1>1 DEF PassInv, NamesInv, UnitsInv, Sound
<1>7. Mine(p)' = Mine(p)
  BY <1>1 DEF Mine, Name
<1>. QED
  BY <1>1, <1>2, <1>3, <1>4, <1>5, <1>6, <1>7 DEF Moves

(***************************************************************************)
(* Steps of the installer next to probes.                                  *)
(***************************************************************************)
\* A process that is no probe afterwards, and touches no unit.
LEMMA PlainMoves ==
    ASSUME ProbePlaced, PassInv, Observe, NEW p \in Procs, proc'[p].todo \in Seq(HostSteps),
           \A q \in Procs \ {p} : proc'[q] = proc[q] /\ answer'[q] = answer[q], UNCHANGED probe,
           answer'[p] = "probed" => answer[p] = "probed" /\ (proc[p].todo # <<>> \/ proc'[p].todo = <<>>)
    PROVE  Moves(p)
<1>1. UNCHANGED <<units, made, launcher, names, failed>>
  BY DEF probe
<1>2. Course(p)'
  <2>1. ~Contains(proc'[p].todo, <<"report", "ok">>)
    BY HostBar
  <2>. QED
    BY <2>1 DEF Course, Probing
<1>3. Earned(p)'
  <2>. SUFFICES ASSUME answer'[p] = "probed" PROVE Earned(p)'
    BY DEF Earned
  <2>1. Earned(p) /\ answer[p] = "probed" /\ (proc[p].todo # <<>> \/ proc'[p].todo = <<>>)
    BY DEF PassInv
  <2>2. p \in seen'
    BY <2>1, SeenStays DEF Earned
  <2>3. \A i, reason : Ended(p, i, reason) => Ended(p, i, reason)'
    BY <1>1 DEF Ended
  <2>. QED
    BY <1>1, <2>1, <2>2, <2>3 DEF Earned
<1>4. Local(p)
  BY <1>1 DEF Local, Still
<1>5. NamesInv' /\ Sound(units') /\ launcher' \in LauncherType
  BY <1>1 DEF PassInv, NamesInv, UnitsInv, Sound, LauncherType
<1>6. Mine(p)' = Mine(p)
  BY <1>1 DEF Mine, Name
<1>. QED
  BY <1>1, <1>2, <1>3, <1>4, <1>5, <1>6 DEF Moves, PassInv, UnitsInv

Leaves(p, t) == \E c : GoesTo(p, c) /\ c.todo = t

\* A turn that replaces the remaining work leaves a process with that work.
LEMMA Leaving ==
    ASSUME NEW p \in Procs, IsProc(proc[p]), NEW t, NEW w
    PROVE  /\ GoesTo(p, [proc[p] EXCEPT !.todo = t]) => Leaves(p, t)
           /\ GoesTo(p, [proc[p] EXCEPT !.todo = t, !.r = w]) => Leaves(p, t)
           /\ GoesTo(p, [proc[p] EXCEPT !.todo = t, !.dir = w]) => Leaves(p, t)
           /\ GoesTo(p, [proc[p] EXCEPT !.todo = t, !.locked = w]) => Leaves(p, t)
<1>1. ASSUME NEW c, c.todo = t, GoesTo(p, c) PROVE Leaves(p, t)
  BY <1>1 DEF Leaves
<1>2. PICK m : m = proc[p]
  OBVIOUS
<1>3. IsProc(m)
  BY <1>2
<1>4. [m EXCEPT !.todo = t].todo = t
  BY <1>3, ProcTodo
<1>5. [m EXCEPT !.todo = t, !.r = w].todo = t
  BY <1>3, ProcReceipt
<1>6. [m EXCEPT !.todo = t, !.dir = w].todo = t
  BY <1>3, ProcDir
<1>7. [m EXCEPT !.todo = t, !.locked = w].todo = t
  BY <1>3, ProcLocked
<1>8. GoesTo(p, [m EXCEPT !.todo = t]) => Leaves(p, t)
  BY <1>1, <1>4
<1>9. GoesTo(p, [m EXCEPT !.todo = t, !.r = w]) => Leaves(p, t)
  BY <1>1, <1>5
<1>10. GoesTo(p, [m EXCEPT !.todo = t, !.dir = w]) => Leaves(p, t)
  BY <1>1, <1>6
<1>11. GoesTo(p, [m EXCEPT !.todo = t, !.locked = w]) => Leaves(p, t)
  BY <1>1, <1>7
<1>. QED
  BY <1>2, <1>8, <1>9, <1>10, <1>11

\* A step of a script leaves the rest of it, nothing, or what userdel adds.
LEMMA HostStepShape ==
    ASSUME ProbePlaced, NEW p \in Procs, HostStep(p)
    PROVE  \/ Leaves(p, <<>>)
           \/ Leaves(p, Tail(proc[p].todo))
           \/ Leaves(p, UserdelScript \o Tail(proc[p].todo))
<1>1. IsProc(proc[p])
  BY DEF ProbePlaced
<1>2. Advance(p) => Leaves(p, Tail(proc[p].todo))
  <2>1. Advance(p) => GoesTo(p, [proc[p] EXCEPT !.todo = Tail(proc[p].todo)])
    BY DEF Advance, GoesTo
  <2>. QED
    BY <1>1, <2>1, Leaving
<1>3. \A r : AdvanceWith(p, r) => Leaves(p, Tail(proc[p].todo))
  <2>1. \A r : AdvanceWith(p, r) => GoesTo(p, [proc[p] EXCEPT !.todo = Tail(proc[p].todo), !.r = r])
    BY DEF AdvanceWith, GoesTo
  <2>2. \A r : GoesTo(p, [proc[p] EXCEPT !.todo = Tail(proc[p].todo), !.r = r])
                 => Leaves(p, Tail(proc[p].todo))
    BY <1>1, Leaving
  <2>. QED
    BY <2>1, <2>2
<1>4. proc' = [proc EXCEPT ![p] = Idle] => Leaves(p, <<>>)
  <2>1. Idle.todo = <<>>
    BY DEF Idle
  <2>. QED
    BY <2>1 DEF Leaves, GoesTo
<1>5. CASE Open(p)
  <2>1. GoesTo(p, [proc[p] EXCEPT !.todo = Tail(proc[p].todo), !.dir = dirs])
    BY <1>5 DEF Open, GoesTo
  <2>. QED
    BY <1>1, <2>1, Leaving
<1>6. CASE Flock(p)
  <2>1. GoesTo(p, [proc[p] EXCEPT !.todo = Tail(proc[p].todo), !.locked = TRUE])
    BY <1>6 DEF Flock, GoesTo
  <2>. QED
    BY <1>1, <2>1, Leaving
<1>7. CASE RecordUser(p) /\ user # NoUser
  <2>. DEFINE t == UserdelScript \o Tail(proc[p].todo)
              w == [proc[p].r EXCEPT !.uid = user.uid]
  <2>1. proc' = [proc EXCEPT ![p] = [proc[p] EXCEPT !.todo = t, !.r.uid = user.uid]]
    BY <1>7 DEF RecordUser
  <2>2. [proc[p] EXCEPT !.todo = t, !.r.uid = user.uid] = [proc[p] EXCEPT !.todo = t, !.r = w]
    OBVIOUS
  <2>. HIDE DEF w
  <2>3. GoesTo(p, [proc[p] EXCEPT !.todo = t, !.r = w])
    BY <2>1, <2>2 DEF GoesTo
  <2>4. Leaves(p, t)
    <3>. HIDE DEF t
    <3>. QED
      BY <1>1, <2>3, Leaving
  <2>. QED
    BY <2>4
<1>8. CASE Abort(p) \/ Answer(p)
  <2>1. proc' = [proc EXCEPT ![p] = Idle]
    BY <1>8 DEF Abort, Answer
  <2>. QED
    BY <1>4, <2>1
<1>9. CASE Replace(p) \/ CheckFiles(p) \/ CheckPartial(p) \/ CheckUnit(p) \/ Reload(p)
  <2>1. Advance(p)
    BY <1>9 DEF Replace, CheckFiles, CheckPartial, CheckUnit, Reload
  <2>. QED
    BY <1>2, <2>1
<1>10. CASE remove_user(p) \/ remove_group(p) \/ ConfirmRemoval(p) \/ (RecordUser(p) /\ user = NoUser)
  <2>1. Advance(p)
    BY <1>10 DEF remove_user, remove_group, ConfirmRemoval, RecordUser
  <2>. QED
    BY <1>2, <2>1
<1>11. CASE create_user(p)
  <2>1. Advance(p) \/ proc' = [proc EXCEPT ![p] = Idle]
    BY <1>11 DEF create_user
  <2>. QED
    BY <1>2, <1>4, <2>1
<1>12. CASE ReadReceipt(p) \/ CheckIdentity(p)
  <2>1. Advance(p) \/ \E r : AdvanceWith(p, r)
    BY <1>12 DEF ReadReceipt, CheckIdentity
  <2>. QED
    BY <1>2, <1>3, <2>1
<1>13. ASSUME NEW x, Make(p, x) \/ Own(p, x) \/ Drop(p, x)
       PROVE  Advance(p)
  BY <1>13 DEF Make, Own, Drop
<1>14. CASE \E x \in Paths : Make(p, x) \/ Own(p, x) \/ Drop(p, x)
  BY <1>2, <1>13, <1>14
<1>. QED
  BY <1>5, <1>6, <1>7, <1>8, <1>9, <1>10, <1>11, <1>12, <1>14 DEF HostStep

\* A step of the installer answers for its process alone, and reports no
\* probe.
LEMMA HostStepAnswers ==
    ASSUME ProbePlaced, NEW p \in Procs, HostStep(p)
    PROVE  /\ proc[p].todo # <<>>
           /\ \A q \in Procs \ {p} : answer'[q] = answer[q]
           /\ answer'[p] = "probed" => answer[p] = "probed"
<1>1. proc[p].todo # <<>>
  BY DEF HostStep, Abort, Open, Flock, Replace, create_user, ReadReceipt, CheckIdentity, CheckFiles,
         CheckPartial, CheckUnit, Reload, RecordUser, remove_user, remove_group, ConfirmRemoval, Answer,
         Make, Own, Drop, At, Active
<1>2. UNCHANGED answer \/ \E line \in {"installed", "rolled_back"} : answer' = [answer EXCEPT ![p] = line]
  BY DEF HostStep, Abort, Open, Flock, Replace, create_user, ReadReceipt, CheckIdentity, CheckFiles,
         CheckPartial, CheckUnit, Reload, RecordUser, remove_user, remove_group, ConfirmRemoval, Answer,
         Make, Own, Drop
<1>3. answer = [q \in Procs |-> answer[q]]
  BY DEF ProbePlaced
<1>. QED
  BY <1>1, <1>2, <1>3

\* The removal of the account is a script of the installer.
LEMMA UserdelSteps == UserdelScript \in Seq(HostSteps)
<1>1. UserdelScript = Part(42, 45)
  BY Pieces, Joints DEF UserdelScript, SaveReceipt
<1>2. 42 \in 1..50 /\ 45 \in 42..50
  OBVIOUS
<1>. QED
  BY <1>1, <1>2, Cut

\* Every step of the installer's scripts is its process's own and keeps
\* PassInv.
LEMMA InstallerMoves ==
    ASSUME ProbePlaced, PassInv, Observe, NEW p \in Procs, HostStep(p), UNCHANGED probe
    PROVE  Moves(p)
<1>1. PICK c : /\ GoesTo(p, c)
               /\ c.todo \in {<<>>, Tail(proc[p].todo), UserdelScript \o Tail(proc[p].todo)}
  BY HostStepShape DEF Leaves
<1>2. proc'[p] = c /\ \A q \in Procs \ {p} : proc'[q] = proc[q]
  <2>1. proc = [q \in Procs |-> proc[q]]
    BY DEF ProbePlaced
  <2>. QED
    BY <1>1, <2>1 DEF GoesTo
<1>3. /\ proc[p].todo # <<>>
      /\ \A q \in Procs \ {p} : answer'[q] = answer[q]
      /\ answer'[p] = "probed" => answer[p] = "probed"
  BY HostStepAnswers
<1>4. CASE proc[p].todo \in Seq(HostSteps)
  <2>1. Tail(proc[p].todo) \in Seq(HostSteps) /\ <<>> \in Seq(HostSteps)
    BY <1>3, <1>4, HeadTailProperties
  <2>2. UserdelScript \o Tail(proc[p].todo) \in Seq(HostSteps)
    BY <2>1, UserdelSteps, ConcatProperties
  <2>3. proc'[p].todo \in Seq(HostSteps)
    BY <1>1, <1>2, <2>1, <2>2
  <2>. QED
    BY <1>2, <1>3, <2>3, PlainMoves
<1>5. CASE proc[p].todo \notin Seq(HostSteps)
  <2>1. Probing(p) /\ answer[p] = "none"
    BY <1>5, Unlike
  <2>2. PICK n \in Spots : Here(p, n)
    BY <2>1 DEF PassInv, Course
  <2>3. proc[p].todo = Rest(n)
    BY <2>2 DEF Here
  <2>4. CASE Abort(p)
    <3>1. proc' = [proc EXCEPT ![p] = Idle]
      BY <2>4 DEF Abort
    <3>2. proc'[p] = Idle
      <4>1. proc = [q \in Procs |-> proc[q]]
        BY DEF ProbePlaced
      <4>. QED
        BY <3>1, <4>1
    <3>3. proc'[p].todo \in Seq(HostSteps)
      BY <3>2, IdleHost
    <3>. QED
      BY <1>2, <1>3, <3>3, PlainMoves
  <2>5. CASE Open(p) \/ Flock(p)
    <3>1. UNCHANGED answer
      BY <2>5 DEF Open, Flock
    <3>2. n \in {2, 3, 34, 35}
      <4>1. CASE Open(p)
        <5>1. At(p, "open", "state")
          BY <4>1 DEF Open
        <5>2. ProbeAt(n, "open", "state")
          BY <2>3, <5>1, ProbeHead
        <5>. QED
          BY <5>2 DEF ProbeAt
      <4>2. CASE Flock(p)
        <5>1. At(p, "flock", "state")
          BY <4>2 DEF Flock
        <5>2. ProbeAt(n, "flock", "state")
          BY <2>3, <5>1, ProbeHead
        <5>. QED
          BY <5>2 DEF ProbeAt
      <4>. QED
        BY <2>5, <4>1, <4>2
    <3>3. n \notin {6, 12, 15, 19, 25, 27, 29, 32, 38, 39, 41, 43, 46} /\ n \notin {32, 46}
      BY <3>2
    <3>4. Tail(Rest(n)) = Rest(n + 1) /\ n + 1 \in Spots
      BY <3>3, Remaining
    <3>5. proc'[p].todo = Rest(n + 1)
      <4>1. IsProc(proc[p]) /\ proc = [q \in Procs |-> proc[q]]
        BY DEF ProbePlaced
      <4>2. CASE Open(p)
        <5>1. proc'[p] = [proc[p] EXCEPT !.todo = Tail(proc[p].todo), !.dir = dirs]
          BY <4>1, <4>2 DEF Open
        <5>2. proc'[p].todo = Tail(proc[p].todo)
          <6>1. \A v, w : [proc[p] EXCEPT !.todo = v, !.dir = w].todo = v
            BY <4>1, ProcDir
          <6>. QED
            BY <5>1, <6>1
        <5>. QED
          BY <2>3, <3>4, <5>2
      <4>3. CASE Flock(p)
        <5>1. proc'[p] = [proc[p] EXCEPT !.todo = Tail(proc[p].todo), !.locked = TRUE]
          BY <4>1, <4>3 DEF Flock
        <5>2. proc'[p].todo = Tail(proc[p].todo)
          <6>1. \A v, w : [proc[p] EXCEPT !.todo = v, !.locked = w].todo = v
            BY <4>1, ProcLocked
          <6>. QED
            BY <5>1, <6>1
        <5>. QED
          BY <2>3, <3>4, <5>2
      <4>. QED
        BY <2>5, <4>2, <4>3
    <3>6. ~Verified(n + 1)
      BY <3>2 DEF Verified
    <3>7. UNCHANGED <<units, made, launcher, names, failed>>
      BY DEF probe
    <3>8. p \notin failed' => CourseAt(p, n + 1)'
      <4>1. p \notin failed => CourseAt(p, n + 1)
        BY <2>2, <3>3, CourseOn DEF Here
      <4>. QED
        BY <3>4, <3>7, <4>1, CourseSame
    <3>9. launcher' \in LauncherType
      BY <3>7 DEF PassInv, UnitsInv, LauncherType
    <3>. QED
      BY <1>2, <2>1, <3>1, <3>4, <3>5, <3>6, <3>7, <3>8, <3>9, JumpMoves
  <2>. QED
    BY <2>1, <2>4, <2>5, ProbeTakes
<1>. QED
  BY <1>4, <1>5

\* The start of an operation of the installer is its process's own and keeps
\* PassInv.
LEMMA BeginMoves ==
    ASSUME ProbePlaced, PassInv, Observe, NEW p \in Procs, apply(p) \/ verify(p) \/ rollback(p),
           UNCHANGED probe
    PROVE  Moves(p)
<1>1. PICK s \in Seq(HostSteps), id \in {0, ops + 1} : Begin(p, s, id)
  BY SameScripts DEF apply, verify, rollback
<1>2. /\ proc' = [proc EXCEPT ![p] = [Idle EXCEPT !.todo = s, !.r.id = id]]
      /\ answer' = [answer EXCEPT ![p] = "none"]
  BY <1>1 DEF Begin
<1>3. proc = [q \in Procs |-> proc[q]] /\ answer = [q \in Procs |-> answer[q]]
  BY DEF ProbePlaced
<1>4. /\ proc'[p] = [Idle EXCEPT !.todo = s, !.r.id = id] /\ answer'[p] = "none"
      /\ \A q \in Procs \ {p} : proc'[q] = proc[q] /\ answer'[q] = answer[q]
  BY <1>2, <1>3
<1>5. proc'[p].todo \in Seq(HostSteps)
  BY <1>1, <1>4, Started
<1>. QED
  BY <1>4, <1>5, PlainMoves

(***************************************************************************)
(* A probe's result is earned.                                             *)
(***************************************************************************)
LEMMA PassInit == ProbeInit => PassInv
<1>. SUFFICES ASSUME ProbeInit PROVE PassInv
  OBVIOUS
<1>1. /\ units = [n \in Names |-> NoUnit] /\ made = 0
      /\ launcher = [p \in Procs |-> "none"] /\ names = [p \in Procs |-> <<>>]
  BY DEF ProbeInit
<1>2. \A p \in Procs : proc[p].todo = <<>> /\ answer[p] = "none"
  <2>1. proc = [p \in Procs |-> Idle] /\ answer = [p \in Procs |-> "none"]
    BY DEF ProbeInit, Installed, Init
  <2>2. Idle.todo = <<>>
    BY DEF Idle
  <2>. QED
    BY <2>1, <2>2
<1>3. NamesInv
  <2>1. <<>> \in Seq(1..made) /\ \A i \in DOMAIN <<>> : FALSE
    OBVIOUS
  <2>. QED
    BY <1>1, <2>1, ProbeAssumption DEF NamesInv
<1>4. UnitsInv
  <2>1. NoUnit \in UnitType /\ UnitSound(NoUnit)
    BY DEF NoUnit, UnitType, UnitSound
  <2>. QED
    BY <1>1, <2>1 DEF UnitsInv
<1>5. \A p \in Procs : Course(p) /\ Earned(p)
  <2>1. ~Contains(<<>>, <<"report", "ok">>)
    BY EmptySeq DEF Contains
  <2>. QED
    BY <1>2, <2>1 DEF Course, Earned, Probing
<1>. QED
  BY <1>3, <1>4, <1>5 DEF PassInv

\* Every step of the composition keeps PassInv.
LEMMA PassNext ==
    ASSUME ProbePlaced, KindsKnown, user.uid \in Nat, PassInv, [ProbeNext]_probeVars
    PROVE  PassInv'
<1>1. CASE UNCHANGED probeVars
  <2>1. UNCHANGED <<proc, answer, seen, units, made, launcher, names, failed>>
    BY <1>1 DEF probeVars, vars, probe
  <2>2. NamesInv' /\ UnitsInv'
    BY <2>1 DEF PassInv, NamesInv, UnitsInv, Mine, Name
  <2>3. ASSUME NEW p \in Procs PROVE Course(p)' /\ Earned(p)'
    <3>1. \A n \in Spots : CourseAt(p, n) => CourseAt(p, n)'
      BY <2>1, CourseSame
    <3>2. \A n \in Spots : Here(p, n) => Here(p, n)'
      BY <2>1, <3>1 DEF Here
    <3>3. Course(p)'
      BY <2>1, <3>2 DEF PassInv, Course, Probing
    <3>4. Earned(p)'
      BY <2>1 DEF PassInv, Earned, Ended
    <3>. QED
      BY <3>3, <3>4
  <2>. QED
    BY <2>2, <2>3 DEF PassInv
<1>2. CASE ProbeNext
  <2>1. Observe
    BY <1>2 DEF ProbeNext
  <2>2. CASE InstallerStep
    <3>1. UNCHANGED probe
      BY <2>2 DEF InstallerStep
    <3>2. ASSUME NEW p \in Procs, apply(p) \/ verify(p) \/ rollback(p) \/ HostStep(p)
          PROVE  PassInv'
      <4>1. Moves(p)
        BY <2>1, <3>1, <3>2, BeginMoves, InstallerMoves
      <4>. QED
        BY <2>1, <4>1, MovesPass
    <3>3. CASE AdminEdit
      <4>1. UNCHANGED <<proc, answer, units, made, launcher, names, failed>>
        BY <3>1, <3>3 DEF AdminEdit, probe
      <4>2. \A p \in Procs : Still(p) /\ UnitsKept(p)
        BY <4>1 DEF Still, UnitsKept, Kept1
      <4>3. NamesInv' /\ Sound(units') /\ launcher' \in LauncherType
        BY <4>1 DEF PassInv, NamesInv, UnitsInv, Sound, LauncherType
      <4>. QED
        BY <2>1, <4>2, <4>3, StillPass
    <3>. QED
      BY <2>2, <3>2, <3>3 DEF InstallerStep, Step
  <2>3. ASSUME NEW p \in Procs, ProbeStep(p) \/ LauncherExits(p) PROVE PassInv'
    <3>1. Moves(p)
      BY <2>1, <2>3, ProbeStepMoves, ExitMoves
    <3>. QED
      BY <2>1, <3>1, MovesPass
  <2>4. ASSUME NEW k \in Names, ManagerStep(k) PROVE PassInv'
    BY <2>1, <2>4, ManagerPass
  <2>. QED
    BY <1>2, <2>2, <2>3, <2>4 DEF ProbeNext
<1>. QED
  BY <1>1, <1>2

\* In PassInv a probe's success is earned.
LEMMA EarnedPass == PassInv => PassIsEarned
<1>. SUFFICES ASSUME PassInv, NEW p \in Procs, answer[p] = "probed"
              PROVE  /\ p \in seen /\ launcher[p] # "running"
                     /\ \A i \in DOMAIN names[p] : ~Known(units[names[p][i]]) /\ reaped(units[names[p][i]])
                     /\ [i \in DOMAIN names[p] |-> units[names[p][i]].result]
                          \in { <<"signal", "timeout">>, <<"success">> }
  BY DEF PassIsEarned
<1>1. Earned(p)
  BY DEF PassInv
<1>2. DOMAIN names[p] = 1..Len(names[p])
  BY NamesOf DEF PassInv
<1>3. p \in seen /\ launcher[p] # "running"
  BY <1>1 DEF Earned
<1>4. CASE Len(names[p]) = 2 /\ Ended(p, 1, "signal") /\ Ended(p, 2, "timeout")
  <2>1. DOMAIN names[p] = {1, 2}
    BY <1>2, <1>4
  <2>2. \A i \in {1, 2} : ~Known(units[names[p][i]]) /\ reaped(units[names[p][i]])
    BY <1>4 DEF Ended, Gone, Known
  <2>3. [i \in {1, 2} |-> units[names[p][i]].result] = <<"signal", "timeout">>
    BY <1>4 DEF Ended
  <2>. QED
    BY <1>3, <2>1, <2>2, <2>3
<1>5. CASE Len(names[p]) = 1 /\ Ended(p, 1, "success")
  <2>1. DOMAIN names[p] = {1}
    BY <1>2, <1>5
  <2>2. \A i \in {1} : ~Known(units[names[p][i]]) /\ reaped(units[names[p][i]])
    BY <1>5 DEF Ended, Gone, Known
  <2>3. [i \in {1} |-> units[names[p][i]].result] = <<"success">>
    BY <1>5 DEF Ended
  <2>. QED
    BY <1>3, <2>1, <2>2, <2>3
<1>. QED
  BY <1>1, <1>4, <1>5 DEF Earned

\* What is known at every spot of the units, and that a probe that reports has earned it.
THEOREM PassInvariant == ProbeSpec => []PassInv
<1>1. B!InstallSpec => []B!CustodyType
  BY B!CustodyInvariant, CustodyAssumption, PTL
<1>2. B!CustodyType => user.uid \in Nat
  BY CustodyAssumption DEF B!CustodyType, B!Users
<1>3. ProbeInit => ProbePlaced /\ KindsKnown /\ PassInv
  BY ProbeInitBar, PassInit
<1>4. user.uid \in Nat /\ ProbePlaced /\ KindsKnown /\ PassInv /\ [ProbeNext]_probeVars
        => ProbePlaced' /\ KindsKnown' /\ PassInv'
  BY ProbeNextBar, PassNext
<1>. QED
  BY <1>1, <1>2, <1>3, <1>4, ProbesImplementInstaller, PTL DEF ProbeSpec

\* The success line of a probe is earned: the manager ended its units for the reasons
\* under test, nothing of them is left, and the installation was in place at one instant.
THEOREM PassesAreEarned == ProbeSpec => []PassIsEarned
  BY PassInvariant, EarnedPass, PTL

(***************************************************************************)
(* The host stands while a probe is at work.                               *)
(***************************************************************************)
Stand ==
    /\ ReceiptReadable /\ AllFiles /\ loaded
    /\ user.tag = saved.id /\ group.gid = user.uid

\* From the check under the lock to the outermost finally block.
Sure(todo) ==
    /\ Contains(todo, <<"finally", "h2a">>)
    /\ Contains(todo, <<"try", "h2a">>) => Head(todo) = <<"try", "h2a">>

StandInv == \A p \in Procs : Sure(proc[p].todo) => Stand

\* At which spots a probe is sure of the installation: under the lock, past
\* its second verify.
LEMMA SureAt ==
    ASSUME NEW n \in Spots
    PROVE  Sure(Rest(n)) <=> n \in 5..30 \cup 37..44
<1>1. n \in 1..46 /\ Head(Rest(n)) = ProbeCode[n]
  BY Remaining DEF Spots
<1>2. ProbeCode[n] = <<"try", "h2a">> <=> n \in {5, 37}
  <2>1. ProbeCode[n] = <<"try", "h2a">> => n \in {5, 37}
    BY Spotted DEF ProbeAt
  <2>. QED
    BY <2>1, Landmarks
<1>3. /\ Contains(Rest(n), <<"try", "h2a">>) <=> n \in 1..5 \cup 33..37
      /\ Contains(Rest(n), <<"finally", "h2a">>) <=> n \in 1..30 \cup 33..44
  BY Ahead
<1>. QED
  BY <1>1, <1>2, <1>3 DEF Sure

\* No process of the installer is sure.
LEMMA NeverSure ==
    ASSUME NEW t, t \in Seq(HostSteps)
    PROVE  ~Sure(t)
<1>1. <<"finally", "h2a">> \notin HostSteps
  BY DEF HostSteps
<1>2. \A i \in DOMAIN t : t[i] \in HostSteps
  BY ElementOfSeq, LenProperties
<1>. QED
  BY <1>1, <1>2 DEF Sure, Contains

\* A process that is sure is a probe at one of those spots.
LEMMA SureSpot ==
    ASSUME ProbePlaced, NEW p \in Procs, Sure(proc[p].todo)
    PROVE  \E n \in Spots : proc[p].todo = Rest(n) /\ n \in 5..30 \cup 37..44
<1>1. PICK n \in Spots : proc[p].todo = Rest(n)
  BY NeverSure DEF ProbePlaced, InScript
<1>2. Sure(Rest(n))
  BY <1>1
<1>. QED
  BY <1>1, <1>2, SureAt

\* To the installation a process that is sure waits under the lock.
LEMMA SureWaits ==
    ASSUME ProbePlaced, B!Placed, NEW p \in Procs, Sure(proc[p].todo)
    PROVE  B!place[p] = 28
<1>1. PICK n \in Spots : proc[p].todo = Rest(n) /\ n \in 5..30 \cup 37..44
  BY SureSpot
<1>2. SeenAs(n) = 28
  BY <1>1 DEF SeenAs
<1>3. procBar[p].todo = Todo(28)
  <2>1. procBar[p] = [todo |-> Todo(28), r |-> proc[p].r, dir |-> proc[p].dir, locked |-> proc[p].locked]
    BY <1>1, <1>2, BarOf
  <2>. DEFINE t == Todo(28)
  <2>. HIDE DEF t
  <2>2. procBar[p] = [todo |-> t, r |-> proc[p].r, dir |-> proc[p].dir, locked |-> proc[p].locked]
    BY <2>1 DEF t
  <2>3. procBar[p].todo = t
    BY <2>2
  <2>. QED
    BY <2>3 DEF t
<1>4. B!Todo(28) = Todo(28) /\ B!Places = Places
  <2>1. B!Code = Code /\ B!Places = Places
    BY DEF B!Code, Code, B!Places, Places
  <2>2. B!Part(28, 41) = Part(28, 41)
    BY <2>1 DEF B!Part, Part
  <2>. QED
    BY <2>1, <2>2 DEF B!Todo, Todo
<1>5. B!place[p] \in Places /\ procBar[p].todo = B!Todo(B!place[p])
  BY <1>4 DEF B!Placed
<1>6. 28 \in B!Places
  BY <1>4 DEF Places
<1>. QED
  BY <1>3, <1>4, <1>5, <1>6, B!Distinct, CustodyAssumption

\* A probe becomes sure when it finds the installation complete.
LEMMA SureGoes ==
    ASSUME ProbePlaced, NEW p \in Procs, NEW kind \in Words, kind # "report", NEW x,
           At(p, kind, x), Go(p), Sure(proc'[p].todo)
    PROVE  Sure(proc[p].todo) \/ kind = "verify"
<1>1. PICK n \in Spots : proc[p].todo = Rest(n) /\ ProbeAt(n, kind, x)
  BY InProbe
<1>2. n \notin {32, 46}
  BY <1>1 DEF ProbeAt, Words
<1>3. Tail(Rest(n)) = Rest(n + 1) /\ n + 1 \in Spots
  BY <1>2, Remaining
<1>4. proc'[p].todo = Rest(n + 1)
  <2>1. IsProc(proc[p]) /\ proc = [q \in Procs |-> proc[q]]
    BY DEF ProbePlaced
  <2>2. proc'[p] = [proc[p] EXCEPT !.todo = Tail(proc[p].todo)]
    BY <2>1 DEF Go, Advance
  <2>3. \A v : [proc[p] EXCEPT !.todo = v].todo = v
    BY <2>1, ProcTodo
  <2>. QED
    BY <1>1, <1>3, <2>2, <2>3
<1>5. n + 1 \in 5..30 \cup 37..44
  BY <1>3, <1>4, SureAt
<1>6. n \in 4..29 \cup 36..43
  BY <1>5 DEF Spots
<1>7. n \in {4, 36} => kind = "verify"
  BY <1>1 DEF ProbeAt, Words
<1>8. n \notin {4, 36} => Sure(Rest(n))
  BY <1>6, SureAt
<1>. QED
  BY <1>1, <1>7, <1>8

\* Who is sure after a working step was sure before it.
LEMMA SureWorks ==
    ASSUME ProbePlaced, NEW p \in Procs, Sure(proc'[p].todo),
           \/ Marker(p) \/ Launch(p) \/ ready(p) \/ active(p)
           \/ observe_processes(p) \/ FaultMain(p) \/ FaultLauncher(p) \/ wait_failure(p)
           \/ LauncherEnds(p) \/ CleanupStop(p) \/ CleanupReset(p) \/ CleanupGone(p)
    PROVE  Sure(proc[p].todo)
<1>1. Go(p) /\ \E kind \in Words \ {"report", "verify"} : \E x : At(p, kind, x)
  <2>1. CASE Marker(p)
    BY <2>1 DEF Marker, Words
  <2>2. CASE Launch(p)
    BY <2>2 DEF Launch, Words
  <2>3. CASE ready(p) \/ active(p) \/ observe_processes(p)
    BY <2>3 DEF ready, active, observe_processes, Words
  <2>4. CASE FaultMain(p) \/ FaultLauncher(p)
    BY <2>4 DEF FaultMain, FaultLauncher, Words
  <2>5. CASE wait_failure(p)
    BY <2>5 DEF wait_failure, Words
  <2>6. CASE LauncherEnds(p)
    BY <2>6 DEF LauncherEnds, Words
  <2>7. CASE CleanupStop(p) \/ CleanupReset(p) \/ CleanupGone(p)
    BY <2>7 DEF CleanupStop, CleanupReset, CleanupGone, Words
  <2>. QED
    BY <2>1, <2>2, <2>3, <2>4, <2>5, <2>6, <2>7
<1>2. PICK kind \in Words \ {"report", "verify"} : \E x : At(p, kind, x)
  BY <1>1
<1>3. PICK x : At(p, kind, x)
  BY <1>2
<1>. QED
  BY <1>1, <1>3, SureGoes

\* Who is sure after an exception was sure before it.
LEMMA SureRaises ==
    ASSUME ProbePlaced, NEW p \in Procs, Raise(p), Sure(proc'[p].todo)
    PROVE  Sure(proc[p].todo)
<1>1. Probing(p)
  BY DEF Raise
<1>2. PICK n \in Spots : proc[p].todo = Rest(n)
  BY <1>1, Unlike
<1>3. CASE CaughtAt(n) = 0
  <2>1. Handler(Rest(n)) = <<>>
    BY <1>3, Caught
  <2>2. proc' = [proc EXCEPT ![p] = Idle]
    BY <1>2, <2>1 DEF Raise
  <2>3. proc'[p] = Idle
    <3>1. proc = [q \in Procs |-> proc[q]]
      BY DEF ProbePlaced
    <3>. QED
      BY <2>2, <3>1
  <2>. QED
    BY <2>3, IdleHost, NeverSure
<1>4. CASE CaughtAt(n) # 0
  <2>1. n \in 5..30 \cup 37..44
    BY <1>4 DEF CaughtAt
  <2>. QED
    BY <1>2, <2>1, SureAt
<1>. QED
  BY <1>3, <1>4

\* Who waits for the launcher is sure.
LEMMA SureReaps ==
    ASSUME ProbePlaced, NEW p \in Procs, ReapLauncher(p)
    PROVE  Sure(proc[p].todo)
<1>1. At(p, "reap", "launcher")
  BY DEF ReapLauncher
<1>2. PICK n \in Spots : proc[p].todo = Rest(n) /\ ProbeAt(n, "reap", "launcher")
  BY <1>1, InProbe DEF Words
<1>3. n \in 5..30 \cup 37..44
  BY <1>2 DEF ProbeAt
<1>. QED
  BY <1>2, <1>3, SureAt

\* Who begins has all of its script left to do.
LEMMA SureBegins ==
    ASSUME ProbePlaced, NEW p \in Procs, NEW s, NEW id, Begin(p, s, id)
    PROVE  proc'[p].todo = s
<1>1. proc' = [proc EXCEPT ![p] = [Idle EXCEPT !.todo = s, !.r.id = id]]
  BY DEF Begin
<1>2. proc = [q \in Procs |-> proc[q]]
  BY DEF ProbePlaced
<1>3. proc'[p] = [Idle EXCEPT !.todo = s, !.r.id = id]
  BY <1>1, <1>2
<1>. QED
  BY <1>3, Started

\* A probe is not sure when it starts.
LEMMA SureStarts ==
    ASSUME ProbePlaced, KindsKnown, NEW p \in Procs, StartProbe(p)
    PROVE  ~Sure(proc'[p].todo)
<1>1. PICK kind \in kinds : Begin(p, ProbeScript(kind), 0)
  BY DEF StartProbe
<1>2. kind = "h2b" \/ kind = "h2d"
  BY <1>1 DEF KindsKnown
<1>3. PICK n \in {1, 33} : ProbeScript(kind) = Rest(n)
  BY <1>2, ProbeScripts
<1>4. proc'[p].todo = Rest(n)
  BY <1>1, <1>3, SureBegins
<1>5. n \in Spots /\ n \notin 5..30 \cup 37..44
  BY DEF Spots
<1>. QED
  BY <1>4, <1>5, SureAt

\* What verify wants includes an installation that stands.
LEMMA CompleteStands == Complete => Stand
  BY DEF Complete, InPlace, Stand

\* A step of a probe does not touch the host, and it is sure only of what it saw.
LEMMA SureProbe ==
    ASSUME ProbePlaced, KindsKnown, NEW p \in Procs, ProbeStep(p)
    PROVE  /\ UNCHANGED <<obj, saved, user, group, loaded>>
           /\ Sure(proc'[p].todo) => Sure(proc[p].todo) \/ Stand
           /\ \A q \in Procs \ {p} : proc'[q] = proc[q]
<1>1. UNCHANGED <<obj, saved, user, group, loaded>>
  <2>1. CASE StartProbe(p) \/ Raise(p) \/ ReapLauncher(p) \/ Report(p)
    BY <2>1 DEF StartProbe, Begin, Raise, ReapLauncher, Report, host
  <2>2. Go(p) => UNCHANGED <<obj, saved, user, group, loaded>>
    BY DEF Go, host
  <2>. QED
    BY <2>1, <2>2 DEF ProbeStep, Marker, VerifyInstalled, Launch, ready, active, observe_processes,
       FaultMain, FaultLauncher, wait_failure, LauncherEnds, CleanupStop, CleanupReset, CleanupGone
<1>2. ASSUME Sure(proc'[p].todo) PROVE Sure(proc[p].todo) \/ Stand
  <2>1. CASE StartProbe(p)
    BY <1>2, <2>1, SureStarts
  <2>2. CASE Raise(p) \/ ReapLauncher(p)
    BY <1>2, <2>2, SureRaises, SureReaps
  <2>3. CASE VerifyInstalled(p)
    BY <2>3, CompleteStands DEF VerifyInstalled
  <2>4. CASE Report(p)
    <3>1. proc' = [proc EXCEPT ![p] = Idle] /\ proc = [q \in Procs |-> proc[q]]
      BY <2>4 DEF Report, ProbePlaced
    <3>2. proc'[p] = Idle
      BY <3>1
    <3>. QED
      BY <1>2, <3>2, IdleHost, NeverSure
  <2>5. CASE \/ Marker(p) \/ Launch(p) \/ ready(p) \/ active(p)
             \/ observe_processes(p) \/ FaultMain(p) \/ FaultLauncher(p) \/ wait_failure(p)
             \/ LauncherEnds(p) \/ CleanupStop(p) \/ CleanupReset(p) \/ CleanupGone(p)
    BY <1>2, <2>5, SureWorks
  <2>. QED
    BY <2>1, <2>2, <2>3, <2>4, <2>5 DEF ProbeStep
<1>3. \A q \in Procs \ {p} : proc'[q] = proc[q]
  <2>1. \E c : proc' = [proc EXCEPT ![p] = c]
    <3>1. StartProbe(p) => \E c : proc' = [proc EXCEPT ![p] = c]
      BY DEF StartProbe, Begin
    <3>2. Raise(p) \/ ReapLauncher(p) \/ Report(p) => \E c : proc' = [proc EXCEPT ![p] = c]
      BY DEF Raise, ReapLauncher, Report
    <3>3. Go(p) => \E c : proc' = [proc EXCEPT ![p] = c]
      BY DEF Go, Advance
    <3>. QED
      BY <3>1, <3>2, <3>3 DEF ProbeStep, Marker, VerifyInstalled, Launch, ready, active,
         observe_processes, FaultMain, FaultLauncher, wait_failure, LauncherEnds, CleanupStop,
         CleanupReset, CleanupGone
  <2>2. proc = [q \in Procs |-> proc[q]]
    BY DEF ProbePlaced
  <2>. QED
    BY <2>1, <2>2
<1>. QED
  BY <1>1, <1>2, <1>3

\* What the installer does leaves who is sure to itself.
LEMMA SureInstaller ==
    ASSUME ProbePlaced, NEW p \in Procs, HostStep(p)
    PROVE  /\ Sure(proc'[p].todo) => Sure(proc[p].todo) /\ UNCHANGED <<obj, saved, user, group, loaded>>
           /\ \A q \in Procs \ {p} : proc'[q] = proc[q]
<1>1. PICK c : /\ GoesTo(p, c)
               /\ c.todo \in {<<>>, Tail(proc[p].todo), UserdelScript \o Tail(proc[p].todo)}
  BY HostStepShape DEF Leaves
<1>2. proc'[p] = c /\ \A q \in Procs \ {p} : proc'[q] = proc[q]
  <2>1. proc = [q \in Procs |-> proc[q]]
    BY DEF ProbePlaced
  <2>. QED
    BY <1>1, <2>1 DEF GoesTo
<1>3. proc[p].todo # <<>>
  BY HostStepAnswers
<1>4. CASE proc[p].todo \in Seq(HostSteps)
  <2>1. Tail(proc[p].todo) \in Seq(HostSteps) /\ <<>> \in Seq(HostSteps)
    BY <1>3, <1>4, HeadTailProperties
  <2>2. UserdelScript \o Tail(proc[p].todo) \in Seq(HostSteps)
    BY <2>1, UserdelSteps, ConcatProperties
  <2>3. proc'[p].todo \in Seq(HostSteps)
    BY <1>1, <1>2, <2>1, <2>2
  <2>. QED
    BY <1>2, <2>3, NeverSure
<1>5. CASE proc[p].todo \notin Seq(HostSteps)
  <2>1. PICK n \in Spots : Probing(p) /\ proc[p].todo = Rest(n)
    BY <1>5, Unlike
  <2>2. CASE Abort(p)
    <3>1. proc' = [proc EXCEPT ![p] = Idle] /\ proc = [q \in Procs |-> proc[q]]
      BY <2>2 DEF Abort, ProbePlaced
    <3>2. proc'[p] = Idle
      BY <3>1
    <3>. QED
      BY <1>2, <3>2, IdleHost, NeverSure
  <2>3. CASE Open(p) \/ Flock(p)
    <3>1. n \in {2, 3, 34, 35}
      BY <2>1, <2>3, ProbeHead DEF Open, Flock, ProbeAt
    <3>2. n \notin {32, 46}
      BY <3>1
    <3>3. Tail(Rest(n)) = Rest(n + 1) /\ n + 1 \in Spots
      BY <3>2, Remaining
    <3>4. n + 1 \notin 5..30 \cup 37..44
      BY <3>1
    <3>5. ~Sure(Tail(proc[p].todo))
      BY <2>1, <3>3, <3>4, SureAt
    <3>6. proc'[p].todo = Tail(proc[p].todo)
      <4>1. IsProc(proc[p]) /\ proc = [q \in Procs |-> proc[q]]
        BY DEF ProbePlaced
      <4>2. CASE Open(p)
        <5>1. proc'[p] = [proc[p] EXCEPT !.todo = Tail(proc[p].todo), !.dir = dirs]
          BY <4>1, <4>2 DEF Open
        <5>2. \A v, w : [proc[p] EXCEPT !.todo = v, !.dir = w].todo = v
          BY <4>1, ProcDir
        <5>. QED
          BY <5>1, <5>2
      <4>3. CASE Flock(p)
        <5>1. proc'[p] = [proc[p] EXCEPT !.todo = Tail(proc[p].todo), !.locked = TRUE]
          BY <4>1, <4>3 DEF Flock
        <5>2. \A v, w : [proc[p] EXCEPT !.todo = v, !.locked = w].todo = v
          BY <4>1, ProcLocked
        <5>. QED
          BY <5>1, <5>2
      <4>. QED
        BY <2>3, <4>2, <4>3
    <3>. QED
      BY <1>2, <3>5, <3>6
  <2>. QED
    BY <2>1, <2>2, <2>3, ProbeTakes
<1>. QED
  BY <1>4, <1>5

\* Nor does the start of an operation.
LEMMA SureOperation ==
    ASSUME ProbePlaced, NEW p \in Procs, apply(p) \/ verify(p) \/ rollback(p)
    PROVE  /\ UNCHANGED <<obj, saved, user, group, loaded>> /\ ~Sure(proc'[p].todo)
           /\ \A q \in Procs \ {p} : proc'[q] = proc[q]
<1>1. PICK s \in Seq(HostSteps), id \in {0, ops + 1} : Begin(p, s, id)
  BY SameScripts DEF apply, verify, rollback
<1>2. ~Sure(proc'[p].todo)
  BY <1>1, SureBegins, NeverSure
<1>3. proc' = [proc EXCEPT ![p] = [Idle EXCEPT !.todo = s, !.r.id = id]] /\ proc = [q \in Procs |-> proc[q]]
  BY <1>1 DEF Begin, ProbePlaced
<1>4. \A q \in Procs \ {p} : proc'[q] = proc[q]
  BY <1>3
<1>. QED
  BY <1>1, <1>2, <1>4 DEF Begin, host

\* An installation stands as long as the host is not changed.
LEMMA StandsOn ==
    ASSUME Stand, UNCHANGED <<obj, saved, user, group, loaded>>
    PROVE  Stand'
  BY DEF Stand, ReceiptReadable, AllFiles

\* Under the lock nobody but the one who is sure could change what it saw.
LEMMA StandHeld ==
    ASSUME ProbePlaced, B!CustodyType, B!Placed, B!LockInv, Stand,
           NEW p \in Procs, Sure(proc[p].todo), NEW q \in Procs \ {p}, HostStep(q)
    PROVE  UNCHANGED <<obj, saved, user, group, loaded>>
<1>1. B!place[p] = 28
  BY SureWaits
<1>2. obj["state"] = "ok"
  BY DEF Stand, ReceiptReadable
<1>3. B!HostStep(q)
  <2>1. CASE Probing(q)
    BY <2>1, ProbeHostStep
  <2>2. CASE ~Probing(q)
    <3>1. Plain(q)
      BY <2>2, Unlike DEF Plain
    <3>. QED
      BY <3>1, PlainStep
  <2>. QED
    BY <2>1, <2>2
<1>. QED
  BY <1>1, <1>2, <1>3, B!HeldStill, CustodyAssumption

\* Every step of the composition keeps StandInv.
LEMMA StandNext ==
    ASSUME ProbePlaced, KindsKnown, B!CustodyType, B!Placed, B!LockInv, StandInv, [ProbeNext]_probeVars
    PROVE  StandInv'
<1>. SUFFICES ASSUME NEW p \in Procs, Sure(proc'[p].todo) PROVE Stand'
  BY DEF StandInv
<1>1. Sure(proc[p].todo) => Stand
  BY DEF StandInv
<1>2. CASE UNCHANGED probeVars
  <2>1. UNCHANGED <<obj, saved, user, group, loaded>> /\ proc' = proc
    BY <1>2 DEF probeVars, vars
  <2>. QED
    BY <1>1, <2>1, StandsOn
<1>3. ASSUME NEW q \in Procs, HostStep(q) PROVE Stand'
  <2>1. CASE q = p
    BY <1>1, <1>3, <2>1, SureInstaller, StandsOn
  <2>2. CASE q # p
    <3>1. proc'[p] = proc[p]
      BY <1>3, <2>2, SureInstaller
    <3>2. Sure(proc[p].todo) /\ Stand
      BY <1>1, <3>1
    <3>3. q \in Procs \ {p}
      BY <2>2
    <3>4. UNCHANGED <<obj, saved, user, group, loaded>>
      BY <1>3, <3>2, <3>3, StandHeld
    <3>. QED
      BY <3>2, <3>4, StandsOn
  <2>. QED
    BY <2>1, <2>2
<1>4. ASSUME NEW q \in Procs, apply(q) \/ verify(q) \/ rollback(q) PROVE Stand'
  <2>1. /\ UNCHANGED <<obj, saved, user, group, loaded>> /\ ~Sure(proc'[q].todo)
        /\ \A k \in Procs \ {q} : proc'[k] = proc[k]
    BY <1>4, SureOperation
  <2>2. p # q
    BY <2>1
  <2>3. proc'[p] = proc[p]
    BY <2>1, <2>2
  <2>4. Stand
    BY <1>1, <2>3
  <2>. QED
    BY <2>1, <2>4, StandsOn
<1>5. CASE AdminEdit
  <2>1. Quiet /\ proc' = proc
    BY <1>5 DEF AdminEdit
  <2>2. PICK n \in Spots : proc[p].todo = Rest(n)
    BY <2>1, SureSpot
  <2>3. proc[p].todo # <<>>
    BY <2>2, Remaining
  <2>. QED
    BY <2>1, <2>3 DEF Quiet, Active
<1>6. ASSUME NEW q \in Procs, ProbeStep(q) PROVE Stand'
  <2>1. /\ UNCHANGED <<obj, saved, user, group, loaded>>
        /\ Sure(proc'[q].todo) => Sure(proc[q].todo) \/ Stand
        /\ \A k \in Procs \ {q} : proc'[k] = proc[k]
    BY <1>6, SureProbe
  <2>2. Stand
    <3>1. CASE q = p
      BY <1>1, <2>1, <3>1
    <3>2. CASE q # p
      <4>1. proc'[p] = proc[p]
        BY <2>1, <3>2
      <4>. QED
        BY <1>1, <4>1
    <3>. QED
      BY <3>1, <3>2
  <2>. QED
    BY <2>1, <2>2, StandsOn
<1>7. CASE (\E q \in Procs : LauncherExits(q)) \/ (\E k \in Names : ManagerStep(k))
  <2>1. UNCHANGED <<obj, saved, user, group, loaded>> /\ proc' = proc
    BY <1>7 DEF LauncherExits, ManagerStep, host
  <2>. QED
    BY <1>1, <2>1, StandsOn
<1>. QED
  BY <1>2, <1>3, <1>4, <1>5, <1>6, <1>7 DEF ProbeNext, InstallerStep, Step

\* At first nobody is sure.
LEMMA StandInit == ProbeInit => StandInv
<1>. SUFFICES ASSUME ProbeInit, NEW p \in Procs PROVE ~Sure(proc[p].todo)
  BY DEF StandInv
<1>1. proc = [q \in Procs |-> Idle]
  BY DEF ProbeInit, Installed, Init
<1>2. proc[p] = Idle
  BY <1>1
<1>. QED
  BY <1>2, IdleHost, NeverSure

\* StandInv is what the property says of the host while a probe's units run.
LEMMA StandIsEnough == StandInv => ProbedHostStands
<1>. SUFFICES ASSUME StandInv, NEW p \in Procs, InTry(p)
              PROVE  /\ ReceiptReadable /\ AllFiles /\ loaded
                     /\ user.tag = saved.id /\ group.gid = user.uid
  BY DEF ProbedHostStands
<1>1. Sure(proc[p].todo)
  BY DEF InTry, Sure
<1>2. Stand
  BY <1>1 DEF StandInv
<1>. QED
  BY <1>2 DEF Stand

\* What a probe reports is earned, and while its units run the installation it
\* verified stands, because it holds the lock: nobody else changes the host.
THEOREM ProbesReportTheTruth == AtomicLock => (ProbeSpec => []ProbesAreSound)
<1>. SUFFICES ASSUME AtomicLock PROVE ProbeSpec => []ProbesAreSound
  OBVIOUS
<1>1. B!InstallSpec => [](B!CustodyType /\ B!Placed /\ B!ForeignInv)
  BY B!CustodyInvariant, CustodyAssumption
<1>2. B!InstallSpec => []B!LockInv
  BY B!LockInvariant, CustodyAssumption
<1>3. ProbeInit => ProbePlaced /\ KindsKnown /\ StandInv
  BY ProbeInitBar, StandInit
<1>4. B!CustodyType /\ B!Placed /\ B!LockInv /\ ProbePlaced /\ KindsKnown /\ StandInv
        /\ [ProbeNext]_probeVars => ProbePlaced' /\ KindsKnown' /\ StandInv'
  BY ProbeNextBar, StandNext
<1>5. PassIsEarned /\ StandInv => ProbesAreSound
  BY StandIsEnough DEF ProbesAreSound
<1>. QED
  BY <1>1, <1>2, <1>3, <1>4, <1>5, ProbesImplementInstaller, PassesAreEarned, PTL DEF ProbeSpec

===============================================================================
