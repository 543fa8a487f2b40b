-------------------------- MODULE SvsematestProofs --------------------------
(***************************************************************************)
(* Proofs about Svsematest for any number of pairs and of cycles: nobody   *)
(* reads a stamp that is being written, and the pairs whose senders are in *)
(* time implement PingPong.                                                *)
(***************************************************************************)
EXTENDS Svsematest, TLAPS

-----------------------------------------------------------------------------
(* The inductive invariant *)

\* Where a sender and a receiver can be.
SenderLocs   == {"unborn", "top", "stamp", "postS", "count", "getR", "waitR", "getS",
                 "waitS", "lastS", "lastR", "stopped"}
ReceiverLocs == {"unborn", "top", "getS", "waitS", "measure", "postR", "sleep", "postS",
                 "stopped"}
Locs == SenderLocs \cup ReceiverLocs

\* The types of the variables.
TypeInv ==
  /\ pc \in [Pairs -> [Sides -> Locs]]
  /\ mpc \in {"receiver", "sender", "loop", "stop", "kill", "exit"}
  /\ R \in [Pairs -> Nat] /\ S \in [Pairs -> Nat]
  /\ DOMAIN queue = Pairs
  /\ flag \in [Pairs -> [Sides -> {0, 1}]]
  /\ samples \in [Pairs -> [Sides -> Nat]]
  /\ unblocked \in [Pairs -> Nat]
  /\ sigterm \in [Pairs -> [Sides -> {0, 1}]]
  /\ trust \in [Pairs -> Trust]
  /\ i \in Pairs /\ mustshutdown \in {0, 1}

\* The threads main has not created yet; main signals nobody while it reports, and
\* nobody else does before it has created the threads.
Unborn ==
  /\ mpc = "receiver" => \A n \in Pairs : n >= i =>
       pc[n]["sender"] = "unborn" /\ pc[n]["receiver"] = "unborn"
  /\ mpc = "sender" =>
       /\ pc[i]["sender"] = "unborn" /\ pc[i]["receiver"] # "unborn"
       /\ \A n \in Pairs : n > i =>
            pc[n]["sender"] = "unborn" /\ pc[n]["receiver"] = "unborn"
  /\ mpc \in {"receiver", "sender"} => \A n \in Pairs : trust[n] # "none"
  /\ \A n \in Pairs, s \in Sides : trust[n] # "none" =>
       mpc \in {"receiver", "sender", "loop"} /\ sigterm[n][s] = 0

\* S is free, with the sender or with the receiver: always in one place.  A sender
\* that main has not created yet has it.
SenderHasS(n)   == pc[n]["sender"] \in {"unborn", "top", "stamp", "postS", "lastS"}
ReceiverHasS(n) == pc[n]["receiver"] \in {"measure", "postR", "sleep", "postS"}

Token(n) ==
  /\ pc[n]["sender"] \in SenderLocs /\ pc[n]["receiver"] \in ReceiverLocs
  /\ S[n] \in {0, 1}
  /\ S[n] = 1 => ~SenderHasS(n) /\ ~ReceiverHasS(n)
  /\ SenderHasS(n) => ~ReceiverHasS(n)
  /\ S[n] = 0 => SenderHasS(n) \/ ReceiverHasS(n)
  /\ pc[n]["sender"] = "waitS" \/ pc[n]["receiver"] = "waitS" => S[n] = 0
  /\ queue[n] = IF pc[n]["sender"] = "waitS" THEN <<"sender">>
                ELSE IF pc[n]["receiver"] = "waitS" THEN <<"receiver">> ELSE <<>>

\* The stamp of the sender is not measured yet.
Due(n) ==
  \/ pc[n]["sender"] = "postS" \/ pc[n]["receiver"] = "measure"
  \/ pc[n]["sender"] \in {"count", "getR", "waitR"} /\ S[n] = 1

\* A pair whose sender has always been in time: the sender waits for R while its
\* stamp is measured, and for S before the receiver releases it, so that the
\* receiver never takes S back.
Round(n) ==
  LET s == pc[n]["sender"]
      r == pc[n]["receiver"]
      count(side) == samples[n][side]
  IN /\ unblocked[n] = count("receiver") + (IF Due(n) THEN 1 ELSE 0)
     /\ s = "unborn" => unblocked[n] = 0 /\ flag[n]["receiver"] = 0
     /\ s # "unborn" =>
          count("sender") = IF s \in {"postS", "count"} THEN unblocked[n] - 1
                            ELSE unblocked[n]
     /\ R[n] \in {0, 1}
     /\ R[n] = 1 => s = "stopped" \/ (s \in {"count", "getR"} /\ r = "sleep")
     /\ s \in {"count", "getR", "waitR"} /\ R[n] = 0 =>
          S[n] = 1 \/ r \in {"measure", "postR"}
     /\ s \in {"getS", "waitS"} => r \in {"sleep", "postS"}
     /\ s \notin {"waitS", "getS"} => r # "postS"
     /\ s = "getS" => r = "sleep"
     /\ r = "sleep" => s \in {"count", "getR", "getS", "waitS"}
     /\ s = "waitR" => R[n] = 0
     /\ s \in {"lastR", "stopped"} => S[n] = 1
     /\ s \in {"lastS", "lastR", "stopped"} => flag[n]["receiver"] = 1
     /\ flag[n]["receiver"] = 1 => r \notin {"unborn", "getS", "waitS", "measure"}
     /\ count("receiver") >= MaxCycles => flag[n]["receiver"] = 1
     /\ s # "unborn" /\ flag[n]["sender"] = 1 =>
          flag[n]["receiver"] = 1 \/ count("sender") >= MaxCycles

\* What a pair keeps while main can rely on its stamps; the rounds, unless its sender
\* was late.
Handover ==
  \A n \in Pairs : /\ trust[n] # "none" => Token(n)
                   /\ trust[n] = "latency" => Round(n)

Ind == TypeInv /\ Unborn /\ Handover

-----------------------------------------------------------------------------
(* What the steps have in common *)

\* Pairs are numbered from 0.
LEMMA PairsAreNumbers == Pairs \subseteq Nat /\ 0 \in Pairs /\ NThreads \in Nat
  BY ConstantsAssumption DEF Pairs

\* Nothing of pair m changes.
Same(m) ==
  /\ pc'[m] = pc[m] /\ R'[m] = R[m] /\ S'[m] = S[m] /\ queue'[m] = queue[m]
  /\ flag'[m] = flag[m] /\ samples'[m] = samples[m] /\ unblocked'[m] = unblocked[m]
  /\ trust'[m] = trust[m]

\* A pair that nobody touches keeps its invariant.
LEMMA PairFrame ==
  ASSUME NEW m \in Pairs, Same(m)
  PROVE  /\ Token(m) => Token(m)'
         /\ Round(m) => Round(m)'
<1>1. Token(m) => Token(m)'
  BY DEF Token, Same, SenderHasS, ReceiverHasS
<1>2. Round(m) => Round(m)'
  BY DEF Round, Same, Due
<1> QED
  BY <1>1, <1>2

\* A step of pair n: it has to keep the types and the invariant of the pair, and does
\* not create a thread.
LEMMA StepOfPair ==
  ASSUME Ind, TypeInv', NEW n \in Pairs,
         UNCHANGED <<mpc, i, sigterm>>, \A m \in Pairs \ {n} : Same(m),
         trust[n] # "none" =>
           /\ trust'[n] # "none" /\ Token(n)'
           /\ \A s \in Sides : pc'[n][s] = "unborn" <=> pc[n][s] = "unborn",
         trust[n] = "none" => trust'[n] = "none",
         trust'[n] = "latency" => Round(n)'
  PROVE  Ind'
<1> USE DEF Sides
<1>1. Unborn'
  <2>1. \A m \in Pairs : trust[m] # "none" =>
          /\ trust'[m] # "none"
          /\ \A s \in Sides : pc'[m][s] = "unborn" <=> pc[m][s] = "unborn"
    BY DEF Same
  <2>2. \A m \in Pairs : trust'[m] # "none" => trust[m] # "none"
    BY DEF Same
  <2> QED
    BY <2>1, <2>2 DEF Ind, TypeInv, Unborn
<1>2. Handover'
  <2> SUFFICES ASSUME NEW m \in Pairs
               PROVE  /\ trust'[m] # "none" => Token(m)'
                      /\ trust'[m] = "latency" => Round(m)'
    BY DEF Handover
  <2>1. CASE m = n
    BY <2>1
  <2>2. CASE m # n
    BY <2>2, PairFrame DEF Ind, Handover, Same
  <2> QED
    BY <2>1, <2>2
<1> QED
  BY <1>1, <1>2 DEF Ind

\* Where the threads are after side s of pair n has gone on.
LEMMA GoStep ==
  ASSUME TypeInv, NEW n \in Pairs, NEW s \in Sides, NEW from, NEW to \in Locs,
         Go(n, s, from, to)
  PROVE  /\ pc[n][s] = from /\ pc'[n][s] = to
         /\ \A t \in Sides : t # s => pc'[n][t] = pc[n][t]
         /\ \A m \in Pairs \ {n} : pc'[m] = pc[m]
         /\ pc' \in [Pairs -> [Sides -> Locs]]
  BY DEF TypeInv, Go

-----------------------------------------------------------------------------
(* The steps of the threads *)

\* A thread looks at its flag.  A sender in time that sees it knows that the receiver
\* has its flag set as well.
LEMMA TopStep ==
  ASSUME Ind, NEW n \in Pairs, NEW s \in Sides, Top(n, s)
  PROVE  Ind'
<1> DEFINE to == IF flag[n][s] = 0 THEN (IF s = "sender" THEN "stamp" ELSE "getS")
                 ELSE IF s = "sender" THEN "lastS" ELSE "stopped"
<1> USE DEF semVars, dataVars
<1>1. to \in Locs /\ to # "unborn"
  BY DEF Locs, SenderLocs, ReceiverLocs
<1>2. /\ pc[n][s] = "top" /\ pc'[n][s] = to
      /\ \A t \in Sides : t # s => pc'[n][t] = pc[n][t]
      /\ \A m \in Pairs \ {n} : pc'[m] = pc[m]
      /\ pc' \in [Pairs -> [Sides -> Locs]]
  <2>1. Go(n, s, "top", to)
    BY DEF Top
  <2> HIDE DEF to
  <2> QED
    BY <1>1, <2>1, GoStep DEF Ind
<1>3. TypeInv'
  BY <1>2 DEF Ind, TypeInv, Top
<1>4. ASSUME trust[n] # "none"
      PROVE  Token(n)'
  BY <1>2, <1>4 DEF Ind, Handover, Top, Token, SenderHasS, ReceiverHasS, Sides,
     SenderLocs, ReceiverLocs
<1>5. ASSUME trust[n] = "latency"
      PROVE  Round(n)'
  BY <1>2, <1>5 DEF Ind, TypeInv, Handover, Top, Token, SenderHasS, ReceiverHasS, Sides,
     SenderLocs, ReceiverLocs, Round, Due
<1> QED
  BY <1>2, <1>3, <1>4, <1>5, StepOfPair DEF Top, Same

\* A stamp is due until the receiver has measured it.
LEMMA StampStep ==
  ASSUME Ind, NEW n \in Pairs, Stamp(n)
  PROVE  Ind'
<1> DEFINE to == "postS"
<1> USE DEF semVars, dataVars
<1>1. to \in Locs /\ to # "unborn" /\ "sender" \in Sides /\ "receiver" \in Sides
  BY DEF Locs, SenderLocs, ReceiverLocs, Sides, AfterGetS
<1>2. /\ pc[n]["sender"] = "stamp" /\ pc'[n]["sender"] = to
      /\ \A t \in Sides : t # "sender" => pc'[n][t] = pc[n][t]
      /\ \A m \in Pairs \ {n} : pc'[m] = pc[m]
      /\ pc' \in [Pairs -> [Sides -> Locs]]
  <2>1. Go(n, "sender", "stamp", to)
    BY DEF Stamp
  <2> HIDE DEF to
  <2> QED
    BY <1>1, <2>1, GoStep DEF Ind
<1> HIDE DEF to
<1>3. TypeInv'
  <2>1. unblocked' \in [Pairs -> Nat]
    BY <1>1 DEF Ind, TypeInv, Stamp
  <2>2. TypeInv
    BY DEF Ind
  <2>3. UNCHANGED <<mpc, R, S, queue, flag, samples, sigterm, trust, i, mustshutdown>>
    BY DEF Stamp
  <2> QED
    BY <1>2, <2>1, <2>2, <2>3 DEF TypeInv
<1> USE DEF to
<1>4. ASSUME trust[n] # "none"
      PROVE  Token(n)'
  BY <1>2, <1>4 DEF Ind, TypeInv, Handover, Stamp, Token, SenderHasS, ReceiverHasS, Sides,
     SenderLocs, ReceiverLocs, AfterGetS
<1>5. ASSUME trust'[n] = "latency"
      PROVE  Round(n)'
  <2>1. /\ Token(n) /\ Round(n)
        /\ unblocked[n] \in Nat /\ samples[n]["sender"] \in Nat
        /\ samples[n]["receiver"] \in Nat
    BY <1>5 DEF Ind, TypeInv, Handover, Sides, Stamp
  <2>2. /\ R'[n] = R[n] /\ S'[n] = S[n] /\ flag'[n] = flag[n]
        /\ samples'[n] = samples[n] /\ unblocked'[n] = unblocked[n] + 1
    BY DEF Ind, TypeInv, Stamp
  <2>3. pc'[n]["receiver"] = pc[n]["receiver"]
    BY <1>1, <1>2
  <2> QED
    BY <1>2, <2>1, <2>2, <2>3 DEF Token, SenderHasS, ReceiverHasS, SenderLocs,
       ReceiverLocs, Round, Due
<1> HIDE DEF to
<1>6. \A m \in Pairs \ {n} : Same(m)
  BY <1>2 DEF Ind, TypeInv, Stamp, Same
<1>7. UNCHANGED <<mpc, i, sigterm, trust>>
  BY DEF Stamp
<1> QED
  BY <1>1, <1>2, <1>3, <1>4, <1>5, <1>6, <1>7, StepOfPair

\* The sender counts its cycle, and sets its flag after the last.
LEMMA CountStep ==
  ASSUME Ind, NEW n \in Pairs, Count(n)
  PROVE  Ind'
<1> DEFINE to == "getR"
<1> USE DEF semVars, dataVars
<1>1. to \in Locs /\ to # "unborn" /\ "sender" \in Sides /\ "receiver" \in Sides
  BY DEF Locs, SenderLocs, ReceiverLocs, Sides, AfterGetS
<1>2. /\ pc[n]["sender"] = "count" /\ pc'[n]["sender"] = to
      /\ \A t \in Sides : t # "sender" => pc'[n][t] = pc[n][t]
      /\ \A m \in Pairs \ {n} : pc'[m] = pc[m]
      /\ pc' \in [Pairs -> [Sides -> Locs]]
  <2>1. Go(n, "sender", "count", to)
    BY DEF Count
  <2> HIDE DEF to
  <2> QED
    BY <1>1, <2>1, GoStep DEF Ind
<1> HIDE DEF to
<1>3. TypeInv'
  <2>1. samples' \in [Pairs -> [Sides -> Nat]]
    BY <1>1 DEF Ind, TypeInv, Count
  <2>2. flag' \in [Pairs -> [Sides -> {0, 1}]]
    BY <1>1 DEF Ind, TypeInv, Count
  <2>3. TypeInv
    BY DEF Ind
  <2>4. UNCHANGED <<mpc, R, S, queue, unblocked, sigterm, trust, i, mustshutdown>>
    BY DEF Count
  <2> QED
    BY <1>2, <2>1, <2>2, <2>3, <2>4 DEF TypeInv
<1> USE DEF to
<1>8. /\ samples'[n]["sender"] = samples[n]["sender"] + 1
      /\ samples'[n]["receiver"] = samples[n]["receiver"]
      /\ flag'[n]["receiver"] = flag[n]["receiver"]
      /\ flag'[n]["sender"] = IF samples[n]["sender"] + 1 >= MaxCycles THEN 1
                              ELSE flag[n]["sender"]
      /\ MaxCycles \in Nat
  BY <1>1, ConstantsAssumption DEF Ind, TypeInv, Count, Sides
<1>4. ASSUME trust[n] # "none"
      PROVE  Token(n)'
  BY <1>2, <1>8, <1>4 DEF Ind, TypeInv, Handover, Count, Token, SenderHasS, ReceiverHasS, Sides,
     SenderLocs, ReceiverLocs, AfterGetS
<1>5. ASSUME trust'[n] = "latency"
      PROVE  Round(n)'
  <2>1. Round(n) /\ unblocked[n] \in Nat /\ samples[n]["sender"] \in Nat
    BY <1>1, <1>5 DEF Ind, TypeInv, Handover, Count
  <2>2. /\ pc[n]["sender"] = "count" /\ pc'[n]["sender"] = "getR"
        /\ pc'[n]["receiver"] = pc[n]["receiver"]
        /\ R'[n] = R[n] /\ S'[n] = S[n] /\ unblocked'[n] = unblocked[n]
    BY <1>1, <1>2 DEF Count
  <2>3. Due(n)' <=> Due(n)
    BY <2>2 DEF Due
  <2>4. samples'[n]["sender"] = unblocked'[n]
    BY <1>8, <2>1, <2>2 DEF Round
  <2>5. /\ unblocked'[n] = samples'[n]["receiver"] + (IF Due(n)' THEN 1 ELSE 0)
        /\ samples'[n]["receiver"] >= MaxCycles => flag'[n]["receiver"] = 1
        /\ flag'[n]["sender"] = 1 => \/ flag'[n]["receiver"] = 1
                                     \/ samples'[n]["sender"] >= MaxCycles
    <3>1. flag[n]["sender"] = 1 => \/ flag[n]["receiver"] = 1
                                   \/ samples[n]["sender"] >= MaxCycles
      BY <2>1, <2>2 DEF Round
    <3>2. /\ unblocked[n] = samples[n]["receiver"] + (IF Due(n) THEN 1 ELSE 0)
          /\ samples[n]["receiver"] >= MaxCycles => flag[n]["receiver"] = 1
      BY <2>1 DEF Round
    <3> QED
      BY <1>8, <2>1, <2>2, <2>3, <3>1, <3>2
  <2>6. /\ R'[n] \in {0, 1}
        /\ R'[n] = 1 => pc'[n]["receiver"] = "sleep"
        /\ R'[n] = 0 => S'[n] = 1 \/ pc'[n]["receiver"] \in {"measure", "postR"}
        /\ pc'[n]["receiver"] # "postS"
        /\ flag'[n]["receiver"] = 1 =>
             pc'[n]["receiver"] \notin {"unborn", "getS", "waitS", "measure"}
    BY <1>8, <2>1, <2>2 DEF Round
  <2> QED
    BY ONLY <2>2, <2>4, <2>5, <2>6 DEF Round
<1> HIDE DEF to
<1>6. \A m \in Pairs \ {n} : Same(m)
  BY <1>2 DEF Ind, TypeInv, Count, Same
<1>7. UNCHANGED <<mpc, i, sigterm, trust>>
  BY DEF Count
<1> QED
  BY <1>1, <1>2, <1>3, <1>4, <1>5, <1>6, <1>7, StepOfPair

\* The sender takes R, or waits for it.
LEMMA GetRStep ==
  ASSUME Ind, NEW n \in Pairs, GetR(n)
  PROVE  Ind'
<1> DEFINE to == IF R[n] > 0 THEN "getS" ELSE "waitR"
<1> USE DEF semVars, dataVars
<1>1. to \in Locs /\ to # "unborn" /\ "sender" \in Sides /\ "receiver" \in Sides
  BY DEF Locs, SenderLocs, ReceiverLocs, Sides, AfterGetS
<1>2. /\ pc[n]["sender"] = "getR" /\ pc'[n]["sender"] = to
      /\ \A t \in Sides : t # "sender" => pc'[n][t] = pc[n][t]
      /\ \A m \in Pairs \ {n} : pc'[m] = pc[m]
      /\ pc' \in [Pairs -> [Sides -> Locs]]
  <2>1. Go(n, "sender", "getR", to)
    BY DEF GetR
  <2> HIDE DEF to
  <2> QED
    BY <1>1, <2>1, GoStep DEF Ind
<1> HIDE DEF to
<1>3. TypeInv'
  <2>1. R' \in [Pairs -> Nat]
    BY <1>1 DEF Ind, TypeInv, GetR
  <2>2. TypeInv
    BY DEF Ind
  <2>3. UNCHANGED <<mpc, S, queue, flag, samples, unblocked, sigterm, trust, i, mustshutdown>>
    BY DEF GetR
  <2> QED
    BY <1>2, <2>1, <2>2, <2>3 DEF TypeInv
<1> USE DEF to
<1>8. R'[n] = IF R[n] > 0 THEN R[n] - 1 ELSE 0
  BY DEF Ind, TypeInv, GetR
<1>4. ASSUME trust[n] # "none"
      PROVE  Token(n)'
  BY <1>2, <1>8, <1>4 DEF Ind, TypeInv, Handover, GetR, Token, SenderHasS, ReceiverHasS, Sides,
     SenderLocs, ReceiverLocs, AfterGetS
<1>5. ASSUME trust'[n] = "latency"
      PROVE  Round(n)'
  BY <1>2, <1>8, <1>5 DEF Ind, TypeInv, Handover, GetR, Token, SenderHasS, ReceiverHasS, Sides,
     SenderLocs, ReceiverLocs, Round, Due, AfterGetS
<1> HIDE DEF to
<1>6. \A m \in Pairs \ {n} : Same(m)
  BY <1>2 DEF Ind, TypeInv, GetR, Same
<1>7. UNCHANGED <<mpc, i, sigterm, trust>>
  BY DEF GetR
<1> QED
  BY <1>1, <1>2, <1>3, <1>4, <1>5, <1>6, <1>7, StepOfPair

\* The sender takes S, or waits for it behind nobody.
LEMMA SenderGetSStep ==
  ASSUME Ind, NEW n \in Pairs, GetS(n, "sender")
  PROVE  Ind'
<1> DEFINE to == IF S[n] > 0 THEN AfterGetS["sender"] ELSE "waitS"
<1> USE DEF semVars, dataVars
<1>1. to \in Locs /\ to # "unborn" /\ "sender" \in Sides /\ "receiver" \in Sides
  BY DEF Locs, SenderLocs, ReceiverLocs, Sides, AfterGetS
<1>2. /\ pc[n]["sender"] = "getS" /\ pc'[n]["sender"] = to
      /\ \A t \in Sides : t # "sender" => pc'[n][t] = pc[n][t]
      /\ \A m \in Pairs \ {n} : pc'[m] = pc[m]
      /\ pc' \in [Pairs -> [Sides -> Locs]]
  <2>1. Go(n, "sender", "getS", to)
    BY DEF GetS
  <2> HIDE DEF to
  <2> QED
    BY <1>1, <2>1, GoStep DEF Ind
<1> HIDE DEF to
<1>3. TypeInv'
  <2>1. S' \in [Pairs -> Nat]
    BY <1>1 DEF Ind, TypeInv, GetS
  <2>2. DOMAIN queue' = Pairs
    BY <1>1 DEF Ind, TypeInv, GetS
  <2>3. TypeInv
    BY DEF Ind
  <2>4. UNCHANGED <<mpc, R, flag, samples, unblocked, sigterm, trust, i, mustshutdown>>
    BY DEF GetS
  <2> QED
    BY <1>2, <2>1, <2>2, <2>3, <2>4 DEF TypeInv
<1> USE DEF to
<1>8. /\ S'[n] = IF S[n] > 0 THEN S[n] - 1 ELSE 0
      /\ trust[n] # "none" => queue'[n] = IF S[n] > 0 THEN queue[n] ELSE <<"sender">>
  <2>1. trust[n] # "none" /\ ~(S[n] > 0) => queue[n] = <<>>
    BY <1>2 DEF Ind, TypeInv, Handover, Token, SenderHasS, ReceiverHasS
  <2>2. Append(<<>>, "sender") = <<"sender">>
    OBVIOUS
  <2> QED
    BY <2>1, <2>2 DEF Ind, TypeInv, GetS
<1>4. ASSUME trust[n] # "none"
      PROVE  Token(n)'
  BY <1>2, <1>8, <1>4 DEF Ind, TypeInv, Handover, GetS, Token, SenderHasS, ReceiverHasS, Sides,
     SenderLocs, ReceiverLocs, AfterGetS
<1>5. ASSUME trust'[n] = "latency"
      PROVE  Round(n)'
  BY <1>2, <1>8, <1>5 DEF Ind, TypeInv, Handover, GetS, Token, SenderHasS, ReceiverHasS, Sides,
     SenderLocs, ReceiverLocs, Round, Due, AfterGetS
<1> HIDE DEF to
<1>6. \A m \in Pairs \ {n} : Same(m)
  BY <1>2 DEF Ind, TypeInv, GetS, Same
<1>7. UNCHANGED <<mpc, i, sigterm, trust>>
  BY DEF GetS
<1> QED
  BY <1>1, <1>2, <1>3, <1>4, <1>5, <1>6, <1>7, StepOfPair

\* The receiver takes S, or waits for it.
LEMMA ReceiverGetSStep ==
  ASSUME Ind, NEW n \in Pairs, GetS(n, "receiver")
  PROVE  Ind'
<1> DEFINE to == IF S[n] > 0 THEN AfterGetS["receiver"] ELSE "waitS"
<1> USE DEF semVars, dataVars
<1>1. to \in Locs /\ to # "unborn" /\ "sender" \in Sides /\ "receiver" \in Sides
  BY DEF Locs, SenderLocs, ReceiverLocs, Sides, AfterGetS
<1>2. /\ pc[n]["receiver"] = "getS" /\ pc'[n]["receiver"] = to
      /\ \A t \in Sides : t # "receiver" => pc'[n][t] = pc[n][t]
      /\ \A m \in Pairs \ {n} : pc'[m] = pc[m]
      /\ pc' \in [Pairs -> [Sides -> Locs]]
  <2>1. Go(n, "receiver", "getS", to)
    BY DEF GetS
  <2> HIDE DEF to
  <2> QED
    BY <1>1, <2>1, GoStep DEF Ind
<1> HIDE DEF to
<1>3. TypeInv'
  <2>1. S' \in [Pairs -> Nat]
    BY <1>1 DEF Ind, TypeInv, GetS
  <2>2. DOMAIN queue' = Pairs
    BY <1>1 DEF Ind, TypeInv, GetS
  <2>3. TypeInv
    BY DEF Ind
  <2>4. UNCHANGED <<mpc, R, flag, samples, unblocked, sigterm, trust, i, mustshutdown>>
    BY DEF GetS
  <2> QED
    BY <1>2, <2>1, <2>2, <2>3, <2>4 DEF TypeInv
<1> USE DEF to
<1>8. /\ S'[n] = IF S[n] > 0 THEN S[n] - 1 ELSE 0
      /\ trust[n] # "none" => queue'[n] = IF S[n] > 0 THEN queue[n] ELSE <<"receiver">>
  <2>1. trust[n] # "none" /\ ~(S[n] > 0) => queue[n] = <<>>
    BY <1>2 DEF Ind, TypeInv, Handover, Token, SenderHasS, ReceiverHasS
  <2>2. Append(<<>>, "receiver") = <<"receiver">>
    OBVIOUS
  <2> QED
    BY <2>1, <2>2 DEF Ind, TypeInv, GetS
<1>4. ASSUME trust[n] # "none"
      PROVE  Token(n)'
  BY <1>2, <1>8, <1>4 DEF Ind, TypeInv, Handover, GetS, Token, SenderHasS, ReceiverHasS, Sides,
     SenderLocs, ReceiverLocs, AfterGetS
<1>5. ASSUME trust'[n] = "latency"
      PROVE  Round(n)'
  <2>1. /\ Token(n) /\ Round(n) /\ S[n] \in Nat
        /\ unblocked[n] \in Nat /\ samples[n]["sender"] \in Nat
        /\ samples[n]["receiver"] \in Nat
    BY <1>5 DEF Ind, TypeInv, Handover, Sides, GetS
  <2>2. /\ R'[n] = R[n] /\ flag'[n] = flag[n] /\ samples'[n] = samples[n]
        /\ unblocked'[n] = unblocked[n]
    BY DEF GetS
  <2>3. pc'[n]["sender"] = pc[n]["sender"]
    BY <1>1, <1>2
  <2> QED
    BY <1>2, <1>8, <2>1, <2>2, <2>3 DEF Token, SenderHasS, ReceiverHasS, SenderLocs,
       ReceiverLocs, Round, Due, AfterGetS
<1> HIDE DEF to
<1>6. \A m \in Pairs \ {n} : Same(m)
  BY <1>2 DEF Ind, TypeInv, GetS, Same
<1>7. UNCHANGED <<mpc, i, sigterm, trust>>
  BY DEF GetS
<1> QED
  BY <1>1, <1>2, <1>3, <1>4, <1>5, <1>6, <1>7, StepOfPair

\* The receiver has slept; a sender that does not wait for S by then is late.
LEMMA SleepStep ==
  ASSUME Ind, NEW n \in Pairs, Sleep(n)
  PROVE  Ind'
<1> DEFINE to == "postS"
<1> USE DEF semVars, dataVars
<1>1. to \in Locs /\ to # "unborn" /\ "sender" \in Sides /\ "receiver" \in Sides
  BY DEF Locs, SenderLocs, ReceiverLocs, Sides, AfterGetS
<1>2. /\ pc[n]["receiver"] = "sleep" /\ pc'[n]["receiver"] = to
      /\ \A t \in Sides : t # "receiver" => pc'[n][t] = pc[n][t]
      /\ \A m \in Pairs \ {n} : pc'[m] = pc[m]
      /\ pc' \in [Pairs -> [Sides -> Locs]]
  <2>1. Go(n, "receiver", "sleep", to)
    BY DEF Sleep
  <2> HIDE DEF to
  <2> QED
    BY <1>1, <2>1, GoStep DEF Ind
<1> HIDE DEF to
<1>3. TypeInv'
  <2>1. trust' \in [Pairs -> Trust]
    BY <1>1 DEF Ind, TypeInv, Sleep, Trust
  <2>2. TypeInv
    BY DEF Ind
  <2>3. UNCHANGED <<mpc, R, S, queue, flag, samples, unblocked, sigterm, i, mustshutdown>>
    BY DEF Sleep
  <2> QED
    BY <1>2, <2>1, <2>2, <2>3 DEF TypeInv
<1> USE DEF to
<1>4. ASSUME trust[n] # "none"
      PROVE  Token(n)'
  BY <1>2, <1>4 DEF Ind, TypeInv, Handover, Sleep, Token, SenderHasS, ReceiverHasS, Sides,
     SenderLocs, ReceiverLocs, AfterGetS
<1>5. ASSUME trust'[n] = "latency"
      PROVE  Round(n)'
  BY <1>2, <1>5 DEF Ind, TypeInv, Handover, Sleep, Token, SenderHasS, ReceiverHasS, Sides,
     SenderLocs, ReceiverLocs, Round, Due, AfterGetS
<1> HIDE DEF to
<1>6. \A m \in Pairs \ {n} : Same(m)
  BY <1>2 DEF Ind, TypeInv, Sleep, Same
<1>7. /\ UNCHANGED <<mpc, i, sigterm>>
      /\ trust[n] = "none" <=> trust'[n] = "none"
  BY DEF Sleep, Ind, TypeInv
<1> QED
  BY <1>1, <1>2, <1>3, <1>4, <1>5, <1>6, <1>7, StepOfPair

\* The receiver measures, and sets its flag after the last cycle, or both flags.
LEMMA MeasureStep ==
  ASSUME Ind, NEW n \in Pairs, Measure(n)
  PROVE  Ind'
<1> DEFINE to == "postR"
<1> USE DEF semVars, dataVars
<1>1. to \in Locs /\ to # "unborn" /\ "sender" \in Sides /\ "receiver" \in Sides
  BY DEF Locs, SenderLocs, ReceiverLocs, Sides, AfterGetS
<1>2. /\ pc[n]["receiver"] = "measure" /\ pc'[n]["receiver"] = to
      /\ \A t \in Sides : t # "receiver" => pc'[n][t] = pc[n][t]
      /\ \A m \in Pairs \ {n} : pc'[m] = pc[m]
      /\ pc' \in [Pairs -> [Sides -> Locs]]
  <2>1. Go(n, "receiver", "measure", to)
    BY DEF Measure
  <2> HIDE DEF to
  <2> QED
    BY <1>1, <2>1, GoStep DEF Ind
<1> HIDE DEF to
<1>3. TypeInv'
  <2>1. samples' \in [Pairs -> [Sides -> Nat]]
    BY <1>1 DEF Ind, TypeInv, Measure
  <2>2. flag' \in [Pairs -> [Sides -> {0, 1}]]
    <3>1. PICK over \in {0, 1} :
            flag' = [flag EXCEPT ![n] =
              [sender   |-> IF over = 1 THEN 1 ELSE @["sender"],
               receiver |-> IF over = 1 \/ samples'[n]["receiver"] >= MaxCycles THEN 1
                            ELSE @["receiver"]]]
      BY DEF Measure
    <3> QED
      BY <3>1 DEF Ind, TypeInv, Sides
  <2>3. TypeInv
    BY DEF Ind
  <2>4. UNCHANGED <<mpc, R, S, queue, unblocked, sigterm, trust, i, mustshutdown>>
    BY DEF Measure
  <2> QED
    BY <1>2, <2>1, <2>2, <2>3, <2>4 DEF TypeInv
<1> USE DEF to
<1>4. ASSUME trust[n] # "none"
      PROVE  Token(n)'
  BY <1>2, <1>4 DEF Ind, TypeInv, Handover, Measure, Token, SenderHasS, ReceiverHasS, Sides,
     SenderLocs, ReceiverLocs, AfterGetS
<1>5. ASSUME trust'[n] = "latency"
      PROVE  Round(n)'
  BY <1>2, <1>5 DEF Ind, TypeInv, Handover, Measure, Token, SenderHasS, ReceiverHasS, Sides,
     SenderLocs, ReceiverLocs, Round, Due, AfterGetS
<1> HIDE DEF to
<1>6. \A m \in Pairs \ {n} : Same(m)
  BY <1>2 DEF Ind, TypeInv, Measure, Same
<1>7. UNCHANGED <<mpc, i, sigterm, trust>>
  BY DEF Measure
<1> QED
  BY <1>1, <1>2, <1>3, <1>4, <1>5, <1>6, <1>7, StepOfPair

\* What SEM_UNLOCK of S does, while main reports, to the other side t.
PostedS(n, s, t, to) ==
  /\ pc'[n][s] = to
  /\ IF pc[n][t] = "waitS"
     THEN S'[n] = S[n] /\ queue'[n] = <<>> /\ pc'[n][t] = AfterGetS[t]
     ELSE S'[n] = S[n] + 1 /\ queue'[n] = <<>> /\ pc'[n][t] = pc[n][t]

\* A SEM_UNLOCK of S keeps the types and every other pair.
LEMMA PostSStep ==
  ASSUME Ind, NEW n \in Pairs, NEW s \in Sides, NEW t \in Sides, s # t,
         NEW from, from # "waitS", NEW to \in Locs, PostS(n, s, from, to)
  PROVE  /\ TypeInv' /\ pc[n][s] = from
         /\ UNCHANGED <<mpc, i, sigterm, R, flag, samples, unblocked, trust>>
         /\ \A m \in Pairs \ {n} : Same(m)
         /\ trust[n] # "none" => PostedS(n, s, t, to)
<1> USE DEF dataVars
<1>1. /\ pc[n][s] = from
      /\ UNCHANGED <<mpc, i, sigterm, R, flag, samples, unblocked, trust, mustshutdown>>
  BY DEF PostS
<1>2. AfterGetS["sender"] \in Locs /\ AfterGetS["receiver"] \in Locs
  BY DEF AfterGetS, Locs, SenderLocs, ReceiverLocs
<1>3. ASSUME NEW x
      PROVE  [pc[n] EXCEPT ![s] = to, ![x] = AfterGetS[x]] \in [Sides -> Locs]
  <2>1. CASE x \in Sides
    BY <1>2, <2>1 DEF Ind, TypeInv, Sides
  <2>2. CASE x \notin Sides
    <3> DEFINE f == [pc[n] EXCEPT ![s] = to]
    <3>1. f \in [Sides -> Locs]
      BY DEF Ind, TypeInv
    <3> HIDE DEF f
    <3>2. [f EXCEPT ![x] = AfterGetS[x]] = f
      BY <2>2, <3>1
    <3> QED
      BY <3>1, <3>2 DEF f
  <2> QED
    BY <2>1, <2>2
<1>4. trust[n] # "none" => Token(n)
  BY DEF Ind, Handover
<1>5. CASE queue[n] = <<>>
  <2>1. /\ S' = [S EXCEPT ![n] = @ + 1] /\ pc' = [pc EXCEPT ![n][s] = to]
        /\ UNCHANGED queue
    BY <1>5 DEF PostS
  <2>2. pc' \in [Pairs -> [Sides -> Locs]] /\ S' \in [Pairs -> Nat]
    BY <2>1 DEF Ind, TypeInv
  <2>3. TypeInv'
    BY <1>1, <2>1, <2>2 DEF Ind, TypeInv
  <2>4. \A m \in Pairs \ {n} : Same(m)
    BY <1>1, <2>1 DEF Ind, TypeInv, Same
  <2>5. pc'[n][s] = to /\ pc'[n][t] = pc[n][t] /\ S'[n] = S[n] + 1
    BY <2>1 DEF Ind, TypeInv
  <2>6. ASSUME trust[n] # "none" PROVE pc[n][t] # "waitS"
    BY <1>4, <1>5, <2>6 DEF Token, Sides
  <2> QED
    BY <1>1, <1>5, <2>1, <2>3, <2>4, <2>5, <2>6 DEF PostedS
<1>6. CASE queue[n] # <<>>
  <2> DEFINE h == Head(queue[n])
  <2>1. /\ pc' = [pc EXCEPT ![n] = [@ EXCEPT ![s] = to, ![h] = AfterGetS[h]]]
        /\ queue' = [queue EXCEPT ![n] = Tail(@)] /\ UNCHANGED S
    BY <1>6 DEF PostS
  <2> HIDE DEF h
  <2>2. pc' \in [Pairs -> [Sides -> Locs]] /\ DOMAIN queue' = Pairs
    BY <1>3, <2>1 DEF Ind, TypeInv
  <2>3. TypeInv'
    BY <1>1, <2>1, <2>2 DEF Ind, TypeInv
  <2>4. \A m \in Pairs \ {n} : Same(m)
    BY <1>1, <2>1 DEF Ind, TypeInv, Same
  <2>5. ASSUME trust[n] # "none"
        PROVE  pc[n][t] = "waitS" /\ queue[n] = <<t>>
    BY <1>1, <1>4, <1>6, <2>5 DEF Token, Sides
  <2>6. Head(<<t>>) = t /\ Tail(<<t>>) = <<>>
    OBVIOUS
  <2>7. ASSUME trust[n] # "none"
        PROVE  /\ pc'[n][s] = to /\ pc'[n][t] = AfterGetS[t]
               /\ queue'[n] = <<>> /\ S'[n] = S[n]
    BY <2>1, <2>5, <2>6, <2>7 DEF Ind, TypeInv, h
  <2> QED
    BY <1>1, <2>3, <2>4, <2>5, <2>7 DEF PostedS
<1> QED
  BY <1>5, <1>6

\* The sender releases S: the stamp it has made is to be measured.
LEMMA SenderPostSStep ==
  ASSUME Ind, NEW n \in Pairs, PostS(n, "sender", "postS", "count")
  PROVE  Ind'
<1>1. "count" \in Locs /\ "sender" \in Sides /\ "receiver" \in Sides
  BY DEF Locs, SenderLocs, ReceiverLocs, Sides
<1>2. /\ TypeInv' /\ pc[n]["sender"] = "postS"
      /\ UNCHANGED <<mpc, i, sigterm, R, flag, samples, unblocked, trust>>
      /\ \A m \in Pairs \ {n} : Same(m)
      /\ trust[n] # "none" => PostedS(n, "sender", "receiver", "count")
  BY <1>1, PostSStep
<1>3. ASSUME trust[n] # "none"
      PROVE  Token(n)'
  BY <1>2, <1>3 DEF Ind, Handover, PostedS, Token, SenderHasS, ReceiverHasS, SenderLocs,
     ReceiverLocs, AfterGetS
<1>4. ASSUME trust[n] = "latency"
      PROVE  Round(n)'
  <2>1. /\ Token(n) /\ Round(n) /\ S[n] \in Nat
        /\ unblocked[n] \in Nat /\ samples[n]["sender"] \in Nat
        /\ samples[n]["receiver"] \in Nat
    BY <1>1, <1>4 DEF Ind, TypeInv, Handover
  <2>2. /\ R'[n] = R[n] /\ flag'[n] = flag[n] /\ samples'[n] = samples[n]
        /\ unblocked'[n] = unblocked[n]
    BY <1>2
  <2> QED
    BY <1>2, <1>4, <2>1, <2>2 DEF PostedS, Token, SenderHasS, ReceiverHasS, SenderLocs,
       ReceiverLocs, AfterGetS, Round, Due
<1>5. ASSUME trust[n] # "none", NEW s \in Sides
      PROVE  pc'[n][s] = "unborn" <=> pc[n][s] = "unborn"
  BY <1>2, <1>5 DEF PostedS, Sides, AfterGetS
<1> QED
  BY <1>2, <1>3, <1>4, <1>5, StepOfPair

\* A sender that ends releases S.
LEMMA LastSStep ==
  ASSUME Ind, NEW n \in Pairs, PostS(n, "sender", "lastS", "lastR")
  PROVE  Ind'
<1>1. "lastR" \in Locs /\ "sender" \in Sides /\ "receiver" \in Sides
  BY DEF Locs, SenderLocs, ReceiverLocs, Sides
<1>2. /\ TypeInv' /\ pc[n]["sender"] = "lastS"
      /\ UNCHANGED <<mpc, i, sigterm, R, flag, samples, unblocked, trust>>
      /\ \A m \in Pairs \ {n} : Same(m)
      /\ trust[n] # "none" => PostedS(n, "sender", "receiver", "lastR")
  BY <1>1, PostSStep
<1>3. ASSUME trust[n] # "none"
      PROVE  Token(n)'
  BY <1>2, <1>3 DEF Ind, Handover, PostedS, Token, SenderHasS, ReceiverHasS, SenderLocs,
     ReceiverLocs, AfterGetS
<1>4. ASSUME trust[n] = "latency"
      PROVE  Round(n)'
  <2>1. /\ Token(n) /\ Round(n) /\ S[n] \in Nat
        /\ unblocked[n] \in Nat /\ samples[n]["sender"] \in Nat
        /\ samples[n]["receiver"] \in Nat
    BY <1>1, <1>4 DEF Ind, TypeInv, Handover
  <2>2. /\ R'[n] = R[n] /\ flag'[n] = flag[n] /\ samples'[n] = samples[n]
        /\ unblocked'[n] = unblocked[n]
    BY <1>2
  <2> QED
    BY <1>2, <1>4, <2>1, <2>2 DEF PostedS, Token, SenderHasS, ReceiverHasS, SenderLocs,
       ReceiverLocs, AfterGetS, Round, Due
<1>5. ASSUME trust[n] # "none", NEW s \in Sides
      PROVE  pc'[n][s] = "unborn" <=> pc[n][s] = "unborn"
  BY <1>2, <1>5 DEF PostedS, Sides, AfterGetS
<1> QED
  BY <1>2, <1>3, <1>4, <1>5, StepOfPair

\* The receiver releases S: a sender in time waits for it.
LEMMA ReceiverPostSStep ==
  ASSUME Ind, NEW n \in Pairs, PostS(n, "receiver", "postS", "top")
  PROVE  Ind'
<1>1. "top" \in Locs /\ "sender" \in Sides /\ "receiver" \in Sides
  BY DEF Locs, SenderLocs, ReceiverLocs, Sides
<1>2. /\ TypeInv' /\ pc[n]["receiver"] = "postS"
      /\ UNCHANGED <<mpc, i, sigterm, R, flag, samples, unblocked, trust>>
      /\ \A m \in Pairs \ {n} : Same(m)
      /\ trust[n] # "none" => PostedS(n, "receiver", "sender", "top")
  BY <1>1, PostSStep
<1>3. ASSUME trust[n] # "none"
      PROVE  Token(n)'
  BY <1>2, <1>3 DEF Ind, Handover, PostedS, Token, SenderHasS, ReceiverHasS, SenderLocs,
     ReceiverLocs, AfterGetS
<1>4. ASSUME trust[n] = "latency"
      PROVE  Round(n)'
  <2>1. /\ Token(n) /\ Round(n) /\ S[n] \in Nat
        /\ unblocked[n] \in Nat /\ samples[n]["sender"] \in Nat
        /\ samples[n]["receiver"] \in Nat
    BY <1>1, <1>4 DEF Ind, TypeInv, Handover
  <2>2. /\ R'[n] = R[n] /\ flag'[n] = flag[n] /\ samples'[n] = samples[n]
        /\ unblocked'[n] = unblocked[n]
    BY <1>2
  <2> QED
    BY <1>2, <1>4, <2>1, <2>2 DEF PostedS, Token, SenderHasS, ReceiverHasS, SenderLocs,
       ReceiverLocs, AfterGetS, Round, Due
<1>5. ASSUME trust[n] # "none", NEW s \in Sides
      PROVE  pc'[n][s] = "unborn" <=> pc[n][s] = "unborn"
  BY <1>2, <1>5 DEF PostedS, Sides, AfterGetS
<1> QED
  BY <1>2, <1>3, <1>4, <1>5, StepOfPair

\* The receiver releases R after it has measured.
LEMMA ReceiverPostRStep ==
  ASSUME Ind, NEW n \in Pairs, PostR(n, "receiver", "postR", "sleep")
  PROVE  Ind'
<1> USE DEF dataVars
<1>1. /\ {"sleep", "getS"} \subseteq Locs /\ "sender" \in Sides /\ "receiver" \in Sides
  BY DEF Locs, SenderLocs, ReceiverLocs, Sides
<1>2. /\ pc[n]["receiver"] = "postR"
      /\ UNCHANGED <<mpc, S, queue, flag, samples, unblocked, trust, sigterm, i, mustshutdown>>
  BY DEF PostR
<1>3. /\ pc' \in [Pairs -> [Sides -> Locs]] /\ R' \in [Pairs -> Nat]
      /\ \A m \in Pairs \ {n} : pc'[m] = pc[m] /\ R'[m] = R[m]
  <2>0. pc \in [Pairs -> [Sides -> Locs]] /\ R \in [Pairs -> Nat]
    BY DEF Ind, TypeInv
  <2>1. CASE pc[n]["sender"] = "waitR"
    <3>1. /\ pc' = [pc EXCEPT ![n] = [@ EXCEPT !["receiver"] = "sleep", !["sender"] = "getS"]]
          /\ UNCHANGED R
      BY <2>1 DEF PostR
    <3>2. [pc[n] EXCEPT !["receiver"] = "sleep", !["sender"] = "getS"] \in [Sides -> Locs]
      BY <1>1, <2>0
    <3> DEFINE p == [pc[n] EXCEPT !["receiver"] = "sleep", !["sender"] = "getS"]
    <3>3. p \in [Sides -> Locs]
      BY <3>2
    <3>4. pc' = [pc EXCEPT ![n] = p]
      BY <3>1
    <3> HIDE DEF p
    <3> QED
      BY <2>0, <3>1, <3>3, <3>4
  <2>2. CASE pc[n]["sender"] # "waitR"
    <3>1. pc' = [pc EXCEPT ![n]["receiver"] = "sleep"] /\ R' = [R EXCEPT ![n] = @ + 1]
      BY <2>2 DEF PostR
    <3> QED
      BY <1>1, <2>0, <3>1
  <2> QED
    BY <2>1, <2>2
<1>4. /\ pc'[n]["receiver"] = "sleep"
      /\ IF pc[n]["sender"] = "waitR"
         THEN pc'[n]["sender"] = "getS" /\ R'[n] = R[n]
         ELSE pc'[n]["sender"] = pc[n]["sender"] /\ R'[n] = R[n] + 1
  <2>1. CASE pc[n]["sender"] = "waitR"
    BY <1>1, <2>1, <1>2 DEF Ind, TypeInv, PostR
  <2>2. CASE pc[n]["sender"] # "waitR"
    BY <1>1, <2>2 DEF Ind, TypeInv, PostR
  <2> QED
    BY <2>1, <2>2
<1>5. TypeInv'
  BY <1>2, <1>3 DEF Ind, TypeInv
<1>6. \A m \in Pairs \ {n} : Same(m)
  BY <1>2, <1>3 DEF Same
<1>7. ASSUME trust[n] # "none"
      PROVE  Token(n)'
  BY <1>2, <1>4, <1>7 DEF Ind, Handover, Token, SenderHasS, ReceiverHasS, SenderLocs,
     ReceiverLocs
<1>8. ASSUME trust[n] = "latency"
      PROVE  Round(n)'
  <2>1. /\ Token(n) /\ Round(n)
        /\ unblocked[n] \in Nat /\ samples[n]["sender"] \in Nat
        /\ samples[n]["receiver"] \in Nat
    BY <1>8 DEF Ind, TypeInv, Handover, Sides
  <2>2. /\ S'[n] = S[n] /\ flag'[n] = flag[n] /\ samples'[n] = samples[n]
        /\ unblocked'[n] = unblocked[n]
    BY <1>2
  <2> QED
    BY <1>2, <1>4, <2>1, <2>2 DEF Token, SenderHasS, ReceiverHasS, SenderLocs,
       ReceiverLocs, Round, Due
<1>9. \A s \in Sides : pc'[n][s] = "unborn" <=> pc[n][s] = "unborn"
  BY <1>2, <1>4 DEF Sides
<1> QED
  BY <1>2, <1>5, <1>6, <1>7, <1>8, <1>9, StepOfPair

\* A sender that ends releases R.
LEMMA LastRStep ==
  ASSUME Ind, NEW n \in Pairs, PostR(n, "sender", "lastR", "stopped")
  PROVE  Ind'
<1> USE DEF dataVars
<1>1. /\ {"stopped", "getS"} \subseteq Locs /\ "sender" \in Sides /\ "receiver" \in Sides
  BY DEF Locs, SenderLocs, ReceiverLocs, Sides
<1>2. /\ pc[n]["sender"] = "lastR"
      /\ UNCHANGED <<mpc, S, queue, flag, samples, unblocked, trust, sigterm, i, mustshutdown>>
  BY DEF PostR
<1>3. /\ pc' \in [Pairs -> [Sides -> Locs]] /\ R' \in [Pairs -> Nat]
      /\ \A m \in Pairs \ {n} : pc'[m] = pc[m] /\ R'[m] = R[m]
  <2>0. pc \in [Pairs -> [Sides -> Locs]] /\ R \in [Pairs -> Nat]
    BY DEF Ind, TypeInv
  <2>1. CASE pc[n]["sender"] = "waitR"
    <3>1. /\ pc' = [pc EXCEPT ![n] = [@ EXCEPT !["sender"] = "stopped", !["sender"] = "getS"]]
          /\ UNCHANGED R
      BY <2>1 DEF PostR
    <3>2. [pc[n] EXCEPT !["sender"] = "stopped", !["sender"] = "getS"] \in [Sides -> Locs]
      BY <1>1, <2>0
    <3> QED
      BY <2>0, <3>1, <3>2
  <2>2. CASE pc[n]["sender"] # "waitR"
    <3>1. pc' = [pc EXCEPT ![n]["sender"] = "stopped"] /\ R' = [R EXCEPT ![n] = @ + 1]
      BY <2>2 DEF PostR
    <3> QED
      BY <1>1, <2>0, <3>1
  <2> QED
    BY <2>1, <2>2
<1>4. /\ pc'[n]["sender"] = "stopped"
      /\ IF pc[n]["sender"] = "waitR"
         THEN pc'[n]["sender"] = "getS" /\ R'[n] = R[n]
         ELSE pc'[n]["receiver"] = pc[n]["receiver"] /\ R'[n] = R[n] + 1
  <2>1. CASE pc[n]["sender"] = "waitR"
    BY <1>1, <2>1, <1>2 DEF Ind, TypeInv, PostR
  <2>2. CASE pc[n]["sender"] # "waitR"
    BY <1>1, <2>2 DEF Ind, TypeInv, PostR
  <2> QED
    BY <2>1, <2>2
<1>5. TypeInv'
  BY <1>2, <1>3 DEF Ind, TypeInv
<1>6. \A m \in Pairs \ {n} : Same(m)
  BY <1>2, <1>3 DEF Same
<1>7. ASSUME trust[n] # "none"
      PROVE  Token(n)'
  BY <1>2, <1>4, <1>7 DEF Ind, Handover, Token, SenderHasS, ReceiverHasS, SenderLocs,
     ReceiverLocs
<1>8. ASSUME trust[n] = "latency"
      PROVE  Round(n)'
  <2>1. /\ Token(n) /\ Round(n)
        /\ unblocked[n] \in Nat /\ samples[n]["sender"] \in Nat
        /\ samples[n]["receiver"] \in Nat
    BY <1>8 DEF Ind, TypeInv, Handover, Sides
  <2>2. /\ S'[n] = S[n] /\ flag'[n] = flag[n] /\ samples'[n] = samples[n]
        /\ unblocked'[n] = unblocked[n]
    BY <1>2
  <2> QED
    BY <1>2, <1>4, <2>1, <2>2 DEF Token, SenderHasS, ReceiverHasS, SenderLocs,
       ReceiverLocs, Round, Due
<1>9. \A s \in Sides : pc'[n][s] = "unborn" <=> pc[n][s] = "unborn"
  BY <1>2, <1>4 DEF Sides
<1> QED
  BY <1>2, <1>5, <1>6, <1>7, <1>8, <1>9, StepOfPair

\* sighand keeps the types, and every other pair.
LEMMA HandlerStep ==
  ASSUME Ind, NEW n \in Pairs, NEW s \in Sides, HandleSignal(n, s)
  PROVE  /\ pc' \in [Pairs -> [Sides -> Locs]] /\ DOMAIN queue' = Pairs
         /\ mustshutdown' = 1
         /\ UNCHANGED <<mpc, R, S, flag, samples, unblocked, i>>
         /\ \A m \in Pairs \ {n} : pc'[m] = pc[m] /\ queue'[m] = queue[m]
<1> USE DEF HandleSignal
<1>1. /\ "getS" \in Locs /\ AfterGetS["sender"] \in Locs /\ AfterGetS["receiver"] \in Locs
  BY DEF AfterGetS, Locs, SenderLocs, ReceiverLocs
<1>2. pc' \in [Pairs -> [Sides -> Locs]]
  BY <1>1 DEF Ind, TypeInv, Sides
<1>3. DOMAIN queue' = Pairs
  BY DEF Ind, TypeInv
<1>4. \A m \in Pairs \ {n} : pc'[m] = pc[m] /\ queue'[m] = queue[m]
  BY DEF Ind, TypeInv
<1> QED
  BY <1>2, <1>3, <1>4

\* main's SIGTERM reaches a thread only after main has left its loop.
LEMMA InterruptStep ==
  ASSUME Ind, NEW n \in Pairs, NEW s \in Sides, Interrupt(n, s)
  PROVE  Ind'
<1> USE DEF Interrupt
<1>1. /\ pc' \in [Pairs -> [Sides -> Locs]] /\ DOMAIN queue' = Pairs
      /\ mustshutdown' = 1
      /\ UNCHANGED <<mpc, R, S, flag, samples, unblocked, i, trust>>
      /\ \A m \in Pairs \ {n} : pc'[m] = pc[m] /\ queue'[m] = queue[m]
  BY HandlerStep
<1>2. sigterm' \in [Pairs -> [Sides -> {0, 1}]]
  BY DEF Ind, TypeInv
<1>3. TypeInv'
  BY <1>1, <1>2 DEF Ind, TypeInv
<1>4. trust[n] = "none" /\ mpc \notin {"receiver", "sender"}
  BY DEF Ind, Unborn
<1>5. Unborn'
  BY <1>1, <1>4 DEF Ind, TypeInv, Unborn
<1>6. ASSUME NEW m \in Pairs
      PROVE  /\ trust'[m] # "none" => Token(m)'
             /\ trust'[m] = "latency" => Round(m)'
  <2>1. CASE m = n
    BY <1>1, <1>4, <2>1
  <2>2. CASE m # n
    BY <1>1, <2>2, PairFrame DEF Ind, Handover, Same
  <2> QED
    BY <2>1, <2>2
<1> QED
  BY <1>3, <1>5, <1>6 DEF Ind, Handover

\* A signal from outside ends the trust in a pair whose semop it ends; elsewhere it
\* does nothing to the pair.
LEMMA OutsideSignalStep ==
  ASSUME Ind, NEW n \in Pairs, NEW s \in Sides, OutsideSignal(n, s)
  PROVE  Ind'
<1> USE DEF OutsideSignal
<1>1. /\ pc' \in [Pairs -> [Sides -> Locs]] /\ DOMAIN queue' = Pairs
      /\ mustshutdown' = 1
      /\ UNCHANGED <<mpc, R, S, flag, samples, unblocked, i, sigterm>>
      /\ \A m \in Pairs \ {n} : pc'[m] = pc[m] /\ queue'[m] = queue[m]
  BY HandlerStep
<1>2. /\ trust' \in [Pairs -> Trust] /\ mpc = "loop"
      /\ \A m \in Pairs \ {n} : trust'[m] = trust[m]
      /\ trust'[n] = IF pc[n][s] \in {"waitS", "waitR"} THEN "none" ELSE trust[n]
  BY DEF Ind, TypeInv, Trust
<1>3. TypeInv'
  BY <1>1, <1>2 DEF Ind, TypeInv
<1>4. Unborn'
  BY <1>1, <1>2 DEF Ind, TypeInv, Unborn
<1>5. ASSUME trust'[n] # "none"
      PROVE  pc'[n] = pc[n] /\ queue'[n] = queue[n] /\ trust'[n] = trust[n]
  <2>1. pc[n][s] \notin {"waitS", "waitR"}
    BY <1>2, <1>5
  <2>2. pc'[n] = [pc[n] EXCEPT ![s] = @]
    BY <2>1 DEF HandleSignal, Ind, TypeInv
  <2>3. pc[n] \in [Sides -> Locs] /\ queue'[n] = queue[n]
    BY <2>1 DEF HandleSignal, Ind, TypeInv
  <2> QED
    BY <1>2, <2>1, <2>2, <2>3
<1>6. ASSUME NEW m \in Pairs, trust'[m] # "none"
      PROVE  Token(m)' /\ (trust'[m] = "latency" => Round(m)')
  BY <1>1, <1>2, <1>5, <1>6, PairFrame DEF Ind, Handover, Same
<1> QED
  BY <1>3, <1>4, <1>6 DEF Ind, Handover

-----------------------------------------------------------------------------
(* The steps of main *)

\* The receiver of pair i starts; its sender is not there yet.
LEMMA CreateReceiverStep ==
  ASSUME Ind, CreateReceiver
  PROVE  Ind'
<1> USE PairsAreNumbers DEF CreateReceiver, Main, semVars, dataVars
<1>1. "top" \in Locs /\ "sender" \in Sides /\ "receiver" \in Sides
  BY DEF Locs, SenderLocs, Sides
<1>2. /\ mpc = "receiver" /\ mpc' = "sender" /\ i \in Pairs
      /\ pc[i]["sender"] = "unborn" /\ pc[i]["receiver"] = "unborn"
      /\ \A n \in Pairs : trust[n] # "none"
      /\ UNCHANGED <<R, S, queue, flag, samples, unblocked, sigterm, trust, i, mustshutdown>>
  BY DEF Ind, TypeInv, Unborn
<1>3. /\ pc' \in [Pairs -> [Sides -> Locs]]
      /\ pc'[i]["receiver"] = "top" /\ pc'[i]["sender"] = "unborn"
      /\ \A m \in Pairs \ {i} : pc'[m] = pc[m]
  BY <1>1, <1>2 DEF Ind, TypeInv
<1>4. TypeInv'
  BY <1>2, <1>3 DEF Ind, TypeInv
<1>5. Unborn'
  <2>1. \A m \in Pairs : m > i => m >= i /\ m # i
    BY <1>2
  <2> QED
    BY <1>2, <1>3, <2>1 DEF Ind, Unborn
<1>6. Token(i)' /\ (trust[i] = "latency" => Round(i)')
  <2>1. Token(i) /\ (trust[i] = "latency" => Round(i)) /\ samples[i]["receiver"] \in Nat
    BY <1>1, <1>2 DEF Ind, TypeInv, Handover
  <2> QED
    BY <1>2, <1>3, <2>1 DEF Token, SenderHasS, ReceiverHasS, SenderLocs, ReceiverLocs,
       Round, Due
<1>7. ASSUME NEW m \in Pairs \ {i}
      PROVE  Token(m)' /\ (trust'[m] = "latency" => Round(m)')
  BY <1>2, <1>3, PairFrame DEF Same, Ind, Handover
<1> QED
  BY <1>2, <1>4, <1>5, <1>6, <1>7 DEF Ind, Handover

\* The sender of pair i starts with the receiver's number of samples and flag.
LEMMA CreateSenderStep ==
  ASSUME Ind, CreateSender
  PROVE  Ind'
<1> USE PairsAreNumbers DEF CreateSender, Main, semVars, dataVars
<1>0. PICK n \in Pairs : n = i
  BY DEF Ind, TypeInv
<1>1. "top" \in Locs /\ "sender" \in Sides /\ "receiver" \in Sides
  BY DEF Locs, SenderLocs, Sides
<1>2. /\ mpc = "sender" /\ i \in Pairs /\ i \in Nat
      /\ \/ mpc' = "receiver" /\ i' = i + 1 /\ i' < NThreads
         \/ mpc' = "loop" /\ i' = 0
      /\ pc[i]["sender"] = "unborn" /\ pc[i]["receiver"] # "unborn"
      /\ \A m \in Pairs : trust[m] # "none"
      /\ UNCHANGED <<R, S, queue, unblocked, sigterm, trust, mustshutdown>>
  BY DEF Ind, TypeInv, Unborn, Pairs
<1>3. /\ pc' \in [Pairs -> [Sides -> Locs]]
      /\ pc'[i]["sender"] = "top" /\ pc'[i]["receiver"] = pc[i]["receiver"]
      /\ \A m \in Pairs \ {i} : pc'[m] = pc[m]
  BY <1>1, <1>2 DEF Ind, TypeInv
<1>4. /\ samples' \in [Pairs -> [Sides -> Nat]]
      /\ samples'[i]["sender"] = samples[i]["receiver"]
      /\ samples'[i]["receiver"] = samples[i]["receiver"]
      /\ \A m \in Pairs \ {i} : samples'[m] = samples[m]
  BY <1>1, <1>2 DEF Ind, TypeInv
<1>5. /\ flag' \in [Pairs -> [Sides -> {0, 1}]]
      /\ flag'[i]["sender"] = flag[i]["receiver"]
      /\ flag'[i]["receiver"] = flag[i]["receiver"]
      /\ \A m \in Pairs \ {i} : flag'[m] = flag[m]
  BY <1>1, <1>2 DEF Ind, TypeInv
<1>6. TypeInv'
  <2>1. TypeInv /\ i' \in Pairs /\ mpc' \in {"receiver", "loop"}
    BY <1>2 DEF Ind, Pairs
  <2> QED
    BY <1>2, <1>3, <1>4, <1>5, <2>1 DEF TypeInv
<1>7. Unborn'
  <2>1. \A m \in Pairs : m > i => pc[m]["sender"] = "unborn" /\ pc[m]["receiver"] = "unborn"
    BY <1>2 DEF Ind, Unborn
  <2>2. \A m \in Pairs : m \in Nat /\ (m >= i + 1 => m > i /\ m # i)
    BY <1>2
  <2>3. \A m \in Pairs, s \in Sides : sigterm[m][s] = 0
    BY <1>2 DEF Ind, Unborn
  <2>4. mpc' = "receiver" => \A m \in Pairs : m >= i' =>
          pc'[m]["sender"] = "unborn" /\ pc'[m]["receiver"] = "unborn"
    BY <1>2, <1>3, <2>1, <2>2
  <2> QED
    BY <1>2, <2>3, <2>4 DEF Unborn
<1>8. Token(n)' /\ (trust'[n] = "latency" => Round(n)')
  <2>1. /\ Token(n) /\ (trust[n] = "latency" => Round(n)) /\ samples[n]["receiver"] \in Nat
        /\ unblocked[n] \in Nat /\ MaxCycles \in Nat \ {0}
    BY <1>0, <1>1, <1>2, ConstantsAssumption DEF Ind, TypeInv, Handover
  <2>2. Token(n)'
    BY <1>0, <1>2, <1>3, <2>1 DEF Token, SenderHasS, ReceiverHasS, SenderLocs, ReceiverLocs
  <2>3. ASSUME trust[n] = "latency"
        PROVE  /\ unblocked[n] = 0 /\ flag[n]["receiver"] = 0
               /\ samples[n]["receiver"] = 0 /\ R[n] = 0
               /\ pc[n]["receiver"] \notin {"measure", "postR", "sleep", "postS"}
    BY <1>0, <1>2, <2>1, <2>3 DEF Token, Round, Due, SenderHasS, ReceiverHasS
  <2>4. R'[n] = R[n] /\ unblocked'[n] = unblocked[n]
    BY <1>2
  <2>5. ASSUME trust[n] = "latency"
        PROVE  Round(n)'
    BY <1>0, <1>3, <1>4, <1>5, <2>1, <2>3, <2>4, <2>5 DEF Round, Due
  <2> QED
    BY <2>2, <2>5
<1>9. ASSUME NEW m \in Pairs \ {n}
      PROVE  Token(m)' /\ (trust'[m] = "latency" => Round(m)')
  BY <1>0, <1>2, <1>3, <1>4, <1>5, PairFrame DEF Same, Ind, Handover
<1>10. Handover'
  BY <1>0, <1>2, <1>8, <1>9 DEF Handover
<1> QED
  BY <1>6, <1>7, <1>10 DEF Ind

\* Main reports, or is interrupted: the threads do not notice.
LEMMA QuietStep ==
  ASSUME Ind, Report \/ Sigint
  PROVE  Ind'
<1>1. /\ UNCHANGED <<pc, mpc, R, S, queue, flag, samples, unblocked, sigterm, trust, i>>
      /\ mustshutdown' \in {0, 1}
  BY DEF Ind, TypeInv, Report, Sigint, Main, semVars, dataVars
<1>2. TypeInv'
  BY <1>1 DEF Ind, TypeInv
<1>3. Unborn'
  BY <1>1 DEF Ind, Unborn
<1>4. Handover'
  BY <1>1, PairFrame DEF Ind, Handover, Same
<1> QED
  BY <1>2, <1>3, <1>4 DEF Ind

\* Main leaves its loop, sets all flags, signals the threads, and ends them: it does not
\* report any more.
LEMMA TeardownStep ==
  ASSUME Ind, LeaveLoop \/ StopPairs \/ KillPair \/ Exit
  PROVE  Ind'
<1> USE PairsAreNumbers DEF Main, semVars, dataVars
<1>1. /\ mpc' \in {"stop", "kill", "exit"} /\ i' \in Pairs
      /\ UNCHANGED <<samples, unblocked, mustshutdown>>
  <2>1. i \in Pairs
    BY DEF Ind, TypeInv
  <2>2. CASE LeaveLoop \/ StopPairs \/ Exit
    BY <2>1, <2>2 DEF LeaveLoop, StopPairs, Exit
  <2>3. CASE KillPair
    BY <2>1, <2>3 DEF KillPair, Pairs
  <2> QED
    BY <2>2, <2>3
<1>2. /\ flag' \in [Pairs -> [Sides -> {0, 1}]]
      /\ sigterm' \in [Pairs -> [Sides -> {0, 1}]]
  BY DEF Ind, TypeInv, LeaveLoop, StopPairs, KillPair, Exit
<1>3. trust' = [n \in Pairs |-> "none"]
  <2>1. CASE LeaveLoop
    BY <2>1 DEF LeaveLoop
  <2>2. CASE StopPairs \/ KillPair \/ Exit
    <3>1. trust \in [Pairs -> Trust] /\ \A n \in Pairs : trust[n] = "none"
      BY <2>2 DEF Ind, TypeInv, Unborn, StopPairs, KillPair, Exit, Sides
    <3>2. trust' = trust
      BY <2>2 DEF StopPairs, KillPair, Exit
    <3> QED
      BY <3>1, <3>2
  <2> QED
    BY <2>1, <2>2
<1>4. /\ pc' \in [Pairs -> [Sides -> Locs]] /\ DOMAIN queue' = Pairs
      /\ R' \in [Pairs -> Nat] /\ S' \in [Pairs -> Nat]
  <2>1. CASE LeaveLoop \/ StopPairs \/ KillPair
    BY <2>1 DEF Ind, TypeInv, LeaveLoop, StopPairs, KillPair
  <2>2. CASE Exit
    BY <2>2 DEF Exit, Locs, SenderLocs
  <2> QED
    BY <2>1, <2>2
<1>5. TypeInv'
  BY <1>1, <1>2, <1>3, <1>4 DEF Ind, TypeInv, Trust
<1>6. Unborn' /\ Handover'
  BY <1>1, <1>3 DEF Unborn, Handover
<1> QED
  BY <1>5, <1>6 DEF Ind

-----------------------------------------------------------------------------
(* The invariant *)

\* The invariant holds before the first pair.
LEMMA IndInit == Init => Ind
<1> SUFFICES ASSUME Init
             PROVE  Ind
  OBVIOUS
<1> USE PairsAreNumbers DEF Init
<1>1. TypeInv
  BY DEF TypeInv, Locs, SenderLocs, Trust
<1>2. Unborn
  BY DEF Unborn, Sides
<1>3. ASSUME NEW n \in Pairs
      PROVE  Token(n) /\ Round(n)
  <2>1. /\ pc[n]["sender"] = "unborn" /\ pc[n]["receiver"] = "unborn"
        /\ R[n] = 0 /\ S[n] = 0 /\ queue[n] = <<>> /\ unblocked[n] = 0
        /\ flag[n]["receiver"] = 0 /\ samples[n]["receiver"] = 0
    BY DEF Sides
  <2>2. MaxCycles \in Nat \ {0}
    BY ConstantsAssumption
  <2> QED
    BY <2>1, <2>2 DEF Token, Round, Due, SenderHasS, ReceiverHasS, SenderLocs, ReceiverLocs
<1> QED
  BY <1>1, <1>2, <1>3 DEF Ind, Handover

\* The invariant is inductive.
THEOREM Invariance == Spec => []Ind
<1>1. Ind /\ [Next]_vars => Ind'
  <2> SUFFICES ASSUME Ind, [Next]_vars
               PROVE  Ind'
    OBVIOUS
  <2>1. CASE \E n \in Pairs : SenderStep(n) \/ ReceiverStep(n)
    <3>1. "sender" \in Sides /\ "receiver" \in Sides
      BY DEF Sides
    <3> QED
      BY <2>1, <3>1, TopStep, StampStep, SenderPostSStep, CountStep, GetRStep,
         SenderGetSStep, LastSStep, LastRStep, ReceiverGetSStep, MeasureStep,
         ReceiverPostRStep, SleepStep, ReceiverPostSStep DEF SenderStep, ReceiverStep
  <2>2. CASE \E n \in Pairs, s \in Sides : Interrupt(n, s) \/ OutsideSignal(n, s)
    BY <2>2, InterruptStep, OutsideSignalStep
  <2>3. CASE MainStep \/ Sigint
    BY <2>3, CreateReceiverStep, CreateSenderStep, QuietStep, TeardownStep DEF MainStep
  <2>4. CASE UNCHANGED vars
    BY <2>4, PairFrame DEF Ind, TypeInv, Unborn, Handover, Same, vars
  <2> QED
    BY <2>1, <2>2, <2>3, <2>4 DEF Next, Terminated
<1> QED
  BY <1>1, IndInit, PTL DEF Spec

-----------------------------------------------------------------------------
(* The properties *)

\* A stamp is never measured while the sender writes it: S is with one side only, even
\* when the sender is late and the receiver takes S back.
THEOREM StampsAreWhole == Spec => []NoTornStamp
<1>1. Ind => NoTornStamp
  BY DEF Ind, Handover, Token, SenderHasS, ReceiverHasS, NoTornStamp
<1> QED
  BY <1>1, Invariance, PTL

\* A pair is closed when its sender is late, a signal ends one of its semops, or main
\* leaves its loop.
LEMMA CloseStep ==
  ASSUME Ind, UNCHANGED <<unblocked, samples>>,
         \A n \in Pairs : trust'[n] = "latency" => trust[n] = "latency"
  PROVE  Abstract!Close
<1> DEFINE open == [n \in Pairs |-> IF trust[n] = "latency" THEN 1 ELSE 0]
           open2 == [n \in Pairs |-> IF trust'[n] = "latency" THEN 1 ELSE 0]
           ps == {n \in Pairs : trust'[n] # "latency"}
<1>1. open2 = [n \in Pairs |-> IF n \in ps THEN 0 ELSE open[n]]
  OBVIOUS
<1>2. ps \in SUBSET Pairs
  OBVIOUS
<1> QED
  BY <1>1, <1>2 DEF Abstract!Close

\* A step of the threads of a pair whose promise has ended.
LEMMA DrainStep ==
  ASSUME Ind, TypeInv', NEW n \in Pairs, trust[n] # "latency", UNCHANGED trust,
         \A m \in Pairs \ {n} : samples'[m] = samples[m] /\ unblocked'[m] = unblocked[m]
  PROVE  Abstract!Drain
<1>1. [m \in Pairs |-> samples'[m]["receiver"]] \in [Pairs -> Nat]
  BY DEF TypeInv, Sides
<1>2. unblocked' \in [Pairs -> Nat]
  BY DEF TypeInv
<1> QED
  BY <1>1, <1>2 DEF Abstract!Drain

\* svsematest implements PingPong: of a pair whose sender has always been in its second
\* semop before the receiver releases S, every latency is that of one release.
THEOREM ImplementsPingPong == Spec => EveryLatencyItsEvent
<1>1. Init => Abstract!Init
  <2> SUFFICES ASSUME Init
               PROVE  Abstract!Init
    OBVIOUS
  <2>1. [n \in Pairs |-> samples[n]["receiver"]] = [n \in Pairs |-> 0]
    BY DEF Init, Sides
  <2>2. unblocked = [n \in Pairs |-> 0]
    BY DEF Init
  <2> QED
    BY <2>1, <2>2 DEF Abstract!Init
<1>2. Ind /\ Ind' /\ [Next]_vars => [Abstract!Next]_(Abstract!vars)
  <2> SUFFICES ASSUME Ind, Ind', [Next]_vars
               PROVE  Abstract!Next \/ UNCHANGED Abstract!vars
    OBVIOUS
  <2> USE DEF Abstract!vars, semVars, dataVars
  <2>1. "sender" \in Sides /\ "receiver" \in Sides
    BY DEF Sides
  <2>2. ASSUME NEW n \in Pairs, Stamp(n)
        PROVE  Abstract!Next
    <3>1. CASE trust[n] = "latency"
      <4>1. unblocked[n] = samples[n]["receiver"]
        <5>1. pc[n]["sender"] = "stamp"
          BY <2>2 DEF Stamp, Go
        <5>2. Token(n) /\ Round(n) /\ samples[n]["receiver"] \in Nat
          BY <2>1, <3>1 DEF Ind, TypeInv, Handover
        <5> QED
          BY <5>1, <5>2 DEF Token, Round, Due, SenderHasS, ReceiverHasS
      <4>2. Abstract!Send(n)
        BY <2>2, <4>1 DEF Stamp, Abstract!Send
      <4> QED
        BY <4>2 DEF Abstract!Next
    <3>2. CASE trust[n] # "latency"
      <4>1. /\ UNCHANGED <<trust, samples>>
            /\ \A m \in Pairs \ {n} : unblocked'[m] = unblocked[m]
        BY <2>2 DEF Stamp, Ind, TypeInv
      <4> QED
        BY <3>2, <4>1, DrainStep DEF Ind, Abstract!Next
    <3> QED
      BY <3>1, <3>2
  <2>3. ASSUME NEW n \in Pairs, Measure(n)
        PROVE  Abstract!Next
    <3>1. /\ UNCHANGED <<trust, unblocked>>
          /\ samples' = [samples EXCEPT ![n]["receiver"] = @ + 1]
      BY <2>3 DEF Measure
    <3>2. CASE trust[n] = "latency"
      <4>1. samples[n]["receiver"] < unblocked[n]
        <5>1. pc[n]["receiver"] = "measure"
          BY <2>3 DEF Measure, Go
        <5>2. Round(n) /\ samples[n]["receiver"] \in Nat
          BY <2>1, <3>2 DEF Ind, TypeInv, Handover
        <5> QED
          BY <5>1, <5>2 DEF Round, Due
      <4>2. [m \in Pairs |-> samples'[m]["receiver"]]
              = [[m \in Pairs |-> samples[m]["receiver"]] EXCEPT ![n] = @ + 1]
        BY <2>1, <3>1 DEF Ind, TypeInv
      <4>3. Abstract!Receive(n)
        BY <3>1, <4>1, <4>2 DEF Abstract!Receive
      <4> QED
        BY <4>3 DEF Abstract!Next
    <3>3. CASE trust[n] # "latency"
      <4>1. \A m \in Pairs \ {n} : samples'[m] = samples[m]
        BY <3>1 DEF Ind, TypeInv
      <4> QED
        BY <3>1, <3>3, <4>1, DrainStep DEF Ind, Abstract!Next
    <3> QED
      BY <3>2, <3>3
  <2>4. ASSUME NEW n \in Pairs, Sleep(n)
        PROVE  Abstract!Next
    <3>1. UNCHANGED <<unblocked, samples>>
      BY <2>4 DEF Sleep
    <3>2. \A m \in Pairs : trust'[m] = "latency" => trust[m] = "latency"
      BY <2>4 DEF Sleep, Ind, TypeInv
    <3> QED
      BY <3>1, <3>2, CloseStep DEF Abstract!Next
  <2>5. ASSUME LeaveLoop
        PROVE  Abstract!Next
    <3>1. UNCHANGED <<unblocked, samples>> /\ trust' = [m \in Pairs |-> "none"]
      BY <2>5 DEF LeaveLoop
    <3> QED
      BY <3>1, CloseStep DEF Abstract!Next
  <2>6. ASSUME NEW n \in Pairs, Count(n) \/ CreateSender
        PROVE  UNCHANGED Abstract!vars
    <3>1. UNCHANGED <<unblocked, trust>>
      BY <2>6 DEF Count, CreateSender
    <3>2. \A m \in Pairs : samples'[m]["receiver"] = samples[m]["receiver"]
      <4>1. CASE Count(n)
        BY <2>1, <4>1 DEF Count, Ind, TypeInv
      <4>2. CASE CreateSender
        BY <2>1, <4>2 DEF CreateSender, Ind, TypeInv
      <4> QED
        BY <2>6, <4>1, <4>2
    <3> QED
      BY <3>1, <3>2
  <2>7. ASSUME UNCHANGED <<unblocked, trust, samples>>
        PROVE  UNCHANGED Abstract!vars
    BY <2>7
  <2>8. CASE \E n \in Pairs : SenderStep(n) \/ ReceiverStep(n)
    <3>1. PICK n \in Pairs : SenderStep(n) \/ ReceiverStep(n)
      BY <2>8
    <3>2. ASSUME \E s \in Sides : \/ Top(n, s) \/ GetS(n, s)
                                  \/ \E from, to \in Locs : PostS(n, s, from, to) \/ PostR(n, s, from, to)
                 \/ GetR(n)
          PROVE  UNCHANGED <<unblocked, trust, samples>>
      BY <3>2 DEF Top, GetS, GetR, PostS, PostR
    <3>3. {"postS", "count", "lastS", "lastR", "stopped", "postR", "sleep", "top"} \subseteq Locs
      BY DEF Locs, SenderLocs, ReceiverLocs
    <3> QED
      BY <2>1, <2>2, <2>3, <2>4, <2>6, <2>7, <3>1, <3>2, <3>3 DEF SenderStep, ReceiverStep
  <2>9. ASSUME NEW n \in Pairs, NEW s \in Sides, OutsideSignal(n, s)
        PROVE  Abstract!Next
    <3>1. UNCHANGED <<unblocked, samples>>
      BY <2>9 DEF OutsideSignal, HandleSignal
    <3>2. \A m \in Pairs : trust'[m] = "latency" => trust[m] = "latency"
      BY <2>9 DEF OutsideSignal, Ind, TypeInv
    <3> QED
      BY <3>1, <3>2, CloseStep DEF Abstract!Next
  <2>10. CASE \/ \E n \in Pairs, s \in Sides : Interrupt(n, s)
              \/ CreateReceiver \/ Report \/ Sigint \/ StopPairs \/ KillPair \/ Exit
    BY <2>7, <2>10 DEF Interrupt, HandleSignal, CreateReceiver, Report, Sigint, StopPairs,
       KillPair, Exit
  <2>11. CASE CreateSender
    BY <2>6, <2>11, PairsAreNumbers
  <2>12. CASE UNCHANGED vars
    BY <2>7, <2>12 DEF vars
  <2> QED
    BY <2>5, <2>8, <2>9, <2>10, <2>11, <2>12 DEF Next, MainStep, Terminated
<1> QED
  BY <1>1, <1>2, Invariance, PTL DEF Spec, EveryLatencyItsEvent, Abstract!Spec
=============================================================================
