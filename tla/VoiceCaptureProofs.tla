------------------------ MODULE VoiceCaptureProofs ------------------------
(***************************************************************************)
(* Theorems about the microphone's way to the transport, for any number of *)
(* device buffers (from two on), any limits of pre-speech and hangover and *)
(* any number of frames, mutes and restarts.                               *)
(***************************************************************************)
EXTENDS VoiceCapture, Induction

USE CaptureAssumption DEF CaptureAssumption
----------------------------------------------------------------------------
(* Sequences of frames. *)

Distinct(s) == \A i, j \in 1..Len(s) : i # j => s[i] # s[j]
Rising(s) == \A i, j \in 1..Len(s) : i < j => s[i] < s[j]
Below(s, n) == \A i \in 1..Len(s) : s[i] < n
Follows(s, t) == \A i \in 1..Len(t) : Below(s, t[i])
Has(s, n) == \E i \in 1..Len(s) : s[i] = n

\* Each number is the successor of the one before.
Consecutive(s) == \A i \in 1..(Len(s) - 1) : s[i + 1] = s[i] + 1

LEMMA CatIs ==
    ASSUME NEW S, NEW s \in Seq(S), NEW t \in Seq(S)
    PROVE  /\ s \o t \in Seq(S) /\ Len(s \o t) = Len(s) + Len(t)
           /\ \A i \in 1..(Len(s) + Len(t)) :
                 \/ i \in 1..Len(s) /\ (s \o t)[i] = s[i]
                 \/ i - Len(s) \in 1..Len(t) /\ (s \o t)[i] = t[i - Len(s)]
OBVIOUS

\* What a concatenation keeps of its parts' order.
LEMMA CatBelow ==
    ASSUME NEW S, NEW s \in Seq(S), NEW t \in Seq(S), NEW n, Below(s, n), Below(t, n)
    PROVE  Below(s \o t, n)
BY CatIs DEF Below

LEMMA CatFollows ==
    ASSUME NEW S, NEW r, NEW s \in Seq(S), NEW t \in Seq(S), Follows(r, s), Follows(r, t)
    PROVE  Follows(r, s \o t)
BY CatIs DEF Follows

LEMMA CatDistinct ==
    ASSUME NEW S, NEW s \in Seq(S), NEW t \in Seq(S), Distinct(s), Distinct(t),
           \A i \in 1..Len(s), j \in 1..Len(t) : s[i] # t[j]
    PROVE  Distinct(s \o t)
<1>1. ASSUME NEW i \in 1..(Len(s) + Len(t)), NEW j \in 1..(Len(s) + Len(t)), i # j
      PROVE  (s \o t)[i] # (s \o t)[j]
  <2>1. CASE i \in 1..Len(s) /\ j \in 1..Len(s)
    BY <1>1, <2>1 DEF Distinct
  <2>2. CASE i \in 1..Len(s) /\ j - Len(s) \in 1..Len(t)
    BY <2>2
  <2>3. CASE i - Len(s) \in 1..Len(t) /\ j \in 1..Len(s)
    BY <2>3
  <2>4. CASE i - Len(s) \in 1..Len(t) /\ j - Len(s) \in 1..Len(t)
    BY <1>1, <2>4 DEF Distinct
  <2> QED
    BY <2>1, <2>2, <2>3, <2>4
<1> QED
  BY <1>1, CatIs DEF Distinct

LEMMA FollowsApart ==
    ASSUME NEW s \in Seq(Frames), NEW t \in Seq(Frames), Follows(s, t)
    PROVE  \A i \in 1..Len(s), j \in 1..Len(t) : s[i] # t[j]
<1>1. \A i \in 1..Len(s), j \in 1..Len(t) : s[i] < t[j] /\ s[i] \in Nat /\ t[j] \in Nat
  BY DEF Follows, Below, Frames
<1> QED
  BY <1>1

LEMMA CatRising ==
    ASSUME NEW s \in Seq(Frames), NEW t \in Seq(Frames), Follows(s, t), Rising(s), Rising(t)
    PROVE  Rising(s \o t)
<1>1. \A i \in 1..Len(s), j \in 1..Len(t) : s[i] < t[j]
  BY DEF Follows, Below
<1>2. ASSUME NEW i \in 1..(Len(s) + Len(t)), NEW j \in 1..(Len(s) + Len(t)), i < j
      PROVE  (s \o t)[i] < (s \o t)[j]
  <2>1. CASE i \in 1..Len(s) /\ j \in 1..Len(s)
    BY <1>2, <2>1 DEF Rising
  <2>2. CASE i \in 1..Len(s) /\ j - Len(s) \in 1..Len(t)
    BY <1>1, <2>2
  <2>3. CASE i - Len(s) \in 1..Len(t) /\ j - Len(s) \in 1..Len(t)
    BY <1>2, <2>3 DEF Rising
  <2> QED
    BY <1>2, <2>1, <2>2, <2>3
<1> QED
  BY <1>2, CatIs DEF Rising

\* LastOf returns the end of its argument: the same, d places further on.
EndOf(t, s, d) == Len(t) + d = Len(s) /\ \A i \in 1..Len(t) : t[i] = s[i + d]

LEMMA LastOfIs ==
    ASSUME NEW S, NEW s \in Seq(S), NEW k \in Nat
    PROVE  /\ LastOf(s, k) \in Seq(S) /\ Len(LastOf(s, k)) <= k
           /\ \E d \in Nat : EndOf(LastOf(s, k), s, d)
<1>1. CASE Len(s) <= k
  <2>1. EndOf(LastOf(s, k), s, 0)
    BY <1>1 DEF LastOf, EndOf
  <2> QED
    BY <1>1, <2>1 DEF LastOf
<1>2. CASE Len(s) > k
  <2> DEFINE t == SubSeq(s, Len(s) - k + 1, Len(s))
  <2>1. Len(s) \in Nat /\ Len(s) - k \in Nat /\ LastOf(s, k) = t
    BY <1>2 DEF LastOf
  <2>2. t \in Seq(S) /\ Len(t) = k /\ \A i \in 1..k : t[i] = s[i + (Len(s) - k)]
    BY <1>2, <2>1
  <2>3. EndOf(t, s, Len(s) - k)
    BY <2>1, <2>2 DEF EndOf
  <2> QED
    BY <2>1, <2>2, <2>3
<1> QED
  BY <1>1, <1>2

LEMMA EndKeeps ==
    ASSUME NEW s \in Seq(Frames), NEW t \in Seq(Frames), NEW d \in Nat, EndOf(t, s, d)
    PROVE  /\ Distinct(s) => Distinct(t)
           /\ Rising(s) => Rising(t)
           /\ Consecutive(s) => Consecutive(t)
           /\ \A n : Below(s, n) => Below(t, n)
           /\ \A n : Has(t, n) => Has(s, n)
           /\ \A r : Follows(r, s) => Follows(r, t)
           /\ t # <<>> => s # <<>> /\ t[Len(t)] = s[Len(s)]
<1>1. \A i \in 1..Len(t) : i + d \in 1..Len(s) /\ t[i] = s[i + d]
  BY DEF EndOf
<1>2. \A i \in 1..(Len(t) - 1) : i + d \in 1..(Len(s) - 1) /\ i + 1 \in 1..Len(t)
  BY DEF EndOf
<1>3. Distinct(s) => Distinct(t)
  BY <1>1 DEF Distinct
<1>4. Rising(s) => Rising(t)
  BY <1>1 DEF Rising
<1>5. Consecutive(s) => Consecutive(t)
  BY <1>1, <1>2 DEF Consecutive
<1>6. \A n : (Below(s, n) => Below(t, n)) /\ (Has(t, n) => Has(s, n))
  BY <1>1 DEF Below, Has
<1>7. \A r : Follows(r, s) => Follows(r, t)
  BY <1>1 DEF Follows
<1>8. t # <<>> => s # <<>> /\ t[Len(t)] = s[Len(s)]
  BY DEF EndOf
<1> QED
  BY <1>3, <1>4, <1>5, <1>6, <1>7, <1>8
----------------------------------------------------------------------------
(* The buffers that are ready. *)

\* ReadyUpTo is the function its definition by recursion describes.
LEMMA ReadyUpToIs ==
    ASSUME done \in [Buffers -> 0..MaxFrames]
    PROVE  /\ ReadyUpTo \in [0..NumBuffers -> Seq(Buffers)]
           /\ ReadyUpTo[0] = <<>>
           /\ \A b \in 1..NumBuffers :
                 ReadyUpTo[b] = IF done[b] # 0 THEN Append(ReadyUpTo[b - 1], b)
                                ELSE ReadyUpTo[b - 1]
<1> DEFINE step == [b \in 1..NumBuffers |->
                       [s \in Seq(Buffers) |-> IF done[b] # 0 THEN Append(s, b) ELSE s]]
           At(f, b) == IF done[b] # 0 THEN Append(f[b - 1], b) ELSE f[b - 1]
           Body(f) == [b \in 0..NumBuffers |-> IF b = 0 THEN <<>> ELSE At(f, b)]
<1>1. \A b \in 1..NumBuffers, s \in Seq(Buffers) :
          /\ (IF done[b] # 0 THEN Append(s, b) ELSE s) \in Seq(Buffers)
          /\ step[b][s] = IF done[b] # 0 THEN Append(s, b) ELSE s
  <2>1. \A b \in 1..NumBuffers, s \in Seq(Buffers) : Append(s, b) \in Seq(Buffers)
    BY DEF Buffers
  <2>2. \A b \in 1..NumBuffers, s \in Seq(Buffers) :
            step[b][s] = IF done[b] # 0 THEN Append(s, b) ELSE s
    OBVIOUS
  <2> QED
    BY <2>1, <2>2
<1>2. step \in [1..NumBuffers -> [Seq(Buffers) -> Seq(Buffers)]]
  BY <1>1
<1> HIDE DEF step
<1>3. PICK g \in [0..NumBuffers -> Seq(Buffers)] : Recursion(g, NumBuffers, <<>>, step)
  <2>1. <<>> \in Seq(Buffers) /\ NumBuffers \in Nat
    OBVIOUS
  <2> QED
    BY <1>2, <2>1, RecursiveFunction, Zenon
<1>4. \A i \in 1..NumBuffers : i \in 0..NumBuffers /\ i - 1 \in 0..NumBuffers /\ i # 0
  OBVIOUS
<1>5. g[0] = <<>> /\ \A i \in 1..NumBuffers : g[i] = At(g, i)
  BY <1>1, <1>3, <1>4 DEF Recursion
<1> HIDE DEF At
<1>6. g = Body(g)
  <2>1. \A i \in 0..NumBuffers : g[i] = IF i = 0 THEN <<>> ELSE At(g, i)
    <3>1. \A i \in 0..NumBuffers : i = 0 \/ i \in 1..NumBuffers
      OBVIOUS
    <3> QED
      BY <1>5, <3>1
  <2> QED
    BY <2>1, <1>3, Zenon
<1>7. ReadyUpTo = Body(ReadyUpTo)
  BY <1>6, Zenon DEF ReadyUpTo, At
<1>8. ReadyUpTo[0] = <<>> /\ \A b \in 1..NumBuffers : ReadyUpTo[b] = At(ReadyUpTo, b)
  <2>1. \A b \in 0..NumBuffers : ReadyUpTo[b] = IF b = 0 THEN <<>> ELSE At(ReadyUpTo, b)
    BY <1>7, Zenon
  <2>2. 0 \in 0..NumBuffers
    OBVIOUS
  <2> QED
    BY <1>4, <2>1, <2>2, Zenon
<1> DEFINE T == {b \in 0..NumBuffers : ReadyUpTo[b] = g[b]}
<1>9. 0..NumBuffers \subseteq T
  <2>1. 0 \in T
    BY <1>5, <1>8
  <2>2. ASSUME NEW n \in 0..(NumBuffers - 1), n \in T
        PROVE  n + 1 \in T
    <3>1. n + 1 \in 1..NumBuffers /\ (n + 1) - 1 = n
      OBVIOUS
    <3>2. At(ReadyUpTo, n + 1) = At(g, n + 1)
      BY <2>2, <3>1 DEF At
    <3> QED
      BY <1>4, <1>5, <1>8, <3>1, <3>2
  <2> HIDE DEF T
  <2> QED
    BY <2>1, <2>2, BoundedInduction
<1>10. ReadyUpTo = g
  <2>1. ReadyUpTo = [b \in 0..NumBuffers |-> ReadyUpTo[b]]
    BY <1>7, Zenon
  <2>2. g = [b \in 0..NumBuffers |-> g[b]]
    BY <1>3
  <2> QED
    BY <1>9, <2>1, <2>2
<1> QED
  BY <1>3, <1>8, <1>10 DEF At

Done == {b \in Buffers : done[b] # 0}

\* Ready is the buffers that are done, by index.
LEMMA ReadyIs ==
    ASSUME done \in [Buffers -> 0..MaxFrames]
    PROVE  /\ Ready \in Seq(Buffers) /\ Rising(Ready)
           /\ \A i \in 1..Len(Ready) : Ready[i] \in Done
           /\ \A b \in Done : Has(Ready, b)
<1> DEFINE R(b) == ReadyUpTo[b]
           Right(b) == /\ Rising(R(b))
                       /\ \A i \in 1..Len(R(b)) : R(b)[i] \in 1..b /\ done[R(b)[i]] # 0
                       /\ \A c \in 1..b : done[c] # 0 => Has(R(b), c)
           T == {b \in 0..NumBuffers : Right(b)}
<1>1. \A b \in 0..NumBuffers : R(b) \in Seq(Buffers)
  BY ReadyUpToIs
<1>2. R(0) = <<>> /\ \A b \in 1..NumBuffers :
          R(b) = IF done[b] # 0 THEN Append(R(b - 1), b) ELSE R(b - 1)
  BY ReadyUpToIs
<1> HIDE DEF R
<1>3. 0 \in T
  BY <1>2 DEF Rising
<1>4. ASSUME NEW n \in 0..(NumBuffers - 1), n \in T
      PROVE  n + 1 \in T
  <2> DEFINE s == R(n)
  <2>1. n + 1 \in 1..NumBuffers /\ n + 1 \in 0..NumBuffers /\ (n + 1) - 1 = n /\ n \in 0..NumBuffers
    OBVIOUS
  <2>2. Right(n) /\ s \in Seq(Buffers)
    BY <1>1, <1>4, <2>1
  <2> HIDE DEF s
  <2>3. CASE done[n + 1] = 0
    <3>1. R(n + 1) = s
      BY <1>2, <2>1, <2>3 DEF s
    <3>2. \A c \in 1..(n + 1) : done[c] # 0 => c \in 1..n
      BY <2>3
    <3> QED
      BY <2>1, <2>2, <3>1, <3>2 DEF s
  <2>4. CASE done[n + 1] # 0
    <3> DEFINE t == Append(s, n + 1)
    <3>1. R(n + 1) = t
      BY <1>2, <2>1, <2>4 DEF s
    <3>2. /\ Len(t) = Len(s) + 1 /\ t[Len(s) + 1] = n + 1
          /\ \A i \in 1..Len(s) : t[i] = s[i]
      BY <2>2
    <3> HIDE DEF t
    <3>3. /\ Rising(s)
          /\ \A i \in 1..Len(s) : s[i] \in 1..n /\ done[s[i]] # 0
          /\ \A c \in 1..n : done[c] # 0 => Has(s, c)
      BY <2>2 DEF s
    <3>4. Len(s) \in Nat /\ n \in Nat
      BY <2>2
    <3>5. Rising(t)
      <4> SUFFICES ASSUME NEW i \in 1..(Len(s) + 1), NEW j \in 1..(Len(s) + 1), i < j
                   PROVE  t[i] < t[j]
        BY <3>2 DEF Rising
      <4>1. i \in 1..Len(s) /\ t[i] = s[i] /\ s[i] < n + 1
        BY <3>2, <3>3, <3>4
      <4>2. CASE j = Len(s) + 1
        BY <3>2, <4>1, <4>2
      <4>3. CASE j \in 1..Len(s)
        BY <3>2, <3>3, <4>1, <4>3 DEF Rising
      <4> QED
        BY <3>4, <4>2, <4>3
    <3>6. \A i \in 1..Len(t) : t[i] \in 1..(n + 1) /\ done[t[i]] # 0
      BY <2>4, <3>2, <3>3, <3>4
    <3>7. \A c \in 1..(n + 1) : done[c] # 0 => Has(t, c)
      BY <3>2, <3>3, <3>4 DEF Has
    <3> QED
      BY <2>1, <3>1, <3>5, <3>6, <3>7
  <2> QED
    BY <2>3, <2>4
<1>5. 0..NumBuffers \subseteq T
  <2> HIDE DEF T
  <2> QED
    BY <1>3, <1>4, BoundedInduction
<1>6. Right(NumBuffers) /\ R(NumBuffers) \in Seq(Buffers) /\ Ready = R(NumBuffers)
  BY <1>1, <1>5 DEF Ready, R
<1> QED
  BY <1>6 DEF Done, Buffers
----------------------------------------------------------------------------
(* The inductive invariant. *)

\* A buffer waits in the queue or holds a frame, and while the device records,
\* each does one of the two.
BuffersInv ==
    /\ Distinct(queue)
    /\ \A i \in 1..Len(queue) : done[queue[i]] = 0
    /\ capture = "wave" => \A b \in Buffers \ Done : Has(queue, b)
    /\ capture # "wave" => queue = <<>> /\ Done = {} /\ preSpeech = <<>>

\* Frames sent are older than those kept as pre-speech, and these than those in
\* the buffers.
OrderInv ==
    /\ Distinct(sent) /\ Distinct(preSpeech)
    /\ ~late => Rising(sent) /\ Rising(preSpeech)
    /\ Follows(sent, preSpeech)
    /\ \A b \in Done : Below(sent, done[b]) /\ Below(preSpeech, done[b]) /\ done[b] <= clock
    /\ \A b, c \in Done : b # c => done[b] # done[c]
    /\ Below(sent, clock + 1) /\ Below(preSpeech, clock + 1)

\* While the main loop keeps up, pre-speech and buffers are one stretch of time
\* up to now.
WholeInv ==
    /\ \A b \in Done : Done = {b} => done[b] = clock
    /\ ~late /\ preSpeech # <<>> =>
          /\ Consecutive(preSpeech)
          /\ Done = {} => preSpeech[Len(preSpeech)] = clock
          /\ \A b \in Done : Done = {b} => done[b] = preSpeech[Len(preSpeech)] + 1

CaptureInv == BuffersInv /\ OrderInv /\ WholeInv
----------------------------------------------------------------------------
(* Types. *)

\* What a pump takes from the buffers.
LEMMA CapturedIs ==
    ASSUME TypeOK, OrderInv
    PROVE  /\ Captured \in Seq(Frames) /\ Distinct(Captured)
           /\ Len(Captured) = Len(Ready)
           /\ \A n : Has(Captured, n) => \E b \in Done : done[b] = n
           /\ \A b \in Done : Has(Captured, done[b])
           /\ Follows(sent, Captured) /\ Follows(preSpeech, Captured)
           /\ Below(Captured, clock + 1)
<1>1. /\ Ready \in Seq(Buffers) /\ Rising(Ready)
      /\ \A i \in 1..Len(Ready) : Ready[i] \in Done
      /\ \A b \in Done : Has(Ready, b)
  BY ReadyIs DEF TypeOK
<1>2. \A b \in Done : done[b] \in Frames
  BY DEF TypeOK, Done, Frames
<1>3. Captured \in Seq(Frames) /\ Len(Captured) = Len(Ready)
      /\ \A i \in 1..Len(Ready) : Captured[i] = done[Ready[i]] /\ Ready[i] \in Done
  BY <1>1, <1>2 DEF Captured
<1>4. Distinct(Captured)
  <2>1. \A i, j \in 1..Len(Ready) : i # j => Ready[i] # Ready[j]
    BY <1>1 DEF Rising, Buffers
  <2> QED
    BY <1>3, <2>1 DEF Distinct, OrderInv
<1>5. \A n : Has(Captured, n) => \E b \in Done : done[b] = n
  BY <1>3 DEF Has
<1>6. \A b \in Done : Has(Captured, done[b])
  BY <1>1, <1>3 DEF Has
<1>7. Follows(sent, Captured) /\ Follows(preSpeech, Captured)
  <2>1. \A b \in Done : Below(sent, done[b]) /\ Below(preSpeech, done[b])
    BY DEF OrderInv
  <2>2. \A i \in 1..Len(Captured) : \E b \in Done : Captured[i] = done[b]
    BY <1>3
  <2> QED
    BY <2>1, <2>2 DEF Follows
<1>8. Below(Captured, clock + 1)
  <2>1. \A b \in Done : done[b] <= clock /\ done[b] \in Nat /\ clock \in Nat
    BY <1>2 DEF OrderInv, TypeOK, Frames
  <2>2. \A i \in 1..Len(Captured) : \E b \in Done : Captured[i] = done[b]
    BY <1>3
  <2> QED
    BY <2>1, <2>2 DEF Below
<1> QED
  BY <1>3, <1>4, <1>5, <1>6, <1>7, <1>8

\* The initial states.
LEMMA InitIsTyped == Init => TypeOK
<1> SUFFICES ASSUME Init PROVE TypeOK
  OBVIOUS
<1>1. queue \in Seq(Buffers) /\ preSpeech \in Seq(Frames) /\ sent \in Seq(Frames)
  <2>1. [i \in Buffers |-> i] \in Seq(Buffers)
    BY DEF Buffers
  <2> QED
    BY <2>1 DEF Init
<1>2. done \in [Buffers -> 0..MaxFrames]
  BY DEF Init
<1>3. Len(preSpeech) <= PreSpeech
  BY DEF Init
<1>4. /\ hangover \in 0..Hangover /\ tail \in 0..KeyTail /\ clock \in 0..MaxFrames
      /\ sequence \in Nat /\ hushed \subseteq Frames /\ changes \in 0..MaxChanges
  BY DEF Init
<1> QED
  BY <1>1, <1>2, <1>3, <1>4 DEF Init, TypeOK

LEMMA OpenedIsTyped ==
    ASSUME NEW kind \in {"wave", "meter", "none"}, Opened(kind)
    PROVE  /\ capture' \in {"wave", "meter", "none"}
           /\ queue' \in Seq(Buffers) /\ done' \in [Buffers -> 0..MaxFrames]
<1>1. [i \in Buffers |-> i] \in Seq(Buffers)
  BY DEF Buffers
<1>2. queue' \in Seq(Buffers)
  BY <1>1 DEF Opened
<1>3. done' \in [Buffers -> 0..MaxFrames]
  BY DEF Opened
<1> QED
  BY <1>2, <1>3 DEF Opened

LEMMA RecordIsTyped ==
    ASSUME TypeOK, Record
    PROVE  TypeOK'
<1>1. clock' \in 0..MaxFrames /\ clock' = clock + 1
  BY DEF TypeOK, Record
<1>2. queue' \in Seq(Buffers) /\ done' \in [Buffers -> 0..MaxFrames]
  <2>1. CASE queue = <<>>
    BY <2>1 DEF TypeOK, Record
  <2>2. CASE queue # <<>>
    <3>1. Tail(queue) \in Seq(Buffers)
      BY <2>2 DEF TypeOK
    <3> QED
      BY <1>1, <2>2, <3>1 DEF TypeOK, Record
  <2> QED
    BY <2>1, <2>2
<1>3. hushed' \subseteq Frames
  <2>1. clock' \in Frames
    BY <1>1 DEF TypeOK, Frames
  <2> QED
    BY <2>1 DEF TypeOK, Record
<1> QED
  BY <1>1, <1>2, <1>3 DEF TypeOK, Record, engineVars

LEMMA TakenIsTyped ==
    ASSUME TypeOK, TakeBuffers
    PROVE  /\ queue' \in Seq(Buffers) /\ done' \in [Buffers -> 0..MaxFrames]
           /\ late' \in BOOLEAN /\ UNCHANGED capture
<1>1. Ready \in Seq(Buffers)
  BY ReadyIs DEF TypeOK
<1>2. queue' \in Seq(Buffers)
  BY <1>1 DEF TypeOK, TakeBuffers
<1>3. done' \in [Buffers -> 0..MaxFrames]
  BY DEF TakeBuffers
<1> QED
  BY <1>2, <1>3 DEF TypeOK, TakeBuffers

\* What a pump sends, and what it keeps.
New == IF transmitting THEN Captured ELSE preSpeech \o Captured
Held == preSpeech \o Captured

LEMMA PumpIsTyped ==
    ASSUME TypeOK, OrderInv, NEW above \in BOOLEAN, Pump(above)
    PROVE  TypeOK'
<1>1. Captured \in Seq(Frames) /\ Held \in Seq(Frames) /\ New \in Seq(Frames)
  BY CapturedIs DEF TypeOK, Held, New
<1>2. hangover' \in 0..Hangover /\ tail' \in 0..KeyTail
  BY DEF Pump, Counters, TypeOK, Down
<1>3. /\ preSpeech' \in Seq(Frames) /\ Len(preSpeech') <= PreSpeech
      /\ sent' \in Seq(Frames) /\ sequence' \in Nat /\ transmitting' \in BOOLEAN
  <2>1. CASE ShouldTransmit(above)
    <3>1. sent' = sent \o New /\ sequence' = sequence + Len(sent') - Len(sent)
          /\ preSpeech' = <<>> /\ transmitting' = TRUE
      BY <2>1 DEF Pump, Send, New
    <3>2. sent' \in Seq(Frames) /\ Len(sent') = Len(sent) + Len(New)
      BY <1>1, <3>1, CatIs DEF TypeOK
    <3> QED
      BY <1>1, <3>1, <3>2 DEF TypeOK
  <2>2. CASE ~ShouldTransmit(above)
    <3>1. Keep
      BY <2>2 DEF Pump
    <3>2. LastOf(Held, PreSpeech) \in Seq(Frames) /\ Len(LastOf(Held, PreSpeech)) <= PreSpeech
      BY <1>1, LastOfIs
    <3> QED
      BY <3>1, <3>2 DEF Keep, Held, TypeOK
  <2> QED
    BY <2>1, <2>2
<1>4. /\ queue' \in Seq(Buffers) /\ done' \in [Buffers -> 0..MaxFrames]
      /\ late' \in BOOLEAN /\ UNCHANGED capture
  BY TakenIsTyped DEF Pump
<1>5. UNCHANGED <<clock, pushToTalk, key, muted, hushed, changes>>
  BY DEF Pump
<1> QED
  BY <1>2, <1>3, <1>4, <1>5 DEF TypeOK

LEMMA StepIsTyped ==
    ASSUME TypeOK, OrderInv, [Next]_vars
    PROVE  TypeOK'
<1>1. CASE Record
  BY <1>1, RecordIsTyped
<1>2. CASE PumpMuted
  <2>1. preSpeech' \in Seq(Frames) /\ Len(preSpeech') <= PreSpeech
    BY <1>2 DEF PumpMuted
  <2>2. hangover' \in 0..Hangover /\ tail' \in 0..KeyTail /\ transmitting' \in BOOLEAN
    <3>1. hangover' = 0 /\ tail' = 0 /\ transmitting' = FALSE
      BY <1>2, Zenon DEF PumpMuted
    <3>2. hangover' \in 0..Hangover /\ tail' \in 0..KeyTail
      BY <3>1
    <3>3. transmitting' \in BOOLEAN
      BY <3>1, Zenon
    <3> QED
      BY <3>2, <3>3
  <2> QED
    BY <1>2, <2>1, <2>2 DEF PumpMuted, TypeOK, deviceVars
<1>3. ASSUME NEW above \in BOOLEAN, Pump(above)
      PROVE  TypeOK'
  BY <1>3, PumpIsTyped
<1>4. CASE PressOrRelease
  BY <1>4 DEF PressOrRelease, TypeOK, deviceVars, engineVars
<1>5. CASE ToggleMute
  BY <1>5 DEF ToggleMute, TypeOK, deviceVars, engineVars
<1>6. CASE Restart
  <2>1. PICK kind \in {"wave", "meter", "none"} : Opened(kind)
    BY <1>6 DEF Restart
  <2>2. preSpeech' \in Seq(Frames) /\ Len(preSpeech') <= PreSpeech
    BY <1>6 DEF Restart
  <2>3. hangover' \in 0..Hangover /\ tail' \in 0..KeyTail /\ transmitting' \in BOOLEAN
        /\ sequence' \in Nat /\ pushToTalk' \in BOOLEAN
    <3>1. /\ hangover' = 0 /\ tail' = 0 /\ transmitting' = FALSE /\ sequence' = 0
          /\ pushToTalk' \in BOOLEAN
      BY <1>6, Zenon DEF Restart
    <3>2. hangover' \in 0..Hangover /\ tail' \in 0..KeyTail /\ sequence' \in Nat
      BY <3>1
    <3>3. transmitting' \in BOOLEAN /\ pushToTalk' \in BOOLEAN
      BY <3>1, Zenon
    <3> QED
      BY <3>2, <3>3
  <2>5. changes' \in 0..MaxChanges
    BY <1>6 DEF Restart, TypeOK
  <2>4. /\ capture' \in {"wave", "meter", "none"}
        /\ queue' \in Seq(Buffers) /\ done' \in [Buffers -> 0..MaxFrames]
    BY <2>1, OpenedIsTyped
  <2> QED
    BY <1>6, <2>2, <2>3, <2>4, <2>5 DEF Restart, TypeOK
<1>7. CASE UNCHANGED vars
  BY <1>7 DEF vars, TypeOK, deviceVars, engineVars
<1> QED
  BY <1>1, <1>2, <1>3, <1>4, <1>5, <1>6, <1>7 DEF Next
----------------------------------------------------------------------------
(* The buffers. *)

LEMMA DoneEmptied ==
    ASSUME done' = [b \in Buffers |-> 0]
    PROVE  Done' = {}
BY DEF Done

\* The device as openWaveIn leaves it.
LEMMA FreshBuffers ==
    ASSUME NEW q, q = [i \in Buffers |-> i]
    PROVE  Distinct(q) /\ \A b \in Buffers : Has(q, b)
<1>1. Len(q) = NumBuffers /\ \A i \in Buffers : q[i] = i
  BY DEF Buffers
<1> QED
  BY <1>1 DEF Distinct, Has, Buffers

\* A buffer the driver fills leaves the queue and is done.
LEMMA RecordFills ==
    ASSUME TypeOK, BuffersInv, Record
    PROVE  \/ queue = <<>> /\ UNCHANGED <<queue, done>> /\ Done' = Done
           \/ \E h \in Buffers \ Done :
                 /\ capture = "wave" /\ queue # <<>> /\ h = Head(queue) /\ queue' = Tail(queue)
                 /\ done' = [done EXCEPT ![h] = clock + 1]
                 /\ Done' = Done \cup {h}
<1>1. CASE queue = <<>>
  BY <1>1 DEF Record, Done
<1>2. CASE queue # <<>>
  <2> DEFINE h == Head(queue)
  <2>1. queue \in Seq(Buffers) /\ done \in [Buffers -> 0..MaxFrames] /\ clock \in Nat
    BY DEF TypeOK
  <2>2. h \in Buffers /\ 1 \in 1..Len(queue) /\ h = queue[1]
    BY <1>2, <2>1
  <2>3. h \notin Done
    BY <2>2 DEF BuffersInv, Done
  <2>4. done' = [done EXCEPT ![h] = clock + 1] /\ queue' = Tail(queue) /\ capture = "wave"
    BY <1>2 DEF Record, BuffersInv
  <2> HIDE DEF h
  <2>5. Done' = Done \cup {h}
    BY <2>1, <2>2, <2>4 DEF Done
  <2> QED
    BY <1>2, <2>2, <2>3, <2>4, <2>5 DEF h
<1> QED
  BY <1>1, <1>2

LEMMA RecordKeepsBuffers ==
    ASSUME TypeOK, BuffersInv, Record
    PROVE  BuffersInv'
<1>1. UNCHANGED <<capture, preSpeech>>
  BY DEF Record, engineVars
<1>2. CASE UNCHANGED <<queue, done>> /\ Done' = Done
  BY <1>1, <1>2 DEF BuffersInv
<1>3. ASSUME NEW h \in Buffers \ Done,
             capture = "wave", queue # <<>>, h = Head(queue), queue' = Tail(queue),
             done' = [done EXCEPT ![h] = clock + 1], Done' = Done \cup {h}
      PROVE  BuffersInv'
  <2> DEFINE t == Tail(queue)
  <2>1. /\ queue \in Seq(Buffers) /\ done \in [Buffers -> 0..MaxFrames]
        /\ Len(queue) # 0 /\ Len(queue) \in Nat /\ queue[1] = h
    BY <1>3 DEF TypeOK
  <2>2. Len(t) = Len(queue) - 1 /\ \A i \in 1..Len(t) : t[i] = queue[i + 1] /\ i + 1 \in 1..Len(queue)
    BY <1>3, <2>1
  <2> HIDE DEF t
  <2>3. queue' = t
    BY <1>3 DEF t
  <2>4. Distinct(t)
    <3>1. \A i, j \in 1..Len(queue) : i # j => queue[i] # queue[j]
      BY DEF BuffersInv, Distinct
    <3>2. \A i, j \in 1..Len(t) : i # j => i + 1 # j + 1
      BY <2>1, <2>2
    <3> QED
      BY <2>2, <3>1, <3>2 DEF Distinct
  <2>5. ASSUME NEW i \in 1..Len(t)
        PROVE  done'[t[i]] = 0
    <3>1. t[i] \in Buffers /\ t[i] # h /\ done[t[i]] = 0
      BY <2>1, <2>2 DEF BuffersInv, Distinct
    <3> QED
      BY <1>3, <2>1, <3>1
  <2>6. ASSUME NEW b \in Buffers \ Done'
        PROVE  Has(t, b)
    <3>1. b \in Buffers \ Done /\ b # h
      BY <1>3
    <3>2. PICK i \in 1..Len(queue) : queue[i] = b
      BY <1>3, <3>1 DEF BuffersInv, Has
    <3>3. i # 1 /\ i - 1 \in 1..Len(t) /\ (i - 1) + 1 = i
      BY <2>1, <2>2, <3>1, <3>2
    <3> QED
      BY <2>2, <3>2, <3>3 DEF Has
  <2> QED
    BY <1>1, <1>3, <2>3, <2>4, <2>5, <2>6 DEF BuffersInv
<1> QED
  BY <1>2, <1>3, RecordFills

LEMMA TakingKeepsBuffers ==
    ASSUME TypeOK, BuffersInv, TakeBuffers, preSpeech' = <<>> \/ capture = "wave"
    PROVE  BuffersInv'
<1>1. /\ Ready \in Seq(Buffers) /\ Rising(Ready)
      /\ \A i \in 1..Len(Ready) : Ready[i] \in Done
      /\ \A b \in Done : Has(Ready, b)
  BY ReadyIs DEF TypeOK
<1>2. queue' = queue \o Ready /\ done' = [b \in Buffers |-> 0] /\ capture' = capture
  BY DEF TakeBuffers
<1>3. queue \in Seq(Buffers) /\ Done' = {}
  BY <1>2, DoneEmptied DEF TypeOK
<1>4. /\ queue' \in Seq(Buffers) /\ Len(queue') = Len(queue) + Len(Ready)
      /\ \A i \in 1..(Len(queue) + Len(Ready)) :
            \/ i \in 1..Len(queue) /\ queue'[i] = queue[i]
            \/ i - Len(queue) \in 1..Len(Ready) /\ queue'[i] = Ready[i - Len(queue)]
  BY <1>1, <1>2, <1>3, CatIs
<1>5. \A i \in 1..Len(queue) : queue[i] \notin Done
  BY DEF BuffersInv, Done
<1>6. \A i, j \in 1..Len(Ready) : i # j => Ready[i] # Ready[j]
  BY <1>1 DEF Rising, Buffers
<1>7. Distinct(queue')
  <2>1. Distinct(queue) /\ Distinct(Ready)
    BY <1>6 DEF BuffersInv, Distinct
  <2>2. \A i \in 1..Len(queue), j \in 1..Len(Ready) : queue[i] # Ready[j]
    BY <1>1, <1>5
  <2> QED
    BY <1>1, <1>2, <1>3, <2>1, <2>2, CatDistinct
<1>8. \A i \in 1..Len(queue') : done'[queue'[i]] = 0
  BY <1>2, <1>4
<1>9. ASSUME capture = "wave", NEW b \in Buffers
      PROVE  Has(queue', b)
  <2>1. CASE b \in Done
    <3>1. PICK i \in 1..Len(Ready) : Ready[i] = b
      BY <1>1, <2>1 DEF Has
    <3>2. i + Len(queue) \in 1..Len(queue') /\ queue'[i + Len(queue)] = b
      BY <1>1, <1>2, <1>3, <1>4, <3>1
    <3> QED
      BY <3>2 DEF Has
  <2>2. CASE b \notin Done
    <3>1. PICK i \in 1..Len(queue) : queue[i] = b
      BY <1>9, <2>2 DEF BuffersInv, Has
    <3>2. i \in 1..Len(queue') /\ queue'[i] = b
      BY <1>1, <1>2, <1>3, <1>4, <3>1
    <3> QED
      BY <3>2 DEF Has
  <2> QED
    BY <2>1, <2>2
<1>10. ASSUME capture # "wave"
       PROVE  queue' = <<>>
  <2>1. queue = <<>> /\ Done = {}
    BY <1>10 DEF BuffersInv
  <2>2. Ready = <<>>
    BY <1>1, <2>1
  <2> QED
    BY <1>2, <2>1, <2>2
<1> QED
  BY <1>2, <1>3, <1>7, <1>8, <1>9, <1>10 DEF BuffersInv

LEMMA OpeningMakesBuffers ==
    ASSUME NEW kind \in {"wave", "meter", "none"}, Opened(kind), preSpeech' = <<>>
    PROVE  BuffersInv' /\ Done' = {}
<1>1. Done' = {}
  BY DoneEmptied DEF Opened
<1>2. CASE kind = "wave"
  <2>1. queue' = [i \in Buffers |-> i] /\ capture' = "wave" /\ done' = [b \in Buffers |-> 0]
    BY <1>2 DEF Opened
  <2>2. Distinct(queue') /\ \A b \in Buffers : Has(queue', b)
    BY <2>1, FreshBuffers
  <2>3. \A i \in 1..Len(queue') : done'[queue'[i]] = 0
    BY <2>1 DEF Buffers
  <2>4. capture' = "wave"
    BY <2>1
  <2> QED
    BY <1>1, <2>2, <2>3, <2>4, Zenon DEF BuffersInv
<1>3. CASE kind # "wave"
  <2>1. queue' = <<>> /\ capture' # "wave"
    BY <1>3 DEF Opened
  <2> QED
    BY <1>1, <2>1 DEF BuffersInv, Distinct
<1> QED
  BY <1>1, <1>2, <1>3

LEMMA StepKeepsBuffers ==
    ASSUME TypeOK, CaptureInv, [Next]_vars
    PROVE  BuffersInv'
<1> BuffersInv /\ OrderInv
  BY DEF CaptureInv
<1>1. CASE Record
  BY <1>1, RecordKeepsBuffers
<1>2. CASE PumpMuted
  BY <1>2 DEF PumpMuted, deviceVars, BuffersInv, Done
<1>3. ASSUME NEW above \in BOOLEAN, Pump(above)
      PROVE  BuffersInv'
  <2>1. preSpeech' = <<>> \/ capture = "wave"
    <3>1. CASE ShouldTransmit(above)
      BY <1>3, <3>1 DEF Pump, Send
    <3>2. CASE ~ShouldTransmit(above) /\ capture # "wave"
      <4>1. preSpeech = <<>> /\ Done = {}
        BY <3>2 DEF BuffersInv
      <4>2. Captured \in Seq(Frames) /\ Len(Captured) = 0
        <5>1. Ready \in Seq(Buffers) /\ \A i \in 1..Len(Ready) : Ready[i] \in Done
          BY ReadyIs DEF TypeOK
        <5>2. Len(Ready) = 0
          BY <4>1, <5>1
        <5> QED
          BY <5>2, CapturedIs
      <4>3. preSpeech \o Captured = <<>>
        BY <4>1, <4>2
      <4>4. preSpeech' = LastOf(preSpeech \o Captured, PreSpeech)
        BY <1>3, <3>2 DEF Pump, Keep
      <4> QED
        BY <4>3, <4>4 DEF LastOf
    <3> QED
      BY <3>1, <3>2
  <2> QED
    BY <1>3, <2>1, TakingKeepsBuffers DEF Pump
<1>4. CASE PressOrRelease
  BY <1>4 DEF PressOrRelease, deviceVars, engineVars, BuffersInv, Done
<1>5. CASE ToggleMute
  BY <1>5 DEF ToggleMute, deviceVars, engineVars, BuffersInv, Done
<1>6. CASE Restart
  BY <1>6, OpeningMakesBuffers DEF Restart
<1>7. CASE UNCHANGED vars
  BY <1>7 DEF vars, deviceVars, engineVars, BuffersInv, Done
<1> QED
  BY <1>1, <1>2, <1>3, <1>4, <1>5, <1>6, <1>7 DEF Next
----------------------------------------------------------------------------
(* The order. *)

LEMMA BelowMore ==
    ASSUME NEW s \in Seq(Frames), NEW n \in Nat, NEW m \in Nat, n <= m, Below(s, n)
    PROVE  Below(s, m)
<1>1. \A i \in 1..Len(s) : s[i] \in Nat /\ s[i] < n
  BY DEF Below, Frames
<1> QED
  BY <1>1 DEF Below

LEMMA RecordKeepsOrder ==
    ASSUME TypeOK, BuffersInv, OrderInv, Record
    PROVE  OrderInv'
<1>1. UNCHANGED <<sent, preSpeech, late>> /\ clock' = clock + 1 /\ clock \in Nat
  BY DEF Record, engineVars, TypeOK
<1>2. sent \in Seq(Frames) /\ preSpeech \in Seq(Frames) /\ done \in [Buffers -> 0..MaxFrames]
  BY DEF TypeOK
<1>3. Below(sent, clock + 2) /\ Below(preSpeech, clock + 2)
  BY <1>1, <1>2, BelowMore DEF OrderInv
<1>4. /\ \A b \in Done' : Below(sent, done'[b]) /\ Below(preSpeech, done'[b]) /\ done'[b] <= clock + 1
      /\ \A b, c \in Done' : b # c => done'[b] # done'[c]
  <2>1. /\ \A b \in Done : /\ Below(sent, done[b]) /\ Below(preSpeech, done[b]) /\ done[b] <= clock
                          /\ done[b] \in Nat
        /\ \A b, c \in Done : b # c => done[b] # done[c]
        /\ Below(sent, clock + 1) /\ Below(preSpeech, clock + 1)
    BY <1>2 DEF OrderInv, Done
  <2>2. CASE UNCHANGED <<queue, done>> /\ Done' = Done
    BY <1>1, <2>1, <2>2
  <2>3. ASSUME NEW h \in Buffers \ Done,
               done' = [done EXCEPT ![h] = clock + 1], Done' = Done \cup {h}
        PROVE  /\ \A b \in Done' : Below(sent, done'[b]) /\ Below(preSpeech, done'[b]) /\ done'[b] <= clock + 1
               /\ \A b, c \in Done' : b # c => done'[b] # done'[c]
    <3>1. done'[h] = clock + 1 /\ \A b \in Done : b # h /\ done'[b] = done[b]
      BY <1>2, <2>3 DEF Done
    <3> QED
      BY <1>1, <2>1, <2>3, <3>1
  <2> QED
    BY <2>2, <2>3, RecordFills
<1> QED
  BY <1>1, <1>3, <1>4 DEF OrderInv

\* What a pump sends or keeps is in order, new and not from the future.
LEMMA HeldIs ==
    ASSUME TypeOK, OrderInv
    PROVE  /\ Held \in Seq(Frames) /\ Distinct(Held) /\ Follows(sent, Held)
           /\ Below(Held, clock + 1)
           /\ ~late /\ Len(Ready) <= 1 => Rising(Held) /\ Rising(Captured)
<1>1. preSpeech \in Seq(Frames) /\ Captured \in Seq(Frames)
  BY CapturedIs DEF TypeOK
<1>2. Held \in Seq(Frames) /\ Distinct(Held)
  <2>1. \A i \in 1..Len(preSpeech), j \in 1..Len(Captured) : preSpeech[i] # Captured[j]
    BY <1>1, CapturedIs, FollowsApart
  <2> QED
    BY <1>1, <2>1, CapturedIs, CatIs, CatDistinct DEF Held, OrderInv
<1>3. Follows(sent, Held)
  BY <1>1, CapturedIs, CatFollows DEF Held, OrderInv
<1>4. Below(Held, clock + 1)
  BY <1>1, CapturedIs, CatBelow DEF Held, OrderInv
<1>5. ASSUME ~late, Len(Ready) <= 1
      PROVE  Rising(Held) /\ Rising(Captured)
  <2>1. Len(Captured) <= 1
    BY <1>5, CapturedIs
  <2>2. Rising(Captured)
    BY <1>1, <2>1 DEF Rising
  <2> QED
    BY <1>1, <1>5, <2>2, CapturedIs, CatRising DEF Held, OrderInv
<1> QED
  BY <1>2, <1>3, <1>4, <1>5

LEMMA NewIs ==
    ASSUME TypeOK, OrderInv
    PROVE  /\ New \in Seq(Frames) /\ Distinct(New) /\ Follows(sent, New)
           /\ Below(New, clock + 1)
           /\ ~late /\ Len(Ready) <= 1 => Rising(New)
<1>1. CASE transmitting
  BY <1>1, CapturedIs, HeldIs DEF New
<1>2. CASE ~transmitting
  BY <1>2, HeldIs DEF New, Held
<1> QED
  BY <1>1, <1>2

\* A pump sends New and keeps nothing, or sends nothing and keeps the end of Held.
LEMMA PumpDoes ==
    ASSUME TypeOK, OrderInv, NEW above \in BOOLEAN, Pump(above)
    PROVE  /\ Done' = {} /\ UNCHANGED clock
           /\ ~late' => ~late /\ Len(Ready) <= 1
           /\ \/ sent' = sent \o New /\ preSpeech' = <<>> /\ ShouldTransmit(above)
              \/ /\ sent' = sent /\ preSpeech' = LastOf(Held, PreSpeech)
                 /\ transmitting' = (transmitting /\ capture = "none")
<1>0. UNCHANGED clock
  BY DEF Pump
<1>1. Done' = {}
  BY DoneEmptied DEF Pump, TakeBuffers
<1>2. ~late' => ~late /\ Len(Ready) <= 1
  <2>1. late' = (late \/ Len(Ready) > 1) /\ Len(Ready) \in Nat
    BY ReadyIs DEF Pump, TakeBuffers, TypeOK
  <2>2. ~late' => ~late /\ ~(Len(Ready) > 1)
    BY <2>1, Zenon
  <2> QED
    BY <2>1, <2>2
<1>3. CASE ShouldTransmit(above)
  <2>1. sent' = sent \o New /\ preSpeech' = <<>>
    BY <1>3, Zenon DEF Pump, Send, New
  <2> QED
    BY <1>0, <1>1, <1>2, <1>3, <2>1, Zenon
<1>4. CASE ~ShouldTransmit(above)
  <2>1. /\ sent' = sent /\ preSpeech' = LastOf(Held, PreSpeech)
        /\ transmitting' = (transmitting /\ capture = "none")
    BY <1>4, Zenon DEF Pump, Keep, Held
  <2> QED
    BY <1>0, <1>1, <1>2, <2>1, Zenon
<1> QED
  BY <1>3, <1>4, Zenon

LEMMA PumpKeepsOrder ==
    ASSUME TypeOK, OrderInv, NEW above \in BOOLEAN, Pump(above)
    PROVE  OrderInv'
<1>1. Done' = {} /\ clock' = clock /\ (~late' => ~late /\ Len(Ready) <= 1) /\ sent \in Seq(Frames)
  BY PumpDoes DEF TypeOK
<1>2. /\ Distinct(sent) /\ Below(sent, clock + 1) /\ (~late => Rising(sent))
  BY DEF OrderInv
<1>3. CASE sent' = sent \o New /\ preSpeech' = <<>>
  <2>1. Distinct(sent')
    BY <1>1, <1>2, <1>3, NewIs, FollowsApart, CatDistinct
  <2>2. ~late' => Rising(sent')
    BY <1>1, <1>2, <1>3, NewIs, CatRising
  <2>3. Below(sent', clock + 1)
    BY <1>1, <1>2, <1>3, NewIs, CatBelow
  <2>4. /\ Distinct(preSpeech') /\ Rising(preSpeech') /\ Follows(sent', preSpeech')
        /\ Below(preSpeech', clock + 1)
    BY <1>3 DEF Distinct, Rising, Follows, Below
  <2> QED
    BY <1>1, <2>1, <2>2, <2>3, <2>4 DEF OrderInv
<1>4. CASE sent' = sent /\ preSpeech' = LastOf(Held, PreSpeech)
  <2> DEFINE t == LastOf(Held, PreSpeech)
  <2>1. Held \in Seq(Frames)
    BY HeldIs
  <2>2. t \in Seq(Frames) /\ \E d \in Nat : EndOf(t, Held, d)
    BY <2>1, LastOfIs
  <2> HIDE DEF t
  <2>3. /\ Distinct(t) /\ Follows(sent, t) /\ Below(t, clock + 1)
        /\ ~late' => Rising(t)
    BY <1>1, <2>1, <2>2, HeldIs, EndKeeps
  <2>4. preSpeech' = t
    BY <1>4 DEF t
  <2> QED
    BY <1>1, <1>2, <1>4, <2>3, <2>4 DEF OrderInv
<1> QED
  BY <1>3, <1>4, PumpDoes

LEMMA StepKeepsOrder ==
    ASSUME TypeOK, CaptureInv, [Next]_vars
    PROVE  OrderInv'
<1> BuffersInv /\ OrderInv
  BY DEF CaptureInv
<1>0. ASSUME preSpeech' = <<>>, UNCHANGED <<sent, late, clock>>, done' = done \/ Done' = {}
      PROVE  OrderInv'
  <2>1. /\ Distinct(preSpeech') /\ Rising(preSpeech') /\ Follows(sent, preSpeech')
        /\ \A n : Below(preSpeech', n)
    BY <1>0 DEF Distinct, Rising, Follows, Below
  <2>2. done' = done => Done' = Done
    BY DEF Done
  <2> QED
    BY <1>0, <2>1, <2>2 DEF OrderInv
<1>1. CASE Record
  BY <1>1, RecordKeepsOrder
<1>2. CASE PumpMuted
  BY <1>0, <1>2 DEF PumpMuted, deviceVars
<1>3. ASSUME NEW above \in BOOLEAN, Pump(above)
      PROVE  OrderInv'
  BY <1>3, PumpKeepsOrder
<1>4. CASE PressOrRelease
  BY <1>4 DEF PressOrRelease, deviceVars, engineVars, OrderInv, Done
<1>5. CASE ToggleMute
  BY <1>5 DEF ToggleMute, deviceVars, engineVars, OrderInv, Done
<1>6. CASE Restart
  BY <1>0, <1>6, OpeningMakesBuffers DEF Restart
<1>7. CASE UNCHANGED vars
  BY <1>7 DEF vars, deviceVars, engineVars, OrderInv, Done
<1> QED
  BY <1>1, <1>2, <1>3, <1>4, <1>5, <1>6, <1>7 DEF Next
----------------------------------------------------------------------------
(* Wholeness. *)

\* While the device records, two buffers at least are somewhere.
LEMMA NotAllAreDone ==
    ASSUME TypeOK, BuffersInv, queue = <<>>
    PROVE  /\ \A b \in Done : Done # {b}
           /\ preSpeech # <<>> => Done # {}
<1>1. CASE capture = "wave"
  <2>1. Done = Buffers
    BY <1>1 DEF BuffersInv, Has, Done
  <2>2. 1 \in Buffers /\ 2 \in Buffers
    BY DEF Buffers
  <2> QED
    BY <2>1, <2>2
<1>2. CASE capture # "wave"
  BY <1>2 DEF BuffersInv
<1> QED
  BY <1>1, <1>2

LEMMA RecordKeepsWhole ==
    ASSUME TypeOK, BuffersInv, WholeInv, Record
    PROVE  WholeInv'
<1>1. UNCHANGED <<preSpeech, late>> /\ clock' = clock + 1
  BY DEF Record, engineVars
<1>2. CASE queue = <<>> /\ UNCHANGED <<queue, done>> /\ Done' = Done
  <2>1. /\ \A b \in Done : Done # {b}
        /\ preSpeech # <<>> => Done # {}
    BY <1>2, NotAllAreDone
  <2> QED
    BY <1>1, <1>2, <2>1 DEF WholeInv
<1>3. ASSUME NEW h \in Buffers \ Done,
             done' = [done EXCEPT ![h] = clock + 1], Done' = Done \cup {h}
      PROVE  WholeInv'
  <2>1. done'[h] = clock + 1
    BY <1>3 DEF TypeOK
  <2>2. \A b \in Done' : Done' = {b} => b = h /\ Done = {}
    BY <1>3
  <2>3. Done' # {}
    BY <1>3
  <2>4. ~late /\ preSpeech # <<>> /\ Done = {} => preSpeech[Len(preSpeech)] = clock
    BY DEF WholeInv
  <2>5. ~late /\ preSpeech # <<>> => Consecutive(preSpeech)
    BY DEF WholeInv
  <2> QED
    BY <1>1, <2>1, <2>2, <2>3, <2>4, <2>5 DEF WholeInv
<1> QED
  BY <1>2, <1>3, RecordFills

\* When at most one buffer is ready, pre-speech and its frame are one stretch.
LEMMA HeldIsWhole ==
    ASSUME TypeOK, OrderInv, WholeInv, ~late, Len(Ready) <= 1
    PROVE  /\ Consecutive(Held)
           /\ \A b \in Done : /\ Captured # <<>> /\ Captured[Len(Captured)] = done[b]
                             /\ Held # <<>> /\ Held[Len(Held)] = done[b] /\ Done = {b}
           /\ Held # <<>> => Held[Len(Held)] = clock
<1>1. preSpeech \in Seq(Frames) /\ Captured \in Seq(Frames) /\ Ready \in Seq(Buffers)
      /\ Len(Captured) = Len(Ready)
  BY CapturedIs, ReadyIs DEF TypeOK
<1>2. CASE Done = {}
  <2>1. \A i \in 1..Len(Ready) : Ready[i] \in Done
    BY ReadyIs DEF TypeOK
  <2>2. Len(Ready) = 0
    BY <1>1, <1>2, <2>1
  <2>3. Held = preSpeech
    BY <1>1, <2>2 DEF Held
  <2>4. preSpeech = <<>> => Consecutive(preSpeech)
    BY DEF Consecutive
  <2> QED
    BY <1>2, <2>3, <2>4 DEF WholeInv
<1>3. ASSUME NEW b \in Done
      PROVE  /\ Consecutive(Held)
             /\ Captured # <<>> /\ Captured[Len(Captured)] = done[b]
             /\ Held # <<>> /\ Held[Len(Held)] = done[b] /\ Done = {b} /\ done[b] = clock
  <2>1. \A c \in Done : Has(Ready, c)
    BY ReadyIs DEF TypeOK
  <2>2. Len(Ready) = 1 /\ Ready[1] = b /\ Done = {b}
    BY <1>1, <1>3, <2>1 DEF Has
  <2>3. Captured = <<done[b]>>
    BY <1>1, <2>2 DEF Captured
  <2>4. done[b] = clock
    BY <2>2 DEF WholeInv
  <2>5. Held = Append(preSpeech, done[b])
    BY <1>1, <2>3 DEF Held
  <2>6. /\ Len(Held) = Len(preSpeech) + 1 /\ Held[Len(preSpeech) + 1] = done[b]
        /\ \A i \in 1..Len(preSpeech) : Held[i] = preSpeech[i]
    BY <1>1, <2>5
  <2>7. Consecutive(Held)
    <3>1. CASE preSpeech = <<>>
      BY <2>6, <3>1 DEF Consecutive
    <3>2. CASE preSpeech # <<>>
      <4>1. Consecutive(preSpeech) /\ done[b] = preSpeech[Len(preSpeech)] + 1
        BY <1>3, <2>2, <3>2 DEF WholeInv
      <4>2. Len(preSpeech) \in Nat \ {0}
        BY <1>1, <3>2
      <4>3. ASSUME NEW i \in 1..Len(preSpeech)
            PROVE  Held[i + 1] = Held[i] + 1
        <5>1. CASE i = Len(preSpeech)
          BY <2>6, <4>1, <4>2, <5>1
        <5>2. CASE i \in 1..(Len(preSpeech) - 1)
          BY <2>6, <4>1, <4>2, <5>2 DEF Consecutive
        <5> QED
          BY <4>2, <5>1, <5>2
      <4> QED
        BY <2>6, <4>2, <4>3 DEF Consecutive
    <3> QED
      BY <3>1, <3>2
  <2>8. Held # <<>> /\ Held[Len(Held)] = done[b]
    BY <1>1, <2>6
  <2> QED
    BY <2>2, <2>3, <2>4, <2>7, <2>8
<1> QED
  BY <1>2, <1>3

LEMMA PumpKeepsWhole ==
    ASSUME TypeOK, OrderInv, WholeInv, NEW above \in BOOLEAN, Pump(above)
    PROVE  WholeInv'
<1>1. Done' = {} /\ clock' = clock /\ (~late' => ~late /\ Len(Ready) <= 1)
  BY PumpDoes
<1>2. CASE preSpeech' = <<>>
  BY <1>1, <1>2 DEF WholeInv
<1>3. CASE preSpeech' = LastOf(Held, PreSpeech)
  <2> DEFINE t == LastOf(Held, PreSpeech)
  <2>1. Held \in Seq(Frames)
    BY HeldIs
  <2>2. t \in Seq(Frames) /\ \E d \in Nat : EndOf(t, Held, d)
    BY <2>1, LastOfIs
  <2>3. preSpeech' = t
    BY <1>3
  <2> HIDE DEF t
  <2>4. ASSUME ~late', t # <<>>
        PROVE  Consecutive(t) /\ t[Len(t)] = clock
    <3>1. Consecutive(Held) /\ (Held # <<>> => Held[Len(Held)] = clock)
      BY <1>1, <2>4, HeldIsWhole
    <3> QED
      BY <2>1, <2>2, <2>4, <3>1, EndKeeps
  <2> QED
    BY <1>1, <2>3, <2>4 DEF WholeInv
<1> QED
  BY <1>2, <1>3, PumpDoes

LEMMA StepKeepsWhole ==
    ASSUME TypeOK, CaptureInv, [Next]_vars
    PROVE  WholeInv'
<1> BuffersInv /\ OrderInv /\ WholeInv
  BY DEF CaptureInv
<1>1. CASE Record
  BY <1>1, RecordKeepsWhole
<1>2. CASE PumpMuted
  BY <1>2 DEF PumpMuted, deviceVars, WholeInv, Done
<1>3. ASSUME NEW above \in BOOLEAN, Pump(above)
      PROVE  WholeInv'
  BY <1>3, PumpKeepsWhole
<1>4. CASE PressOrRelease
  BY <1>4 DEF PressOrRelease, deviceVars, engineVars, WholeInv, Done
<1>5. CASE ToggleMute
  BY <1>5 DEF ToggleMute, deviceVars, engineVars, WholeInv, Done
<1>6. CASE Restart
  <2>1. preSpeech' = <<>> /\ Done' = {}
    BY <1>6, OpeningMakesBuffers DEF Restart
  <2> QED
    BY <2>1 DEF WholeInv
<1>7. CASE UNCHANGED vars
  BY <1>7 DEF vars, deviceVars, engineVars, WholeInv, Done
<1> QED
  BY <1>1, <1>2, <1>3, <1>4, <1>5, <1>6, <1>7 DEF Next
----------------------------------------------------------------------------
(* The theorems. *)

LEMMA InitHolds ==
    ASSUME Init
    PROVE  CaptureInv
<1>1. Done = {} /\ sent = <<>> /\ preSpeech = <<>> /\ clock = 0
  BY DEF Init, Done
<1>2. BuffersInv
  <2>1. CASE capture = "wave"
    <3>1. queue = [i \in Buffers |-> i] /\ done = [b \in Buffers |-> 0]
      BY <2>1 DEF Init
    <3>2. Distinct(queue) /\ \A b \in Buffers : Has(queue, b)
      BY <3>1, FreshBuffers
    <3>3. \A i \in 1..Len(queue) : done[queue[i]] = 0
      BY <3>1 DEF Buffers
    <3> QED
      BY <2>1, <3>2, <3>3, Zenon DEF BuffersInv
  <2>2. CASE capture # "wave"
    <3>1. queue = <<>>
      BY <2>2 DEF Init
    <3> QED
      BY <1>1, <2>2, <3>1 DEF BuffersInv, Distinct
  <2> QED
    BY <2>1, <2>2
<1>3. OrderInv
  BY <1>1 DEF OrderInv, Distinct, Rising, Follows, Below
<1>4. WholeInv
  BY <1>1 DEF WholeInv
<1> QED
  BY <1>2, <1>3, <1>4 DEF CaptureInv

\* The variables have their types, and CaptureInv is an invariant, whatever the
\* driver, the main loop and the user do in whatever order.
THEOREM CaptureInvariant == Spec => [](TypeOK /\ CaptureInv)
<1>1. Init => TypeOK /\ CaptureInv
  BY InitIsTyped, InitHolds
<1>2. TypeOK /\ CaptureInv /\ [Next]_vars => (TypeOK /\ CaptureInv)'
  <2> SUFFICES ASSUME TypeOK, CaptureInv, [Next]_vars PROVE (TypeOK /\ CaptureInv)'
    OBVIOUS
  <2>1. TypeOK'
    BY StepIsTyped DEF CaptureInv
  <2> QED
    BY <2>1, StepKeepsBuffers, StepKeepsOrder, StepKeepsWhole DEF CaptureInv
<1> QED
  BY <1>1, <1>2, PTL DEF Spec

\* The variables of the capture have their types.
THEOREM TypeCorrect == Spec => []TypeOK
BY CaptureInvariant, PTL

\* No frame is sent twice, and while the main loop keeps up they are sent in the
\* order of recording: pump's decision what to send, to keep and to drop.
THEOREM SentOnce == Spec => []EachFrameOnce
<1>1. TypeOK /\ CaptureInv => EachFrameOnce
  <2> SUFFICES ASSUME TypeOK, CaptureInv PROVE EachFrameOnce
    OBVIOUS
  <2>1. DOMAIN sent = 1..Len(sent) /\ Len(sent) \in Nat
    BY DEF TypeOK
  <2> QED
    BY <2>1 DEF CaptureInv, OrderInv, EachFrameOnce, Distinct, Rising
<1> QED
  BY <1>1, CaptureInvariant, PTL

\* What a pump sends is one stretch of time up to now, while the main loop keeps up.
THEOREM Whole == Spec => SpeechIsWhole
<1> DEFINE Stretch == \A above \in BOOLEAN : Pump(above) /\ transmitting' /\ ~late' =>
                LET new == SubSeq(sent', Len(sent) + 1, Len(sent'))
                IN  /\ \A i \in DOMAIN new : i > 1 => new[i] = new[i - 1] + 1
                    /\ \A b \in Buffers : done[b] # 0 => new # <<>> /\ new[Len(new)] = done[b]
<1>1. ASSUME TypeOK, CaptureInv PROVE Stretch
  <2> SUFFICES ASSUME NEW above \in BOOLEAN, Pump(above), transmitting', ~late'
               PROVE  LET new == SubSeq(sent', Len(sent) + 1, Len(sent'))
                      IN  /\ \A i \in DOMAIN new : i > 1 => new[i] = new[i - 1] + 1
                          /\ \A b \in Done : new # <<>> /\ new[Len(new)] = done[b]
    BY DEF Done
  <2> DEFINE new == SubSeq(sent', Len(sent) + 1, Len(sent'))
  <2>1. BuffersInv /\ OrderInv /\ WholeInv
    BY <1>1 DEF CaptureInv
  <2>2. sent \in Seq(Frames) /\ New \in Seq(Frames) /\ Captured \in Seq(Frames)
    BY <1>1, <2>1, NewIs, CapturedIs DEF TypeOK
  <2>3. ~late /\ Len(Ready) <= 1
    BY <1>1, <2>1, PumpDoes
  <2>4. CASE sent' = sent \o New
    <3>1. new = New
      BY <2>2, <2>4
    <3> HIDE DEF new
    <3>2. Consecutive(New) /\ \A b \in Done : New # <<>> /\ New[Len(New)] = done[b]
      <4>1. CASE transmitting
        <5>1. New = Captured /\ Len(Captured) <= 1
          BY <1>1, <2>1, <2>3, <4>1, CapturedIs DEF New
        <5>2. Consecutive(Captured)
          BY <2>2, <5>1 DEF Consecutive
        <5> QED
          BY <1>1, <2>1, <2>3, <5>1, <5>2, HeldIsWhole
      <4>2. CASE ~transmitting
        BY <1>1, <2>1, <2>3, <4>2, HeldIsWhole DEF New, Held
      <4> QED
        BY <4>1, <4>2
    <3>3. \A i \in DOMAIN New : i > 1 => i - 1 \in 1..(Len(New) - 1) /\ (i - 1) + 1 = i
      BY <2>2
    <3>4. \A i \in DOMAIN New : i > 1 => New[i] = New[i - 1] + 1
      BY <3>2, <3>3 DEF Consecutive
    <3> QED
      BY <3>1, <3>2, <3>4 DEF new
  <2>5. CASE sent' = sent /\ transmitting' = (transmitting /\ capture = "none")
    <3>1. Done = {}
      BY <2>1, <2>5 DEF BuffersInv
    <3>2. new = <<>>
      BY <2>2, <2>5
    <3> HIDE DEF new
    <3>3. \A i \in DOMAIN new : i > 1 => new[i] = new[i - 1] + 1
      BY <3>2
    <3> QED
      BY <3>1, <3>3 DEF new
  <2> QED
    BY <1>1, <2>1, <2>4, <2>5, PumpDoes
<1>2. TypeOK /\ CaptureInv /\ [Next]_vars => [Stretch]_vars
  BY <1>1
<1> QED
  BY <1>2, CaptureInvariant, PTL DEF Spec, SpeechIsWhole
=============================================================================
