--------------------------- MODULE PlaybackProofs ---------------------------
(***************************************************************************)
(* Theorems about Playback, for any peers, queue and jitter lengths and    *)
(* number of frames and breaks: types, what a queue holds, and the order   *)
(* in which frames are queued.  Its liveness is model-checked.             *)
(***************************************************************************)
EXTENDS Playback, SequenceTheorems, TLAPS

Numbers == 1..MaxSent

\* Numbers of a peer's engine never run ahead of what it has sent.
SeqBound == \A p \in Peers : seq[p] <= sent[p]

\* Sequence s is the end of sequence t.
IsEnd(s, t) ==
    /\ Len(s) <= Len(t)
    /\ \A i \in 1..Len(s) : s[i] = t[Len(t) - Len(s) + i]

QueuesAreEnds == \A p \in DOMAIN remote : IsEnd(remote[p].frames, accepted[p])

Increasing(s) == \A i, j \in 1..Len(s) : i < j => s[i] < s[j]
After(n, s) == \A i \in 1..Len(s) : s[i] < n

\* Frames under way were sent, and with a number below the next.
WasSent(p) ==
    /\ \A f \in net[p] : f.n <= sent[p]
    /\ \A i \in 1..Len(accepted[p]) : accepted[p][i] <= sent[p]

\* The frames of a peer that was not mingled are of one engine's life, so that
\* numbers tell their order; and those that the filter lets through, or will
\* when the peer is forgotten, are later than all that were queued.
InOrder(p) ==
    /\ \A f \in net[p] : f.seq < seq[p]
    /\ \A f, g \in net[p] : f.seq < g.seq => f.n < g.n
    /\ \A f \in net[p] : IsNew(p, f.seq) \/ p \in silent => After(f.n, accepted[p])
    /\ Increasing(accepted[p])

Inv ==
    /\ TypeOK /\ SeqBound /\ QueuesAreEnds
    /\ \A p \in Peers : WasSent(p) /\ (p \notin mingled => InOrder(p))
----------------------------------------------------------------------------
(* Sequences. *)

LEMMA AppendToEnd ==
    ASSUME NEW S, NEW s \in Seq(S), NEW t \in Seq(S), NEW e \in S, IsEnd(s, t)
    PROVE  IsEnd(Append(s, e), Append(t, e))
<1>0. \A r \in Seq(S) :
          /\ Len(Append(r, e)) = Len(r) + 1 /\ Append(r, e)[Len(r) + 1] = e
          /\ \A i \in 1..Len(r) : Append(r, e)[i] = r[i]
          /\ Len(r) \in Nat
  <2> TAKE r \in Seq(S)
  <2> QED
    BY AppendProperties, LenProperties
<1>1. /\ Len(Append(s, e)) = Len(s) + 1 /\ Len(Append(t, e)) = Len(t) + 1
      /\ \A i \in 1..Len(s) : Append(s, e)[i] = s[i]
      /\ \A i \in 1..Len(t) : Append(t, e)[i] = t[i]
      /\ Append(s, e)[Len(s) + 1] = e /\ Append(t, e)[Len(t) + 1] = e
      /\ Len(s) \in Nat /\ Len(t) \in Nat
  BY <1>0
<1> DEFINE a == Append(s, e)  b == Append(t, e)
<1>2. Len(a) <= Len(b)
  BY <1>1 DEF IsEnd
<1> HIDE DEF a, b
<1> SUFFICES ASSUME NEW i \in 1..Len(a) PROVE a[i] = b[Len(b) - Len(a) + i]
  BY <1>2 DEF IsEnd, a, b
<1>3. CASE i = Len(s) + 1
  BY <1>1, <1>3 DEF a, b
<1>4. CASE i \in 1..Len(s)
  <2>1. a[i] = s[i] /\ s[i] = t[Len(t) - Len(s) + i] /\ Len(s) <= Len(t)
    BY <1>1, <1>4 DEF a, IsEnd
  <2>2. Len(t) - Len(s) + i \in 1..Len(t) /\ Len(b) - Len(a) + i = Len(t) - Len(s) + i
    BY <1>1, <1>4, <2>1 DEF a, b
  <2> QED
    BY <1>1, <2>1, <2>2 DEF b
<1> QED
  BY <1>1, <1>3, <1>4 DEF a

LEMMA TailOfEnd ==
    ASSUME NEW S, NEW s \in Seq(S), NEW t \in Seq(S), s # <<>>, IsEnd(s, t)
    PROVE  IsEnd(Tail(s), t)
<1>1. /\ Len(Tail(s)) = Len(s) - 1 /\ Tail(s) \in Seq(S)
      /\ \A i \in 1..Len(Tail(s)) : Tail(s)[i] = s[i + 1]
      /\ Len(s) \in Nat /\ Len(s) > 0 /\ Len(t) \in Nat
  BY HeadTailProperties, LenProperties, EmptySeq
<1>2. \A i \in 1..Len(Tail(s)) : i + 1 \in 1..Len(s) /\ s[i + 1] = t[Len(t) - Len(s) + (i + 1)]
  BY <1>1 DEF IsEnd
<1>3. \A i \in 1..Len(Tail(s)) : Len(t) - Len(s) + (i + 1) = Len(t) - Len(Tail(s)) + i
  BY <1>1
<1> QED
  BY <1>1, <1>2, <1>3 DEF IsEnd

LEMMA EndIsSubSeq ==
    ASSUME NEW S, NEW s \in Seq(S), NEW t \in Seq(S), IsEnd(s, t)
    PROVE  Len(s) <= Len(t) /\ s = SubSeq(t, Len(t) - Len(s) + 1, Len(t))
<1> DEFINE m == Len(t) - Len(s) + 1  u == SubSeq(t, m, Len(t))
<1>1. Len(s) \in Nat /\ Len(t) \in Nat /\ Len(s) <= Len(t)
  BY LenProperties DEF IsEnd
<1>2. \A i \in m..Len(t) : t[i] \in S
  BY <1>1, ElementOfSeq
<1>3. /\ u \in Seq(S) /\ Len(u) = IF m <= Len(t) THEN Len(t) - m + 1 ELSE 0
      /\ \A i \in 1..(Len(t) - m + 1) : u[i] = t[m + i - 1]
  BY <1>1, <1>2, SubSeqProperties
<1>4. Len(u) = Len(s)
  BY <1>1, <1>3
<1>5. \A i \in 1..Len(s) : u[i] = s[i]
  BY <1>1, <1>3 DEF IsEnd
<1> QED
  BY <1>1, <1>3, <1>4, <1>5, SeqEqual

\* A frame is queued: the queue stays the end of what was accepted.
LEMMA QueuedIsEnd ==
    ASSUME NEW s \in Seq(Numbers), NEW t \in Seq(Numbers), NEW n \in Numbers,
           IsEnd(s, t), Len(s) <= MaxQueue
    PROVE  /\ Queued(s, n) \in Seq(Numbers) /\ Len(Queued(s, n)) <= MaxQueue
           /\ IsEnd(Queued(s, n), Append(t, n))
<1> DEFINE a == Append(s, n)
<1>0. /\ a \in Seq(Numbers) /\ a # <<>> /\ Len(a) = Len(s) + 1
      /\ Len(s) \in Nat
  BY AppendProperties, LenProperties
<1>1. /\ a \in Seq(Numbers) /\ a # <<>> /\ Len(a) = Len(s) + 1
      /\ Append(t, n) \in Seq(Numbers) /\ Len(s) \in Nat
  BY <1>0, AppendProperties
<1>2. IsEnd(a, Append(t, n))
  BY AppendToEnd
<1> HIDE DEF a
<1>3. Tail(a) \in Seq(Numbers) /\ Len(Tail(a)) = Len(s) /\ IsEnd(Tail(a), Append(t, n))
  <2>1. Tail(a) \in Seq(Numbers) /\ Len(Tail(a)) = Len(a) - 1
    BY <1>1, HeadTailProperties
  <2>2. IsEnd(Tail(a), Append(t, n))
    BY <1>1, <1>2, TailOfEnd
  <2> QED
    BY <2>1, <2>2, <1>1
<1>4. Queued(s, n) = IF Len(a) > MaxQueue THEN Tail(a) ELSE a
  BY DEF Queued, a
<1> QED
  BY <1>1, <1>2, <1>3, <1>4, PlaybackAssumption

LEMMA AppendLater ==
    ASSUME NEW s \in Seq(Numbers), NEW n \in Numbers
    PROVE  /\ After(n, s) /\ Increasing(s) => Increasing(Append(s, n))
           /\ \A k \in Nat : After(n, s) /\ n < k => After(k, Append(s, n))
           /\ \A i \in 1..Len(Append(s, n)) :
                 Append(s, n)[i] = n \/ (i \in 1..Len(s) /\ Append(s, n)[i] = s[i])
<1>1. /\ Len(Append(s, n)) = Len(s) + 1 /\ Append(s, n)[Len(s) + 1] = n /\ Len(s) \in Nat
      /\ \A i \in 1..Len(s) : Append(s, n)[i] = s[i] /\ s[i] \in Numbers
  <2>1. \A i \in 1..Len(s) : s[i] \in Numbers
    BY ElementOfSeq
  <2> QED
    BY <2>1, AppendProperties, LenProperties
<1>2. \A i \in 1..Len(Append(s, n)) : i \in 1..Len(s) \/ i = Len(s) + 1
  BY <1>1
<1>3. ASSUME After(n, s), Increasing(s) PROVE Increasing(Append(s, n))
  BY <1>1, <1>2, <1>3 DEF After, Increasing
<1>4. ASSUME NEW k \in Nat, After(n, s), n < k PROVE After(k, Append(s, n))
  BY <1>1, <1>2, <1>4, PlaybackAssumption DEF After, Numbers
<1> QED
  BY <1>1, <1>2, <1>3, <1>4
----------------------------------------------------------------------------
(* Steps. *)

LEMMA InitInv == Init => Inv
<1> SUFFICES ASSUME Init PROVE Inv
  OBVIOUS
<1>1. DOMAIN remote = {}
  BY DEF Init
<1>2. \A p \in Peers : sent[p] = 0 /\ seq[p] = 0 /\ net[p] = {} /\ accepted[p] = <<>>
  BY DEF Init
<1>3. TypeOK
  <2>1. sent \in [Peers -> 0..MaxSent] /\ seq \in [Peers -> 0..MaxSent] /\ breaks \in 0..MaxBreaks
        /\ pending \in 0..MaxPending
    BY PlaybackAssumption DEF Init
  <2>2. net \in [Peers -> SUBSET Frame] /\ accepted \in [Peers -> Seq(1..MaxSent)]
    BY DEF Init
  <2>3. silent \subseteq Peers /\ mingled \subseteq Peers
    BY DEF Init
  <2> QED
    BY <1>1, <2>1, <2>2, <2>3 DEF TypeOK
<1>4. SeqBound /\ QueuesAreEnds
  BY <1>1, <1>2 DEF SeqBound, QueuesAreEnds
<1>5. \A p \in Peers : WasSent(p) /\ InOrder(p)
  BY <1>2 DEF WasSent, InOrder, Increasing
<1> QED
  BY <1>3, <1>4, <1>5 DEF Inv

\* What the types say of one peer.
LEMMA PeerTypes ==
    ASSUME Inv, NEW p \in Peers
    PROVE  /\ sent[p] \in Nat /\ sent[p] <= MaxSent /\ seq[p] \in Nat /\ seq[p] <= sent[p]
           /\ net[p] \subseteq Frame
           /\ accepted[p] \in Seq(Numbers)
           /\ p \in DOMAIN remote =>
                 /\ remote[p] \in RemoteAudio
                 /\ remote[p].frames \in Seq(Numbers) /\ Len(remote[p].frames) <= MaxQueue
                 /\ IsEnd(remote[p].frames, accepted[p])
<1>1. sent[p] \in 0..MaxSent /\ seq[p] \in 0..MaxSent
  BY DEF Inv, TypeOK
<1>2. net[p] \subseteq Frame /\ accepted[p] \in Seq(Numbers) /\ seq[p] <= sent[p]
  BY DEF Inv, TypeOK, SeqBound, Numbers
<1>3. p \in DOMAIN remote => remote[p] \in RemoteAudio /\ Len(remote[p].frames) <= MaxQueue
  BY DEF Inv, TypeOK
<1>4. p \in DOMAIN remote => remote[p].frames \in Seq(Numbers)
  BY <1>3 DEF RemoteAudio, Numbers
<1>5. p \in DOMAIN remote => IsEnd(remote[p].frames, accepted[p])
  BY DEF Inv, QueuesAreEnds
<1> QED
  BY <1>1, <1>2, <1>3, <1>4, <1>5, PlaybackAssumption

\* Nothing new of q: its frames stay in order.
LEMMA NothingNew ==
    ASSUME Inv, NEW q \in Peers,
           net'[q] \subseteq net[q], accepted'[q] = accepted[q], sent'[q] = sent[q],
           mingled \subseteq mingled',
           q \in mingled' \/ net'[q] = {}
               \/ /\ seq'[q] = seq[q]
                  /\ \A f \in net'[q] :
                        IsNew(q, f.seq)' \/ q \in silent' => IsNew(q, f.seq) \/ q \in silent
    PROVE  WasSent(q)' /\ (q \notin mingled' => InOrder(q)')
<1>1. WasSent(q)'
  BY DEF Inv, WasSent
<1>2. ASSUME q \notin mingled' PROVE InOrder(q)'
  <2>1. InOrder(q)
    BY <1>2 DEF Inv
  <2> QED
    BY <1>2, <2>1 DEF InOrder
<1> QED
  BY <1>1, <1>2

LEMMA SendKeeps ==
    ASSUME Inv, NEW p \in Peers, SendPcmFrame(p)
    PROVE  Inv'
<1> DEFINE f0 == [n |-> sent[p] + 1, seq |-> seq[p]]
<1>1. /\ sent' = [sent EXCEPT ![p] = sent[p] + 1] /\ seq' = [seq EXCEPT ![p] = seq[p] + 1]
      /\ net' = [net EXCEPT ![p] = net[p] \cup {f0}] /\ sent[p] < MaxSent
      /\ UNCHANGED <<remote, silent, pending, breaks, accepted, mingled>>
  BY DEF SendPcmFrame
<1>2. /\ sent[p] \in Nat /\ seq[p] \in Nat /\ seq[p] <= sent[p] /\ net[p] \subseteq Frame
      /\ accepted[p] \in Seq(Numbers)
  BY PeerTypes
<1>3. f0 \in Frame /\ f0.n = sent[p] + 1 /\ f0.seq = seq[p]
  BY <1>1, <1>2, PlaybackAssumption DEF Frame
<1> HIDE DEF f0
<1>4. /\ sent'[p] = sent[p] + 1 /\ seq'[p] = seq[p] + 1 /\ net'[p] = net[p] \cup {f0}
      /\ \A q \in Peers \ {p} : sent'[q] = sent[q] /\ seq'[q] = seq[q] /\ net'[q] = net[q]
  BY <1>1 DEF Inv, TypeOK
<1>5. TypeOK'
  <2>1. sent' \in [Peers -> 0..MaxSent] /\ seq' \in [Peers -> 0..MaxSent]
    BY <1>1, <1>2, PlaybackAssumption DEF Inv, TypeOK
  <2>2. net' \in [Peers -> SUBSET Frame]
    BY <1>1, <1>2, <1>3 DEF Inv, TypeOK
  <2> QED
    BY <1>1, <2>1, <2>2 DEF Inv, TypeOK
<1>6. SeqBound'
  BY <1>2, <1>4 DEF Inv, SeqBound
<1>7. QueuesAreEnds'
  BY <1>1 DEF Inv, QueuesAreEnds
<1>8. ASSUME NEW q \in Peers PROVE WasSent(q)' /\ (q \notin mingled' => InOrder(q)')
  <2>1. CASE q # p
    BY <1>1, <1>4, <2>1, NothingNew DEF IsNew
  <2>2. CASE q = p
    <3>1. \A i \in 1..Len(accepted[p]) : accepted[p][i] \in Nat /\ accepted[p][i] <= sent[p]
      BY <1>2, ElementOfSeq, PlaybackAssumption DEF Inv, WasSent, Numbers
    <3>2. \A f \in net[p] : f.n \in Nat /\ f.seq \in Nat /\ f.n <= sent[p]
      BY <1>2, PlaybackAssumption DEF Inv, WasSent, Frame
    <3>3. WasSent(p)'
      BY <1>1, <1>2, <1>3, <1>4, <3>1, <3>2 DEF WasSent
    <3>4. ASSUME p \notin mingled' PROVE InOrder(p)'
      <4>1. InOrder(p)
        BY <1>1, <3>4 DEF Inv
      <4>2. \A f \in net'[p] : f.seq < seq'[p]
        BY <1>2, <1>3, <1>4, <3>2, <4>1 DEF InOrder
      <4>3. \A f, g \in net'[p] : f.seq < g.seq => f.n < g.n
        BY <1>2, <1>3, <1>4, <3>2, <4>1 DEF InOrder
      <4>4. After(f0.n, accepted[p])
        BY <1>2, <1>3, <3>1 DEF After
      <4>5. \A f \in net'[p] : IsNew(p, f.seq)' \/ p \in silent' => After(f.n, accepted[p])
        BY <1>1, <1>4, <4>1, <4>4 DEF InOrder, IsNew
      <4> QED
        BY <1>1, <4>1, <4>2, <4>3, <4>5 DEF InOrder
    <3> QED
      BY <2>2, <3>3, <3>4
  <2> QED
    BY <2>1, <2>2
<1> QED
  BY <1>5, <1>6, <1>7, <1>8 DEF Inv

LEMMA SenderRestartsKeeps ==
    ASSUME Inv, NEW p \in Peers, SenderRestarts(p)
    PROVE  Inv'
<1>1. /\ seq' = [seq EXCEPT ![p] = 0] /\ breaks < MaxBreaks /\ breaks' = breaks + 1
      /\ mingled' = IF p \in UnderWay THEN mingled \cup {p} ELSE mingled
      /\ UNCHANGED <<sent, net, remote, silent, pending, accepted>>
  BY DEF SenderRestarts
<1>2. seq'[p] = 0 /\ \A q \in Peers \ {p} : seq'[q] = seq[q]
  BY <1>1 DEF Inv, TypeOK
<1>3. mingled \subseteq mingled' /\ mingled' \subseteq Peers /\ (p \in mingled' \/ net[p] = {})
  BY <1>1 DEF UnderWay, Inv, TypeOK
<1>4. TypeOK'
  <2>1. seq' \in [Peers -> 0..MaxSent] /\ breaks' \in 0..MaxBreaks
    BY <1>1, PlaybackAssumption DEF Inv, TypeOK
  <2> QED
    BY <1>1, <1>3, <2>1 DEF Inv, TypeOK
<1>5. SeqBound'
  <2>1. \A q \in Peers : sent[q] \in Nat
    BY PeerTypes
  <2> QED
    BY <1>1, <1>2, <2>1 DEF Inv, SeqBound
<1>6. QueuesAreEnds'
  BY <1>1 DEF Inv, QueuesAreEnds
<1>7. ASSUME NEW q \in Peers PROVE WasSent(q)' /\ (q \notin mingled' => InOrder(q)')
  <2>1. q \in mingled' \/ net'[q] = {} \/ seq'[q] = seq[q]
    BY <1>1, <1>2, <1>3
  <2> QED
    BY <1>1, <1>3, <2>1, NothingNew DEF IsNew
<1> QED
  BY <1>4, <1>5, <1>6, <1>7 DEF Inv

LEMMA LoseKeeps ==
    ASSUME Inv, NEW p \in Peers, NEW f \in net[p], Lose(p, f)
    PROVE  Inv'
<1>1. /\ net' = [net EXCEPT ![p] = net[p] \ {f}]
      /\ UNCHANGED <<sent, seq, remote, silent, pending, breaks, accepted, mingled>>
  BY DEF Lose
<1>2. \A q \in Peers : net'[q] \subseteq net[q]
  BY <1>1 DEF Inv, TypeOK
<1>3. TypeOK'
  BY <1>1 DEF Inv, TypeOK
<1>4. SeqBound' /\ QueuesAreEnds'
  BY <1>1 DEF Inv, SeqBound, QueuesAreEnds
<1>5. ASSUME NEW q \in Peers PROVE WasSent(q)' /\ (q \notin mingled' => InOrder(q)')
  BY <1>1, <1>2, NothingNew DEF IsNew
<1> QED
  BY <1>3, <1>4, <1>5 DEF Inv

LEMMA PauseKeeps ==
    ASSUME Inv, NEW p \in Peers, Pause(p)
    PROVE  Inv'
<1>1. /\ breaks < MaxBreaks /\ breaks' = breaks + 1 /\ silent' = silent \cup {p}
      /\ mingled' = IF p \in UnderWay THEN mingled \cup {p} ELSE mingled
      /\ UNCHANGED <<sent, seq, net, remote, pending, accepted>>
  BY DEF Pause
<1>2. mingled \subseteq mingled' /\ mingled' \subseteq Peers /\ (p \in mingled' \/ net[p] = {})
  BY <1>1 DEF UnderWay, Inv, TypeOK
<1>3. TypeOK'
  BY <1>1, <1>2, PlaybackAssumption DEF Inv, TypeOK
<1>4. SeqBound' /\ QueuesAreEnds'
  BY <1>1 DEF Inv, SeqBound, QueuesAreEnds
<1>5. ASSUME NEW q \in Peers PROVE WasSent(q)' /\ (q \notin mingled' => InOrder(q)')
  <2>1. q \in mingled' \/ net'[q] = {} \/ (q \in silent' => q \in silent)
    BY <1>1, <1>2
  <2> QED
    BY <1>1, <1>2, <2>1, NothingNew DEF IsNew
<1> QED
  BY <1>3, <1>4, <1>5 DEF Inv

LEMMA BufferDoneKeeps == Inv /\ BufferDone => Inv'
<1> SUFFICES ASSUME Inv, BufferDone PROVE Inv'
  OBVIOUS
<1>1. /\ pending > 0 /\ pending' = pending - 1
      /\ UNCHANGED <<sent, seq, net, remote, silent, breaks, accepted, mingled>>
  BY DEF BufferDone
<1>2. TypeOK'
  BY <1>1, PlaybackAssumption DEF Inv, TypeOK
<1>3. SeqBound' /\ QueuesAreEnds'
  BY <1>1 DEF Inv, SeqBound, QueuesAreEnds
<1>4. ASSUME NEW q \in Peers PROVE WasSent(q)' /\ (q \notin mingled' => InOrder(q)')
  BY <1>1, NothingNew DEF IsNew
<1> QED
  BY <1>2, <1>3, <1>4 DEF Inv

LEMMA ReceiverRestartsKeeps == Inv /\ ReceiverRestarts => Inv'
<1> SUFFICES ASSUME Inv, ReceiverRestarts PROVE Inv'
  OBVIOUS
<1>1. /\ breaks < MaxBreaks /\ breaks' = breaks + 1 /\ pending' = 0 /\ silent' = {}
      /\ mingled' = mingled \cup UnderWay /\ DOMAIN remote' = {}
      /\ UNCHANGED <<sent, seq, net, accepted>>
  BY DEF ReceiverRestarts
<1>2. mingled \subseteq mingled' /\ mingled' \subseteq Peers
      /\ \A q \in Peers : q \in mingled' \/ net[q] = {}
  BY <1>1 DEF UnderWay, Inv, TypeOK
<1>3. TypeOK'
  BY <1>1, <1>2, PlaybackAssumption DEF Inv, TypeOK
<1>4. SeqBound' /\ QueuesAreEnds'
  BY <1>1 DEF Inv, SeqBound, QueuesAreEnds
<1>5. ASSUME NEW q \in Peers PROVE WasSent(q)' /\ (q \notin mingled' => InOrder(q)')
  BY <1>1, <1>2, NothingNew
<1> QED
  BY <1>3, <1>4, <1>5 DEF Inv

\* A mix takes the oldest frame of a queue, or forgets a peer whose silence is
\* long enough.
LEMMA PumpKeeps == Inv /\ PumpRemotePlayback => Inv'
<1> SUFFICES ASSUME Inv, PumpRemotePlayback PROVE Inv'
  OBVIOUS
<1>1. /\ remote' = [p \in DOMAIN remote \ Expired |->
                      CASE p \in Mixed -> [remote[p] EXCEPT !.frames = Tail(@), !.primed = TRUE]
                        [] p \in Priming -> remote[p]
                        [] OTHER -> [remote[p] EXCEPT !.primed = FALSE]]
      /\ UNCHANGED <<sent, seq, net, silent, breaks, accepted, mingled>>
  BY DEF PumpRemotePlayback
<1>0. pending' = pending \/ (pending < MaxPending /\ pending' = pending + 1)
  BY DEF PumpRemotePlayback
<1>2. DOMAIN remote' = DOMAIN remote \ Expired
  BY <1>1
<1>3. ASSUME NEW p \in DOMAIN remote'
      PROVE  /\ remote'[p] \in RemoteAudio /\ remote'[p].last = remote[p].last
             /\ Len(remote'[p].frames) <= MaxQueue
             /\ IsEnd(remote'[p].frames, accepted[p])
  <2>1. /\ p \in Peers /\ remote[p] \in RemoteAudio
        /\ remote[p].frames \in Seq(Numbers) /\ Len(remote[p].frames) <= MaxQueue
        /\ IsEnd(remote[p].frames, accepted[p]) /\ accepted[p] \in Seq(Numbers)
    BY <1>2, <1>3, PeerTypes DEF Inv, TypeOK
  <2>2. CASE p \in Mixed
    <3>1. remote'[p] = [remote[p] EXCEPT !.frames = Tail(remote[p].frames), !.primed = TRUE]
      <4>1. p \notin Priming
        BY <2>2 DEF Mixed
      <4> QED
        BY <1>1, <1>2, <1>3, <2>2, <4>1
    <3>2. remote[p].frames # <<>>
      BY <2>2 DEF Mixed
    <3>3. /\ Tail(remote[p].frames) \in Seq(Numbers)
          /\ Len(Tail(remote[p].frames)) = Len(remote[p].frames) - 1
      BY <2>1, <3>2, HeadTailProperties
    <3>4. IsEnd(Tail(remote[p].frames), accepted[p])
      BY <2>1, <3>2, TailOfEnd
    <3>5. Len(remote[p].frames) \in Nat
      BY <2>1, LenProperties
    <3>6. /\ remote'[p].frames = Tail(remote[p].frames) /\ remote'[p].last = remote[p].last
          /\ remote'[p] \in RemoteAudio
      BY <2>1, <3>1, <3>3 DEF RemoteAudio, Numbers
    <3> QED
      BY <2>1, <3>3, <3>4, <3>5, <3>6, PlaybackAssumption
  <2>3. CASE p \notin Mixed
    <3>1. remote'[p] = remote[p] \/ remote'[p] = [remote[p] EXCEPT !.primed = FALSE]
      BY <1>1, <1>2, <1>3, <2>3
    <3>2. /\ remote'[p].frames = remote[p].frames /\ remote'[p].last = remote[p].last
          /\ remote'[p] \in RemoteAudio
      BY <2>1, <3>1 DEF RemoteAudio
    <3> QED
      BY <2>1, <3>2
  <2> QED
    BY <2>2, <2>3
<1>4. TypeOK'
  <2>1. pending' \in 0..MaxPending
    BY <1>0, PlaybackAssumption DEF Inv, TypeOK
  <2> QED
    BY <1>1, <1>2, <1>3, <2>1 DEF Inv, TypeOK
<1>5. SeqBound' /\ QueuesAreEnds'
  BY <1>1, <1>3 DEF Inv, SeqBound, QueuesAreEnds
<1>6. ASSUME NEW q \in Peers PROVE WasSent(q)' /\ (q \notin mingled' => InOrder(q)')
  <2>1. \A f \in net'[q] : IsNew(q, f.seq)' => IsNew(q, f.seq) \/ q \in silent
    BY <1>1, <1>2, <1>3 DEF IsNew, Expired
  <2> QED
    BY <1>1, <2>1, NothingNew
<1> QED
  BY <1>4, <1>5, <1>6 DEF Inv

LEMMA EmptyQueue ==
    /\ <<>> \in Seq(Numbers) /\ Len(<<>>) <= MaxQueue
    /\ \A t \in Seq(Numbers) : IsEnd(<<>>, t)
<1>1. <<>> \in Seq(Numbers) /\ Len(<<>>) = 0
  BY EmptySeq
<1>2. \A t \in Seq(Numbers) : Len(t) \in Nat
  BY LenProperties
<1> QED
  BY <1>1, <1>2, PlaybackAssumption DEF IsEnd

\* A frame comes to the filter, is dropped or queued.
LEMMA PlayKeeps ==
    ASSUME Inv, NEW p \in Peers, NEW f \in net[p], NEW decodes \in BOOLEAN, NEW again \in BOOLEAN,
           PlayRemoteFrame(p, f, decodes, again)
    PROVE  Inv'
<1>1. /\ \A q \in Peers : net'[q] \subseteq net[q]
      /\ net' \in [Peers -> SUBSET Frame]
      /\ UNCHANGED <<sent, seq, pending, breaks, mingled>>
  BY DEF PlayRemoteFrame, Inv, TypeOK
<1>2. SeqBound'
  BY <1>1 DEF Inv, SeqBound
<1>3. CASE ~IsNew(p, f.seq)
  <2>1. UNCHANGED <<remote, silent, accepted>>
    BY <1>3 DEF PlayRemoteFrame
  <2>2. TypeOK' /\ QueuesAreEnds'
    BY <1>1, <2>1 DEF Inv, TypeOK, QueuesAreEnds
  <2>3. ASSUME NEW q \in Peers PROVE WasSent(q)' /\ (q \notin mingled' => InOrder(q)')
    BY <1>1, <2>1, NothingNew DEF IsNew
  <2> QED
    BY <1>2, <2>2, <2>3 DEF Inv
<1>4. CASE IsNew(p, f.seq)
  <2> DEFINE old == IF p \in DOMAIN remote THEN remote[p]
                    ELSE [frames |-> <<>>, last |-> 0, primed |-> FALSE]
             new == IF decodes THEN Append(accepted[p], f.n) ELSE accepted[p]
             frames == IF decodes THEN Queued(old.frames, f.n) ELSE old.frames
             r == [old EXCEPT !.frames = frames, !.last = f.seq]
  <2>1. /\ remote' = [q \in DOMAIN remote \cup {p} |-> IF q = p THEN r ELSE remote[q]]
        /\ silent' = silent \ {p}
        /\ accepted' = IF decodes THEN [accepted EXCEPT ![p] = Append(accepted[p], f.n)]
                       ELSE accepted
    BY <1>4 DEF PlayRemoteFrame
  <2>2. /\ f \in Frame /\ f.n \in Numbers /\ f.seq \in 0..MaxSent /\ f.n <= sent[p]
        /\ accepted[p] \in Seq(Numbers)
    <3>1. f \in Frame /\ f.n <= sent[p] /\ accepted[p] \in Seq(Numbers)
      BY PeerTypes DEF Inv, WasSent
    <3> QED
      BY <3>1 DEF Frame, Numbers
  <2>3. /\ old \in RemoteAudio /\ old.frames \in Seq(Numbers) /\ Len(old.frames) <= MaxQueue
        /\ IsEnd(old.frames, accepted[p])
    <3>1. CASE p \in DOMAIN remote
      BY <3>1, PeerTypes
    <3>2. CASE p \notin DOMAIN remote
      <4>1. old = [frames |-> <<>>, last |-> 0, primed |-> FALSE]
        BY <3>2
      <4> HIDE DEF old
      <4>2. old.frames = <<>>
        BY <4>1
      <4>3. old.frames \in Seq(Numbers) /\ Len(old.frames) <= MaxQueue /\ IsEnd(old.frames, accepted[p])
        BY <4>2, <2>2, EmptyQueue
      <4>4. old \in [frames : Seq(Numbers), last : 0..MaxSent, primed : BOOLEAN]
        <5>1. 0 \in 0..MaxSent /\ <<>> \in Seq(Numbers)
          BY PlaybackAssumption, EmptyQueue
        <5> QED
          BY <4>1, <5>1
      <4> QED
        BY <4>3, <4>4 DEF RemoteAudio, Numbers
    <3> QED
      BY <3>1, <3>2
  <2> HIDE DEF old
  <2>4. new \in Seq(Numbers)
    BY <2>2, AppendProperties
  <2>5. frames \in Seq(Numbers) /\ Len(frames) <= MaxQueue /\ IsEnd(frames, new)
    <3>1. CASE decodes
      BY <2>2, <2>3, <3>1, QueuedIsEnd
    <3>2. CASE ~decodes
      BY <2>3, <3>2
    <3> QED
      BY <3>1, <3>2
  <2> HIDE DEF frames
  <2>6. r \in RemoteAudio /\ r.frames = frames /\ r.last = f.seq
    BY <2>2, <2>3, <2>5 DEF RemoteAudio, Numbers
  <2> HIDE DEF r
  <2>7. /\ DOMAIN remote' = DOMAIN remote \cup {p} /\ remote'[p] = r
        /\ \A q \in DOMAIN remote \ {p} : remote'[q] = remote[q]
    BY <2>1
  <2>8. accepted'[p] = new /\ \A q \in Peers \ {p} : accepted'[q] = accepted[q]
    BY <2>1 DEF Inv, TypeOK
  <2>9. accepted' \in [Peers -> Seq(Numbers)]
    BY <2>1, <2>4 DEF Inv, TypeOK, Numbers
  <2> HIDE DEF new
  <2>10. TypeOK'
    <3>1. DOMAIN remote' \subseteq Peers
      BY <2>7 DEF Inv, TypeOK
    <3>2. \A q \in DOMAIN remote' : remote'[q] \in RemoteAudio /\ Len(remote'[q].frames) <= MaxQueue
      BY <2>5, <2>6, <2>7 DEF Inv, TypeOK
    <3>3. silent' \subseteq Peers
      BY <2>1 DEF Inv, TypeOK
    <3> QED
      BY <1>1, <2>9, <3>1, <3>2, <3>3 DEF Inv, TypeOK, Numbers
  <2>11. QueuesAreEnds'
    <3> SUFFICES ASSUME NEW q \in DOMAIN remote' PROVE IsEnd(remote'[q].frames, accepted'[q])
      BY DEF QueuesAreEnds
    <3>1. CASE q = p
      BY <2>5, <2>6, <2>7, <2>8, <3>1
    <3>2. CASE q # p
      <4>1. q \in Peers /\ q \in DOMAIN remote
        BY <2>7, <3>2 DEF Inv, TypeOK
      <4> QED
        BY <2>7, <2>8, <3>2, <4>1 DEF Inv, QueuesAreEnds
    <3> QED
      BY <3>1, <3>2
  <2>12. ASSUME NEW q \in Peers, q # p PROVE WasSent(q)' /\ (q \notin mingled' => InOrder(q)')
    <3>1. /\ accepted'[q] = accepted[q] /\ (q \in silent' => q \in silent)
          /\ \A s : IsNew(q, s)' => IsNew(q, s)
      BY <2>1, <2>7, <2>8, <2>12 DEF IsNew
    <3> QED
      BY <1>1, <3>1, NothingNew
  <2>13. WasSent(p)'
    <3>1. \A i \in 1..Len(accepted[p]) : accepted[p][i] <= sent[p]
      BY DEF Inv, WasSent
    <3>2. \A i \in 1..Len(new) : new[i] = f.n \/ (i \in 1..Len(accepted[p]) /\ new[i] = accepted[p][i])
      BY <2>2, AppendLater DEF new
    <3>3. \A i \in 1..Len(new) : new[i] <= sent[p]
      BY <2>2, <3>1, <3>2
    <3> QED
      BY <1>1, <2>8, <3>3 DEF Inv, WasSent
  <2>14. ASSUME p \notin mingled' PROVE InOrder(p)'
    <3>1. InOrder(p) /\ net[p] \subseteq Frame /\ net'[p] \subseteq net[p]
      BY <1>1, <2>14, PeerTypes DEF Inv
    <3>2. After(f.n, accepted[p]) /\ Increasing(accepted[p])
      BY <1>4, <3>1 DEF InOrder
    <3>3. Increasing(new)
      BY <2>2, <3>2, AppendLater DEF new
    <3>4. ASSUME NEW g \in net'[p], IsNew(p, g.seq)' \/ p \in silent'
          PROVE  After(g.n, new)
      <4>1. g.seq > f.seq
        BY <2>1, <2>6, <2>7, <3>4 DEF IsNew
      <4>2. g \in net[p] /\ g.n \in Nat /\ f.n < g.n
        BY <2>2, <3>1, <4>1, PlaybackAssumption DEF InOrder, Frame
      <4>3. After(g.n, accepted[p])
        <5>1. \A i \in 1..Len(accepted[p]) : accepted[p][i] \in Numbers
          BY <2>2, ElementOfSeq
        <5> QED
          BY <2>2, <3>2, <4>2, <5>1, PlaybackAssumption DEF After, Numbers
      <4>4. After(g.n, Append(accepted[p], f.n))
        BY <2>2, <3>2, <4>2, AppendLater
      <4> QED
        BY <4>3, <4>4 DEF new
    <3> QED
      BY <1>1, <2>8, <3>1, <3>3, <3>4 DEF InOrder
  <2> QED
    BY <1>2, <2>10, <2>11, <2>12, <2>13, <2>14 DEF Inv
<1> QED
  BY <1>3, <1>4
----------------------------------------------------------------------------
LEMMA NextInv == Inv /\ [Next]_vars => Inv'
<1> SUFFICES ASSUME Inv, [Next]_vars PROVE Inv'
  OBVIOUS
<1>1. ASSUME NEW p \in Peers, SendPcmFrame(p) \/ SenderRestarts(p) \/ Pause(p)
      PROVE  Inv'
  BY <1>1, SendKeeps, SenderRestartsKeeps, PauseKeeps
<1>2. ASSUME NEW p \in Peers, NEW f \in net[p], Lose(p, f)
      PROVE  Inv'
  BY <1>2, LoseKeeps
<1>3. ASSUME NEW p \in Peers, NEW f \in net[p], NEW decodes \in BOOLEAN, NEW again \in BOOLEAN,
             PlayRemoteFrame(p, f, decodes, again)
      PROVE  Inv'
  BY <1>3, PlayKeeps
<1>4. CASE PumpRemotePlayback \/ BufferDone \/ ReceiverRestarts
  BY <1>4, PumpKeeps, BufferDoneKeeps, ReceiverRestartsKeeps
<1>5. CASE UNCHANGED vars
  <2>1. UNCHANGED <<sent, seq, net, remote, silent, pending, breaks, accepted, mingled>>
    BY <1>5 DEF vars
  <2>2. TypeOK' /\ SeqBound' /\ QueuesAreEnds'
    BY <2>1 DEF Inv, TypeOK, SeqBound, QueuesAreEnds
  <2>3. ASSUME NEW q \in Peers PROVE WasSent(q)' /\ (q \notin mingled' => InOrder(q)')
    BY <2>1, NothingNew DEF IsNew
  <2> QED
    BY <2>2, <2>3 DEF Inv
<1> QED
  BY <1>1, <1>2, <1>3, <1>4, <1>5 DEF Next

\* For any peers, lengths and bounds: every variable has its type, and no queue
\* grows past kMaxRemoteFramesPerPeer.
THEOREM TypeCorrect == Spec => []TypeOK
<1>1. Inv => TypeOK
  BY DEF Inv
<1> QED
  BY InitInv, NextInv, <1>1, PTL DEF Spec

\* For any peers, lengths and bounds: what waits to be played of a peer is the
\* end of what was accepted of it.
THEOREM Latest == Spec => []QueueIsTheLatest
<1>1. Inv => QueueIsTheLatest
  <2> SUFFICES ASSUME Inv, NEW p \in DOMAIN remote
               PROVE  /\ Len(remote[p].frames) <= Len(accepted[p])
                      /\ remote[p].frames = SubSeq(accepted[p],
                             Len(accepted[p]) - Len(remote[p].frames) + 1, Len(accepted[p]))
    BY DEF QueueIsTheLatest
  <2>1. p \in Peers
    BY DEF Inv, TypeOK
  <2>2. /\ remote[p].frames \in Seq(Numbers) /\ accepted[p] \in Seq(Numbers)
        /\ IsEnd(remote[p].frames, accepted[p])
    BY <2>1, PeerTypes
  <2> QED
    BY <2>2, EndIsSubSeq
<1> QED
  BY InitInv, NextInv, <1>1, PTL DEF Spec

\* For any peers and any number of frames lost, reordered and duplicated, and of
\* restarts and pauses: the frames of a peer are queued in the order of capture,
\* unless old ones were under way across a restart or a pause.
THEOREM InCaptureOrder == Spec => []PlayedInOrder
<1>1. Inv => PlayedInOrder
  <2> SUFFICES ASSUME Inv, NEW p \in Peers \ mingled, NEW i \in DOMAIN accepted[p],
                      NEW j \in DOMAIN accepted[p], i < j
               PROVE  accepted[p][i] < accepted[p][j]
    BY DEF PlayedInOrder
  <2>1. DOMAIN accepted[p] = 1..Len(accepted[p])
    BY PeerTypes, LenProperties
  <2> QED
    BY <2>1 DEF Inv, InOrder, Increasing
<1> QED
  BY InitInv, NextInv, <1>1, PTL DEF Spec
=============================================================================
