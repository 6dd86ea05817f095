--------------------------- MODULE ChannelTheorems ---------------------------
(***************************************************************************)
(* What sends and receives do to a channel, for the proofs about the       *)
(* stages of the agent: a channel is a sequence, a send appends to it, and *)
(* a receive takes its head.                                               *)
(***************************************************************************)
EXTENDS SequenceTheorems, FiniteSetTheorems, TLAPS

-----------------------------------------------------------------------------
(* What a channel holds, and in what order.                                *)

(* What a channel holds after a receive.                                   *)
LEMMA ReceiveRange ==
  ASSUME NEW S, NEW chan \in Seq(S), chan # <<>>
  PROVE  /\ Head(chan) \in Range(chan)
         /\ Range(chan) = Range(Tail(chan)) \cup {Head(chan)}
<1>1. chan \in [1 .. Len(chan) -> S] /\ Len(chan) \in Nat \ {0}
  OBVIOUS
<1>2. /\ Len(Tail(chan)) = Len(chan) - 1
      /\ \A i \in 1 .. Len(chan) - 1 : Tail(chan)[i] = chan[i + 1]
      /\ DOMAIN Tail(chan) = 1 .. Len(chan) - 1
  BY HeadTailProperties, LenProperties
<1>3. Head(chan) = chan[1]
  OBVIOUS
<1>4. Range(Tail(chan)) \subseteq Range(chan)
  BY <1>1, <1>2 DEF Range
<1>5. ASSUME NEW i \in 1 .. Len(chan)
      PROVE  chan[i] \in Range(Tail(chan)) \cup {Head(chan)}
  <2>1. CASE i = 1
    BY <2>1, <1>3
  <2>2. CASE i # 1
    <3>1. i - 1 \in 1 .. Len(chan) - 1 /\ chan[i] = Tail(chan)[i - 1]
      BY <2>2, <1>1, <1>2
    <3> QED
      BY <3>1, <1>2 DEF Range
  <2> QED
    BY <2>1, <2>2
<1> QED
  BY <1>1, <1>3, <1>4, <1>5 DEF Range

(* What a channel holds after a send.                                      *)
LEMMA SendRange ==
  ASSUME NEW S, NEW chan \in Seq(S), NEW x \in S
  PROVE  Range(Append(chan, x)) = Range(chan) \cup {x}
<1>1. /\ DOMAIN chan = 1 .. Len(chan) /\ Len(chan) \in Nat
      /\ DOMAIN Append(chan, x) = 1 .. Len(chan) + 1
      /\ \A i \in 1 .. Len(chan) : Append(chan, x)[i] = chan[i]
      /\ Append(chan, x)[Len(chan) + 1] = x
  OBVIOUS
<1>2. 1 .. Len(chan) + 1 = (1 .. Len(chan)) \cup {Len(chan) + 1}
  BY <1>1
<1> QED
  BY <1>1, <1>2 DEF Range

(* A channel without duplicates keeps that under receive and under the     *)
(* send of something it does not hold.                                     *)
LEMMA ReceiveDistinct ==
  ASSUME NEW S, NEW chan \in Seq(S), chan # <<>>, IsInjective(chan)
  PROVE  IsInjective(Tail(chan)) /\ Head(chan) \notin Range(Tail(chan))
<1>1. /\ Len(Tail(chan)) = Len(chan) - 1
      /\ \A i \in 1 .. Len(chan) - 1 : Tail(chan)[i] = chan[i + 1]
      /\ DOMAIN Tail(chan) = 1 .. Len(chan) - 1
      /\ DOMAIN chan = 1 .. Len(chan)
      /\ Len(chan) \in Nat \ {0}
      /\ Head(chan) = chan[1]
  BY HeadTailProperties, LenProperties
<1>2. \A i, j \in 1 .. Len(chan) : chan[i] = chan[j] => i = j
  BY <1>1 DEF IsInjective
<1>3. \A i, j \in 1 .. Len(chan) - 1 : Tail(chan)[i] = Tail(chan)[j] => i = j
  BY <1>1, <1>2
<1>4. \A i \in 1 .. Len(chan) - 1 : Tail(chan)[i] # Head(chan)
  BY <1>1, <1>2
<1> QED
  BY <1>1, <1>3, <1>4 DEF Range, IsInjective

(* Sending something a channel does not hold leaves it without duplicates. *)
LEMMA SendDistinct ==
  ASSUME NEW S, NEW chan \in Seq(S), NEW x \in S, IsInjective(chan),
         x \notin Range(chan)
  PROVE  IsInjective(Append(chan, x))
<1>1. /\ DOMAIN chan = 1 .. Len(chan) /\ Len(chan) \in Nat
      /\ DOMAIN Append(chan, x) = 1 .. Len(chan) + 1
      /\ \A i \in 1 .. Len(chan) : Append(chan, x)[i] = chan[i]
      /\ Append(chan, x)[Len(chan) + 1] = x
  OBVIOUS
<1>2. /\ \A i, j \in 1 .. Len(chan) : chan[i] = chan[j] => i = j
      /\ \A i \in 1 .. Len(chan) : chan[i] # x
  BY <1>1 DEF IsInjective, Range
<1>3. \A i, j \in 1 .. Len(chan) + 1 :
        Append(chan, x)[i] = Append(chan, x)[j] => i = j
  BY <1>1, <1>2
<1> QED
  BY <1>1, <1>3 DEF IsInjective

-----------------------------------------------------------------------------
(* A channel beside the history of what has been received from it.         *)

(* A send puts the item behind all that was ever sent.                     *)
LEMMA SendHistory ==
  ASSUME NEW S, NEW past \in Seq(S), NEW chan \in Seq(S), NEW x \in S
  PROVE  past \o Append(chan, x) = Append(past \o chan, x)
BY AppendIsConcat, ConcatAssociative, ConcatProperties

(* A receive moves an item from the channel to its history.                *)
LEMMA ReceiveHistory ==
  ASSUME NEW S, NEW past \in Seq(S), NEW chan \in Seq(S), chan # <<>>
  PROVE  Append(past, Head(chan)) \o Tail(chan) = past \o chan
<1>1. /\ Head(chan) \in S /\ Tail(chan) \in Seq(S)
      /\ <<Head(chan)>> \in Seq(S)
  BY HeadTailProperties
<1>2. <<Head(chan)>> \o Tail(chan) = chan
  BY <1>1
<1>3. Append(past, Head(chan)) = past \o <<Head(chan)>>
  BY <1>1, AppendIsConcat
<1>4. (past \o <<Head(chan)>>) \o Tail(chan) = past \o (<<Head(chan)>> \o Tail(chan))
  BY <1>1, ConcatAssociative
<1> QED
  BY <1>2, <1>3, <1>4

(* What is sent is the last item of the channel.                           *)
LEMMA SendIsLast ==
  ASSUME NEW S, NEW chan \in Seq(S), NEW x \in S
  PROVE  /\ Append(chan, x) # <<>>
         /\ Append(chan, x) = Append(chan, Append(chan, x)[Len(Append(chan, x))])
BY AppendProperties

-----------------------------------------------------------------------------
(* What a goroutine has in hand is a sequence of no or one item.           *)
LEMMA HandHolds ==
  ASSUME NEW S, NEW hand \in Seq(S), Len(hand) = 1
  PROVE  hand[1] \in S /\ Range(hand) = {hand[1]}
<1>1. 1 \in 1 .. Len(hand) /\ DOMAIN hand = {1}
  OBVIOUS
<1>2. hand[1] \in S
  BY <1>1, ElementOfSeq
<1> QED
  BY <1>1, <1>2 DEF Range

(* Or of nothing. *)
LEMMA EmptyHand ==
  ASSUME NEW S, NEW hand \in Seq(S), Len(hand) = 0
  PROVE  hand = <<>> /\ Range(hand) = {}
<1>1. hand = <<>>
  BY EmptySeq
<1> QED
  BY <1>1 DEF Range

-----------------------------------------------------------------------------
(* How often a history holds items of a set.                               *)
Count(history, items) == Cardinality({k \in DOMAIN history : history[k] \in items})

(* An empty history holds none. *)
LEMMA CountNone == \A items : Count(<<>>, items) = 0
<1> TAKE items
<1>1. {k \in DOMAIN <<>> : <<>>[k] \in items} = {}
  OBVIOUS
<1> QED
  BY <1>1, FS_EmptySet DEF Count

(* An item added to a history counts if it is in the set. *)
LEMMA CountSend ==
  ASSUME NEW S, NEW history \in Seq(S), NEW x \in S, NEW items
  PROVE  /\ Count(history, items) \in Nat
         /\ Count(Append(history, x), items)
            = IF x \in items THEN Count(history, items) + 1 ELSE Count(history, items)
<1> DEFINE new == Append(history, x)
           before == {k \in DOMAIN history : history[k] \in items}
           after == {k \in DOMAIN new : new[k] \in items}
           n == Len(history)
<1>1. /\ DOMAIN history = 1 .. n /\ n \in Nat
      /\ DOMAIN new = (1 .. n) \cup {n + 1} /\ n + 1 \notin 1 .. n
      /\ \A k \in 1 .. n : new[k] = history[k]
      /\ new[n + 1] = x
  OBVIOUS
<1> HIDE DEF new, n
<1>2. IsFiniteSet(before)
  <2>1. IsFiniteSet(1 .. n)
    BY <1>1, FS_Interval
  <2>2. before \in SUBSET (1 .. n)
    BY <1>1
  <2> HIDE DEF before
  <2> QED
    BY <2>1, <2>2, FS_Subset
<1>3. Cardinality(before) \in Nat
  BY <1>2, FS_CardinalityType
<1>4. CASE x \in items
  <2>1. after = before \cup {n + 1} /\ n + 1 \notin before
    BY <1>1, <1>4
  <2>2. Cardinality(after) = Cardinality(before) + 1
    <3> HIDE DEF after, before
    <3> QED
      BY <1>2, <2>1, FS_AddElement
  <2> QED
    BY <1>3, <1>4, <2>2 DEF Count, new
<1>5. CASE x \notin items
  <2>1. after = before
    BY <1>1, <1>5
  <2> QED
    BY <1>3, <1>5, <2>1 DEF Count, new
<1> QED
  BY <1>4, <1>5
=============================================================================
