------------------------ MODULE RequestBuildingProofs ------------------------
(***************************************************************************)
(* What RequestBuilding shows for a few names, values and headers, for any *)
(* of them: whatever the caller passes, what goes out is read as what was  *)
(* given, and with the right length.                                       *)
(*                                                                         *)
(* The invariant speaks of the buffer as a reader sees it: its lines are   *)
(* the request line and one line for each header given, and                *)
(* headers_contains finds a Content-Length in it exactly if one was given. *)
(* It is kept because the buffer always ends with an end of line, and what *)
(* is appended has one end of line, its own.                               *)
(***************************************************************************)
EXTENDS RequestBuilding, FiniteSetTheorems, SequenceTheorems, WellFoundedInduction, TLAPS

(* Sequences of tokens *)

\* An end of line at i.
IsEnd(buf, i) == i \in 1 .. Len(buf) - 1 /\ buf[i] = "cr" /\ buf[i + 1] = "lf"

LEMMA TokensConcat ==
    ASSUME NEW s \in Seq(Tokens), NEW t \in Seq(Tokens)
    PROVE  /\ s \o t \in Seq(Tokens)
           /\ Len(s \o t) = Len(s) + Len(t)
           /\ \A i \in 1 .. Len(s) + Len(t) :
                (s \o t)[i] = IF i <= Len(s) THEN s[i] ELSE t[i - Len(s)]
<1>1. s \o t \in Seq(Tokens)
  BY ConcatProperties
<1> QED BY <1>1, ConcatProperties

LEMMA TokensAssociate ==
    \A r, s, t \in Seq(Tokens) : (r \o s) \o t = r \o (s \o t)
<1> SUFFICES ASSUME NEW r \in Seq(Tokens), NEW s \in Seq(Tokens), NEW t \in Seq(Tokens)
             PROVE  (r \o s) \o t = r \o (s \o t)
  OBVIOUS
<1> QED BY ConcatAssociative

LEMMA FunctionIsSequence ==
    ASSUME NEW T, NEW n \in Nat, NEW f \in [1 .. n -> T]
    PROVE  f \in Seq(T) /\ Len(f) = n
<1>1. f \in Seq(T)
  BY SeqDef
<1> QED BY <1>1, LenProperties

LEMMA CrlfToken == /\ CRLF \in Seq(Tokens) /\ Len(CRLF) = 2
                   /\ CRLF[1] = "cr" /\ CRLF[2] = "lf"
BY DEF CRLF, Tokens, Separators

LEMMA SubSeqAt ==
    ASSUME NEW s \in Seq(Tokens), NEW a \in 1 .. Len(s) + 1, NEW b \in a - 1 .. Len(s)
    PROVE  /\ SubSeq(s, a, b) \in Seq(Tokens)
           /\ Len(SubSeq(s, a, b)) = b - a + 1
           /\ \A i \in 1 .. b - a + 1 : SubSeq(s, a, b)[i] = s[a + i - 1]
BY SubSeqProperties

\* The same for sequences of anything.
LEMMA SubSeqOf ==
    ASSUME NEW T, NEW s \in Seq(T), NEW a \in 1 .. Len(s) + 1, NEW b \in a - 1 .. Len(s)
    PROVE  /\ SubSeq(s, a, b) \in Seq(T)
           /\ Len(SubSeq(s, a, b)) = b - a + 1
           /\ \A i \in 1 .. b - a + 1 : SubSeq(s, a, b)[i] = s[a + i - 1]
BY SubSeqProperties

-----------------------------------------------------------------------------
(* Ends of lines, counted *)

LEMMA EndsAre ==
    ASSUME NEW buf \in Seq(Tokens)
    PROVE  /\ Ends(buf) \subseteq Nat
           /\ \A i : i \in Ends(buf) <=> IsEnd(buf, i)
<1> Len(buf) \in Nat
  BY LenProperties
<1> SUFFICES \A i \in 1 .. Len(buf) - 1 :
               SubSeq(buf, i, i + 1) = CRLF <=> buf[i] = "cr" /\ buf[i + 1] = "lf"
  <2>1. Ends(buf) \subseteq Nat
    BY DEF Ends
  <2> QED BY <2>1, Zenon DEF Ends, IsEnd
<1> TAKE i \in 1 .. Len(buf) - 1
<1>1. /\ SubSeq(buf, i, i + 1) \in Seq(Tokens) /\ Len(SubSeq(buf, i, i + 1)) = 2
      /\ SubSeq(buf, i, i + 1)[1] = buf[i] /\ SubSeq(buf, i, i + 1)[2] = buf[i + 1]
  BY SubSeqAt, LenProperties
<1>2. SubSeq(buf, i, i + 1) = CRLF
        <=> \A k \in 1 .. 2 : SubSeq(buf, i, i + 1)[k] = CRLF[k]
  BY <1>1, CrlfToken, SeqEqual
<1> QED BY <1>1, <1>2, CrlfToken

LEMMA EndsFinite ==
    ASSUME NEW buf \in Seq(Tokens)
    PROVE  IsFiniteSet(Ends(buf)) /\ Cardinality(Ends(buf)) \in Nat
<1>1. Ends(buf) \subseteq 1 .. Len(buf) - 1
  BY DEF Ends
<1>2. Len(buf) \in Nat
  BY LenProperties
<1>3. IsFiniteSet(1 .. Len(buf) - 1)
  BY <1>2, FS_Interval
<1>4. IsFiniteSet(Ends(buf))
  BY <1>1, <1>3, FS_Subset
<1> QED BY <1>4, FS_CardinalityType

\* The place of a member among those before it, and the members in order of their places.
Rank(S, e) == Cardinality({d \in S : d <= e})

\* A greater member leaves the rank of the others, and is the last.
LEMMA RankAppended ==
    ASSUME NEW S \in SUBSET Nat, IsFiniteSet(S), NEW e \in Nat, \A d \in S : d < e
    PROVE  LET T == S \cup {e}
           IN  /\ Cardinality(T) = Cardinality(S) + 1
               /\ Rank(T, e) = Cardinality(T)
               /\ \A d \in S : Rank(T, d) = Rank(S, d) /\ Rank(S, d) \in 0 .. Cardinality(S)
<1> DEFINE T == S \cup {e}
<1>1. Cardinality(T) = Cardinality(S) + 1 /\ Cardinality(S) \in Nat
  BY FS_AddElement, FS_CardinalityType
<1>2. {d \in T : d <= e} = T
  <2>1. \A d \in T : d <= e
    OBVIOUS
  <2> QED BY <2>1
<1>3. \A d \in S : {x \in T : x <= d} = {x \in S : x <= d}
  OBVIOUS
<1>4. ASSUME NEW d \in S
      PROVE  Cardinality({x \in S : x <= d}) \in 0 .. Cardinality(S)
  <2>1. {x \in S : x <= d} \subseteq S
    OBVIOUS
  <2>2. /\ IsFiniteSet({x \in S : x <= d})
        /\ Cardinality({x \in S : x <= d}) <= Cardinality(S)
    BY <2>1, FS_Subset
  <2> QED BY <2>2, <1>1, FS_CardinalityType
<1> QED BY <1>1, <1>2, <1>3, <1>4 DEF Rank

Nth(S) == [k \in 1 .. Cardinality(S) |-> CHOOSE e \in S : Rank(S, e) = k]

\* Every rank up to the number of members has its member.
Ordered(S) ==
    /\ IsFiniteSet(S) /\ Cardinality(S) \in Nat
    /\ \A k \in 1 .. Cardinality(S) : \E d \in S : Rank(S, d) = k
    /\ \A c, d \in S : Rank(S, c) = Rank(S, d) => c = d

LEMMA NthIs ==
    ASSUME NEW S, Ordered(S)
    PROVE  /\ Nth(S) \in Seq(S)
           /\ Len(Nth(S)) = Cardinality(S)
           /\ \A k \in 1 .. Cardinality(S) : Nth(S)[k] \in S /\ Rank(S, Nth(S)[k]) = k
<1>1. \A k \in 1 .. Cardinality(S) : Nth(S)[k] \in S /\ Rank(S, Nth(S)[k]) = k
  BY DEF Nth, Ordered
<1>2. Nth(S) \in [1 .. Cardinality(S) -> S] /\ Cardinality(S) \in Nat
  BY <1>1 DEF Nth, Ordered
<1>3. Nth(S) \in Seq(S)
  BY <1>2, SeqDef
<1> QED BY <1>1, <1>2, <1>3, LenProperties

LEMMA NoneIsOrdered == Ordered({}) /\ Nth({}) = <<>>
<1>1. IsFiniteSet({}) /\ Cardinality({}) = 0
  BY FS_EmptySet
<1>2. Ordered({})
  BY <1>1 DEF Ordered
<1>3. Nth({}) \in Seq({}) /\ Len(Nth({})) = 0
  BY <1>1, <1>2, NthIs
<1> QED BY <1>2, <1>3, EmptySeq

LEMMA NthAppended ==
    ASSUME NEW S \in SUBSET Nat, Ordered(S), NEW e \in Nat, \A d \in S : d < e
    PROVE  Ordered(S \cup {e}) /\ Nth(S \cup {e}) = Append(Nth(S), e)
<1> DEFINE T == S \cup {e}
<1> HIDE DEF T
<1>1. /\ Cardinality(T) = Cardinality(S) + 1 /\ Cardinality(S) \in Nat
      /\ Rank(T, e) = Cardinality(T)
      /\ \A d \in S : Rank(T, d) = Rank(S, d) /\ Rank(S, d) \in 0 .. Cardinality(S)
  BY RankAppended DEF T, Ordered
<1>2. IsFiniteSet(T)
  BY FS_AddElement DEF T, Ordered
<1>3. Ordered(T)
  <2>1. ASSUME NEW k \in 1 .. Cardinality(T)
        PROVE  \E d \in T : Rank(T, d) = k
    <3>1. CASE k = Cardinality(T)
      BY <1>1, <3>1 DEF T
    <3>2. CASE k \in 1 .. Cardinality(S)
      BY <1>1, <3>2 DEF T, Ordered
    <3> QED BY <1>1, <3>1, <3>2
  <2>2. ASSUME NEW c \in T, NEW d \in T, Rank(T, c) = Rank(T, d)
        PROVE  c = d
    <3>1. CASE c \in S /\ d \in S
      BY <1>1, <2>2, <3>1 DEF Ordered
    <3>2. CASE c = e /\ d = e
      BY <3>2
    <3>3. CASE c = e /\ d \in S
      BY <1>1, <2>2, <3>3
    <3>4. CASE c \in S /\ d = e
      BY <1>1, <2>2, <3>4
    <3> QED BY <3>1, <3>2, <3>3, <3>4 DEF T
  <2> QED BY <1>1, <1>2, <2>1, <2>2 DEF Ordered
<1>4. /\ Nth(S) \in Seq(S) /\ Len(Nth(S)) = Cardinality(S)
      /\ \A k \in 1 .. Cardinality(S) : Nth(S)[k] \in S /\ Rank(S, Nth(S)[k]) = k
  BY NthIs
<1>5. /\ Nth(T) \in Seq(T) /\ Len(Nth(T)) = Cardinality(T)
      /\ \A k \in 1 .. Cardinality(T) : Nth(T)[k] \in T /\ Rank(T, Nth(T)[k]) = k
  BY <1>3, NthIs
<1>6. Append(Nth(S), e) \in Seq(T) /\ Len(Append(Nth(S), e)) = Cardinality(T)
  <2>1. Nth(S) \in Seq(T)
    BY <1>4 DEF T
  <2> QED BY <1>1, <1>4, <2>1, AppendProperties DEF T
<1>7. \A k \in 1 .. Cardinality(T) : Nth(T)[k] = Append(Nth(S), e)[k]
  <2> SUFFICES ASSUME NEW k \in 1 .. Cardinality(T)
               PROVE  Nth(T)[k] = Append(Nth(S), e)[k]
    OBVIOUS
  <2>1. CASE k = Cardinality(T)
    <3>1. Append(Nth(S), e)[k] = e
      BY <1>1, <1>4, <2>1, AppendProperties
    <3>2. e \in T
      BY DEF T
    <3>3. Nth(T)[k] \in T /\ Rank(T, Nth(T)[k]) = Rank(T, e)
      BY <1>1, <1>5, <2>1
    <3> QED BY <1>3, <3>1, <3>2, <3>3 DEF Ordered
  <2>2. CASE k \in 1 .. Cardinality(S)
    <3>1. Append(Nth(S), e)[k] = Nth(S)[k]
      BY <1>4, <2>2, AppendProperties
    <3>2. Nth(S)[k] \in T /\ Rank(T, Nth(S)[k]) = k
      BY <1>1, <1>4, <2>2 DEF T
    <3> QED BY <1>3, <1>5, <3>1, <3>2 DEF Ordered
  <2>3. Cardinality(T) = Cardinality(S) + 1 /\ Cardinality(S) \in Nat
    BY <1>1
  <2>4. k = Cardinality(T) \/ k \in 1 .. Cardinality(S)
    BY <2>3
  <2> QED BY <2>1, <2>2, <2>4
<1>8. Nth(T) = Append(Nth(S), e)
  BY <1>5, <1>6, <1>7, SeqEqual
<1> QED BY <1>3, <1>8 DEF T

-----------------------------------------------------------------------------
(* The lines of a buffer *)

LEMMA LineEndsAre == \A buf : LineEnds(buf) = Nth(Ends(buf))
BY DEF LineEnds, Nth, Rank

\* A buffer of whole lines.
Whole(buf) ==
    /\ buf \in Seq(Tokens)
    /\ Ordered(Ends(buf))
    /\ \/ buf = <<>>
       \/ /\ Len(buf) >= 2
          /\ buf[Len(buf)] = "lf"
          /\ Len(LineEnds(buf)) > 0
          /\ LineEnds(buf)[Len(LineEnds(buf))] = Len(buf) - 1

LEMMA LineAt ==
    ASSUME NEW buf \in Seq(Tokens), NEW t \in Seq(Tokens)
    PROVE  LET new == buf \o (t \o CRLF)
           IN  /\ new \in Seq(Tokens)
               /\ Len(new) = Len(buf) + Len(t) + 2
               /\ \A i \in 1 .. Len(buf) : new[i] = buf[i]
               /\ \A i \in 1 .. Len(t) : new[Len(buf) + i] = t[i]
               /\ new[Len(buf) + Len(t) + 1] = "cr"
               /\ new[Len(buf) + Len(t) + 2] = "lf"
<1>1. /\ t \o CRLF \in Seq(Tokens) /\ Len(t \o CRLF) = Len(t) + 2
      /\ \A i \in 1 .. Len(t) + 2 :
            (t \o CRLF)[i] = IF i <= Len(t) THEN t[i] ELSE CRLF[i - Len(t)]
  <2>1. CRLF \in Seq(Tokens) /\ Len(CRLF) = 2
    BY CrlfToken
  <2>2. /\ t \o CRLF \in Seq(Tokens) /\ Len(t \o CRLF) = Len(t) + Len(CRLF)
        /\ \A i \in 1 .. Len(t) + Len(CRLF) :
              (t \o CRLF)[i] = IF i <= Len(t) THEN t[i] ELSE CRLF[i - Len(t)]
    BY <2>1, TokensConcat
  <2> QED BY <2>1, <2>2
<1> DEFINE new == buf \o (t \o CRLF)
<1> HIDE DEF new
<1>2. /\ new \in Seq(Tokens) /\ Len(new) = Len(buf) + Len(t \o CRLF)
      /\ \A i \in 1 .. Len(buf) + Len(t \o CRLF) :
            new[i] = IF i <= Len(buf) THEN buf[i] ELSE (t \o CRLF)[i - Len(buf)]
  BY <1>1, TokensConcat DEF new
<1>3. Len(buf) \in Nat /\ Len(t) \in Nat
  BY LenProperties
<1>4. \A i \in 1 .. Len(buf) : new[i] = buf[i]
  BY <1>1, <1>2, <1>3
<1>5. ASSUME NEW i \in 1 .. Len(t) + 2
      PROVE  new[Len(buf) + i] = (t \o CRLF)[i]
  <2>1. Len(buf) + i \in 1 .. Len(buf) + Len(t \o CRLF) /\ ~(Len(buf) + i <= Len(buf))
    BY <1>1, <1>3
  <2>2. (Len(buf) + i) - Len(buf) = i
    BY <1>3
  <2> QED BY <1>2, <2>1, <2>2
<1>6. \A i \in 1 .. Len(t) : new[Len(buf) + i] = t[i]
  BY <1>1, <1>3, <1>5
<1>7. new[Len(buf) + Len(t) + 1] = "cr"
  <2>1. new[Len(buf) + (Len(t) + 1)] = (t \o CRLF)[Len(t) + 1]
    <3>1. Len(t) + 1 \in 1 .. Len(t) + 2
      BY <1>3
    <3> QED BY <1>5, <3>1
  <2> QED BY <1>1, <1>3, <2>1, CrlfToken
<1>8. new[Len(buf) + Len(t) + 2] = "lf"
  <2>1. new[Len(buf) + (Len(t) + 2)] = (t \o CRLF)[Len(t) + 2]
    <3>1. Len(t) + 2 \in 1 .. Len(t) + 2
      BY <1>3
    <3> QED BY <1>5, <3>1
  <2> QED BY <1>1, <1>3, <2>1, CrlfToken
<1>9. Len(new) = Len(buf) + Len(t) + 2
  BY <1>1, <1>2, <1>3
<1> QED BY <1>2, <1>4, <1>6, <1>7, <1>8, <1>9 DEF new

LEMMA EndsAppended ==
    ASSUME NEW buf, Whole(buf), NEW t \in Seq(Tokens), Ends(t) = {}
    PROVE  /\ Ends(buf \o (t \o CRLF)) = Ends(buf) \cup {Len(buf) + Len(t) + 1}
           /\ \A d \in Ends(buf) : d < Len(buf) + Len(t) + 1
<1> DEFINE new == buf \o (t \o CRLF)
<1> HIDE DEF new
<1>0. buf \in Seq(Tokens)
  BY DEF Whole
<1>1. /\ new \in Seq(Tokens) /\ Len(new) = Len(buf) + Len(t) + 2
      /\ \A i \in 1 .. Len(buf) : new[i] = buf[i]
      /\ \A i \in 1 .. Len(t) : new[Len(buf) + i] = t[i]
      /\ new[Len(buf) + Len(t) + 1] = "cr"
      /\ new[Len(buf) + Len(t) + 2] = "lf"
  BY <1>0, LineAt DEF new
<1>2. Len(buf) \in Nat /\ Len(t) \in Nat
  BY <1>0, LenProperties
<1>3. /\ \A i : i \in Ends(buf) <=> IsEnd(buf, i)
      /\ \A i : i \in Ends(new) <=> IsEnd(new, i)
      /\ \A i : ~IsEnd(t, i)
  BY <1>0, <1>1, EndsAre
<1>4. \A d \in Ends(buf) : d < Len(buf)
  BY <1>2, <1>3 DEF IsEnd
<1>5. ASSUME NEW i \in Ends(buf)
      PROVE  i \in Ends(new)
  <2>1. i \in 1 .. Len(buf) - 1 /\ buf[i] = "cr" /\ buf[i + 1] = "lf"
    BY <1>3 DEF IsEnd
  <2>2. i \in 1 .. Len(buf) /\ i + 1 \in 1 .. Len(buf) /\ i \in 1 .. Len(new) - 1
    BY <1>1, <1>2, <2>1
  <2>3. IsEnd(new, i)
    BY <1>1, <2>1, <2>2 DEF IsEnd
  <2> QED BY <1>3, <2>3
<1>6. Len(buf) + Len(t) + 1 \in Ends(new)
  BY <1>1, <1>2, <1>3 DEF IsEnd
<1>7. ASSUME NEW i \in Ends(new), i # Len(buf) + Len(t) + 1
      PROVE  i \in Ends(buf)
  <2>1. i \in 1 .. Len(buf) + Len(t) /\ new[i] = "cr" /\ new[i + 1] = "lf"
    <3>1. i \in 1 .. Len(new) - 1 /\ new[i] = "cr" /\ new[i + 1] = "lf"
      BY <1>3, <1>7 DEF IsEnd
    <3> QED BY <1>1, <1>2, <1>7, <3>1
  <2>2. CASE i < Len(buf)
    <3>1. i + 1 \in 1 .. Len(buf) /\ i \in 1 .. Len(buf) - 1
      BY <1>2, <2>1, <2>2
    <3>2. buf[i] = "cr" /\ buf[i + 1] = "lf"
      BY <1>1, <2>1, <3>1
    <3> QED BY <1>3, <3>1, <3>2 DEF IsEnd
  <2>3. CASE i = Len(buf)
    <3>1. buf[i] = "lf"
      BY <1>2, <2>1, <2>3 DEF Whole
    <3> QED BY <1>1, <1>2, <2>1, <2>3, <3>1
  <2>4. CASE i > Len(buf) /\ i < Len(buf) + Len(t)
    <3>1. i - Len(buf) \in 1 .. Len(t) - 1 /\ (i - Len(buf)) + 1 \in 1 .. Len(t)
      BY <1>2, <2>1, <2>4
    <3>2. new[Len(buf) + (i - Len(buf))] = t[i - Len(buf)]
      BY <1>1, <1>2, <3>1
    <3>3. new[Len(buf) + ((i - Len(buf)) + 1)] = t[(i - Len(buf)) + 1]
      BY <1>1, <3>1
    <3>4. Len(buf) + (i - Len(buf)) = i /\ Len(buf) + ((i - Len(buf)) + 1) = i + 1
      BY <1>2, <2>1
    <3>5. IsEnd(t, i - Len(buf))
      BY <2>1, <3>1, <3>2, <3>3, <3>4 DEF IsEnd
    <3> QED BY <1>3, <3>5
  <2>5. CASE i = Len(buf) + Len(t)
    BY <1>1, <2>1, <2>5
  <2> QED BY <1>2, <2>1, <2>2, <2>3, <2>4, <2>5
<1>8. \A d \in Ends(buf) : d < Len(buf) + Len(t) + 1
  <2>1. \A d \in Ends(buf) : d \in Nat
    BY <1>0, EndsAre
  <2> QED BY <1>2, <1>4, <2>1
<1> QED BY <1>5, <1>6, <1>7, <1>8 DEF new

LEMMA LinesAre ==
    ASSUME NEW buf
    PROVE  Lines(buf) = [k \in DOMAIN LineEnds(buf) |->
                            SubSeq(buf, IF k = 1 THEN 1 ELSE LineEnds(buf)[k - 1] + 2,
                                   LineEnds(buf)[k] - 1)]
BY DEF Lines

LEMMA LineEndsIn ==
    ASSUME NEW buf \in Seq(Tokens), Ordered(Ends(buf))
    PROVE  /\ LineEnds(buf) \in Seq(Nat) /\ Len(LineEnds(buf)) \in Nat
           /\ DOMAIN LineEnds(buf) = 1 .. Len(LineEnds(buf))
           /\ \A k \in 1 .. Len(LineEnds(buf)) : LineEnds(buf)[k] \in 1 .. Len(buf) - 1
           /\ Lines(buf) \in [1 .. Len(LineEnds(buf)) -> Seq(Tokens)]
           /\ Len(Lines(buf)) = Len(LineEnds(buf))
<1>1. /\ LineEnds(buf) \in Seq(Ends(buf))
      /\ \A k \in 1 .. Cardinality(Ends(buf)) : LineEnds(buf)[k] \in Ends(buf)
      /\ Len(LineEnds(buf)) = Cardinality(Ends(buf))
  BY NthIs, LineEndsAre
<1>2. Ends(buf) \subseteq 1 .. Len(buf) - 1 /\ Ends(buf) \subseteq Nat
  BY EndsAre DEF Ends
<1>3. /\ LineEnds(buf) \in Seq(Nat) /\ Len(LineEnds(buf)) \in Nat
      /\ DOMAIN LineEnds(buf) = 1 .. Len(LineEnds(buf))
  BY <1>1, <1>2, LenProperties
<1>4. \A k \in 1 .. Len(LineEnds(buf)) : LineEnds(buf)[k] \in 1 .. Len(buf) - 1
  BY <1>1, <1>2
<1>5. ASSUME NEW k \in 1 .. Len(LineEnds(buf))
      PROVE  SubSeq(buf, IF k = 1 THEN 1 ELSE LineEnds(buf)[k - 1] + 2, LineEnds(buf)[k] - 1)
                \in Seq(Tokens)
  <2> DEFINE a == IF k = 1 THEN 1 ELSE LineEnds(buf)[k - 1] + 2
             b == LineEnds(buf)[k] - 1
  <2>1. k # 1 => k - 1 \in 1 .. Len(LineEnds(buf))
    BY <1>3
  <2>2. a \in Nat /\ a >= 1
    BY <1>4, <2>1
  <2>3. b \in Nat /\ b <= Len(buf)
    BY <1>4, LenProperties
  <2> HIDE DEF a, b
  <2>4. \A i \in a .. b : buf[i] \in Tokens
    <3>1. \A i \in 1 .. Len(buf) : buf[i] \in Tokens
      BY ElementOfSeq
    <3> QED BY <2>2, <2>3, <3>1, LenProperties
  <2>5. SubSeq(buf, a, b) \in Seq(Tokens)
    BY <2>2, <2>3, <2>4, SubSeqProperties
  <2> QED BY <2>5 DEF a, b
<1>6. Lines(buf) \in [1 .. Len(LineEnds(buf)) -> Seq(Tokens)]
  BY <1>3, <1>5, LinesAre
<1>7. Lines(buf) \in Seq(Seq(Tokens))
  BY <1>3, <1>6, SeqDef
<1> QED BY <1>3, <1>4, <1>6, <1>7, LenProperties

LEMMA SameSubSeq ==
    ASSUME NEW buf \in Seq(Tokens), NEW new \in Seq(Tokens), Len(buf) <= Len(new),
           \A i \in 1 .. Len(buf) : new[i] = buf[i],
           NEW a \in Nat \ {0}, NEW b \in Int, b <= Len(buf)
    PROVE  SubSeq(new, a, b) = SubSeq(buf, a, b)
<1> Len(buf) \in Nat /\ Len(new) \in Nat
  BY LenProperties
<1>1. CASE a > b
  BY <1>1, SubSeqProperties
<1>2. CASE a <= b
  <2>1. /\ a \in 1 .. Len(buf) + 1 /\ b \in a - 1 .. Len(buf)
        /\ a \in 1 .. Len(new) + 1 /\ b \in a - 1 .. Len(new)
    BY <1>2
  <2>2. /\ SubSeq(buf, a, b) \in Seq(Tokens) /\ Len(SubSeq(buf, a, b)) = b - a + 1
        /\ \A i \in 1 .. b - a + 1 : SubSeq(buf, a, b)[i] = buf[a + i - 1]
    BY <2>1, SubSeqAt
  <2>3. /\ SubSeq(new, a, b) \in Seq(Tokens) /\ Len(SubSeq(new, a, b)) = b - a + 1
        /\ \A i \in 1 .. b - a + 1 : SubSeq(new, a, b)[i] = new[a + i - 1]
    BY <2>1, SubSeqAt
  <2>4. \A i \in 1 .. b - a + 1 : a + i - 1 \in 1 .. Len(buf)
    BY <2>1
  <2>5. \A i \in 1 .. b - a + 1 : SubSeq(new, a, b)[i] = SubSeq(buf, a, b)[i]
    BY <2>2, <2>3, <2>4
  <2> QED BY <2>2, <2>3, <2>5, SeqEqual
<1> QED BY <1>1, <1>2

LEMMA OldLinesStay ==
    ASSUME NEW buf \in Seq(Tokens), Ordered(Ends(buf)),
           NEW new \in Seq(Tokens), Ordered(Ends(new)), Len(buf) <= Len(new),
           \A i \in 1 .. Len(buf) : new[i] = buf[i],
           Len(LineEnds(buf)) <= Len(LineEnds(new)),
           \A k \in 1 .. Len(LineEnds(buf)) : LineEnds(new)[k] = LineEnds(buf)[k]
    PROVE  \A k \in 1 .. Len(LineEnds(buf)) : Lines(new)[k] = Lines(buf)[k]
<1> SUFFICES ASSUME NEW k \in 1 .. Len(LineEnds(buf))
             PROVE  Lines(new)[k] = Lines(buf)[k]
  OBVIOUS
<1>1. /\ DOMAIN LineEnds(buf) = 1 .. Len(LineEnds(buf)) /\ Len(LineEnds(buf)) \in Nat
      /\ \A j \in 1 .. Len(LineEnds(buf)) : LineEnds(buf)[j] \in 1 .. Len(buf) - 1
  BY LineEndsIn
<1>2. DOMAIN LineEnds(new) = 1 .. Len(LineEnds(new)) /\ Len(LineEnds(new)) \in Nat
  BY LineEndsIn
<1> DEFINE a == IF k = 1 THEN 1 ELSE LineEnds(buf)[k - 1] + 2
           b == LineEnds(buf)[k] - 1
<1>3. Lines(buf)[k] = SubSeq(buf, a, b)
  BY <1>1, LinesAre
<1>4. Lines(new)[k] = SubSeq(new, IF k = 1 THEN 1 ELSE LineEnds(new)[k - 1] + 2,
                             LineEnds(new)[k] - 1)
  <2>1. k \in DOMAIN LineEnds(new)
    BY <1>1, <1>2
  <2> QED BY <2>1, LinesAre
<1>5. k # 1 => k - 1 \in 1 .. Len(LineEnds(buf))
  BY <1>1
<1>6. Lines(new)[k] = SubSeq(new, a, b)
  BY <1>4, <1>5
<1>7. a \in Nat \ {0} /\ b \in Int /\ b <= Len(buf)
  <2>1. LineEnds(buf)[k] \in 1 .. Len(buf) - 1
    BY <1>1
  <2>2. k # 1 => LineEnds(buf)[k - 1] \in 1 .. Len(buf) - 1
    BY <1>1, <1>5
  <2> QED BY <2>1, <2>2, LenProperties
<1> HIDE DEF a, b
<1>8. SubSeq(new, a, b) = SubSeq(buf, a, b)
  BY <1>7, SameSubSeq
<1> QED BY <1>3, <1>6, <1>8

\* One more end of line, at the end, is one more line.
LEMMA LineAppended ==
    ASSUME NEW buf, Whole(buf), NEW t \in Seq(Tokens), Ends(t) = {}
    PROVE  /\ Whole(buf \o (t \o CRLF))
           /\ buf \o (t \o CRLF) # <<>>
           /\ Lines(buf \o (t \o CRLF)) = Append(Lines(buf), t)
           /\ Ends(buf \o (t \o CRLF)) = Ends(buf) \cup {Len(buf) + Len(t) + 1}
           /\ LineEnds(buf \o (t \o CRLF)) = Append(LineEnds(buf), Len(buf) + Len(t) + 1)
<1> DEFINE new == buf \o (t \o CRLF)
           e == Len(buf) + Len(t) + 1
           n == Len(LineEnds(buf))
<1> HIDE DEF new
<1>0. buf \in Seq(Tokens) /\ Ordered(Ends(buf))
  BY DEF Whole
<1>1. /\ new \in Seq(Tokens) /\ Len(new) = Len(buf) + Len(t) + 2
      /\ \A i \in 1 .. Len(buf) : new[i] = buf[i]
      /\ \A i \in 1 .. Len(t) : new[Len(buf) + i] = t[i]
      /\ new[Len(buf) + Len(t) + 2] = "lf"
  BY <1>0, LineAt DEF new
<1>2. Len(buf) \in Nat /\ Len(t) \in Nat
  BY <1>0, LenProperties
<1>3. Ends(new) = Ends(buf) \cup {e} /\ \A d \in Ends(buf) : d < e
  BY EndsAppended DEF new
<1>4. Ordered(Ends(new)) /\ LineEnds(new) = Append(LineEnds(buf), e)
  <2>1. e \in Nat /\ Ends(buf) \in SUBSET Nat
    BY <1>0, <1>2, EndsAre
  <2>2. Ordered(Ends(buf) \cup {e}) /\ Nth(Ends(buf) \cup {e}) = Append(Nth(Ends(buf)), e)
    BY <1>0, <1>3, <2>1, NthAppended
  <2> QED BY <1>3, <2>2, LineEndsAre
<1>5. /\ LineEnds(buf) \in Seq(Nat) /\ n \in Nat
      /\ DOMAIN LineEnds(buf) = 1 .. n
      /\ \A k \in 1 .. n : LineEnds(buf)[k] \in 1 .. Len(buf) - 1
      /\ Lines(buf) \in [1 .. n -> Seq(Tokens)]
      /\ Len(Lines(buf)) = n
  BY <1>0, LineEndsIn
<1>6. /\ Len(LineEnds(new)) = n + 1
      /\ LineEnds(new)[n + 1] = e
      /\ \A k \in 1 .. n : LineEnds(new)[k] = LineEnds(buf)[k]
  BY <1>2, <1>4, <1>5, AppendProperties
<1>7. Whole(new) /\ new # <<>>
  <2>1. Len(new) >= 2 /\ new[Len(new)] = "lf" /\ e = Len(new) - 1
    BY <1>1, <1>2
  <2> QED BY <1>1, <1>4, <1>5, <1>6, <2>1, EmptySeq DEF Whole
<1>8. Lines(new) \in [1 .. n + 1 -> Seq(Tokens)] /\ DOMAIN LineEnds(new) = 1 .. n + 1
  BY <1>1, <1>4, <1>6, LineEndsIn
<1>9. \A k \in 1 .. n : Lines(new)[k] = Lines(buf)[k]
  <2>1. Len(buf) <= Len(new) /\ Len(LineEnds(buf)) <= Len(LineEnds(new))
    BY <1>1, <1>2, <1>5, <1>6
  <2> QED BY <1>0, <1>1, <1>4, <1>6, <2>1, OldLinesStay
<1>10. Lines(new)[n + 1] = t
  <2> DEFINE a == IF n = 0 THEN 1 ELSE LineEnds(buf)[n] + 2
  <2>1. a = Len(buf) + 1
    BY <1>0, <1>2, <1>5, EmptySeq DEF Whole
  <2>2. Lines(new)[n + 1] = SubSeq(new, Len(buf) + 1, Len(buf) + Len(t))
    <3>1. Lines(new)[n + 1] = SubSeq(new, IF n + 1 = 1 THEN 1 ELSE LineEnds(new)[n + 1 - 1] + 2,
                                     LineEnds(new)[n + 1] - 1)
      <4>1. n + 1 \in DOMAIN LineEnds(new)
        BY <1>5, <1>8
      <4> QED BY <4>1, LinesAre
    <3>2. (IF n + 1 = 1 THEN 1 ELSE LineEnds(new)[n + 1 - 1] + 2) = a
      BY <1>5, <1>6
    <3>3. LineEnds(new)[n + 1] - 1 = Len(buf) + Len(t)
      BY <1>2, <1>6
    <3> QED BY <2>1, <3>1, <3>2, <3>3
  <2>3. /\ Len(buf) + 1 \in 1 .. Len(new) + 1
        /\ Len(buf) + Len(t) \in (Len(buf) + 1) - 1 .. Len(new)
    BY <1>1, <1>2
  <2> DEFINE sub == SubSeq(new, Len(buf) + 1, Len(buf) + Len(t))
  <2>4. /\ sub \in Seq(Tokens) /\ Len(sub) = (Len(buf) + Len(t)) - (Len(buf) + 1) + 1
        /\ \A i \in 1 .. (Len(buf) + Len(t)) - (Len(buf) + 1) + 1 :
              sub[i] = new[(Len(buf) + 1) + i - 1]
    BY <1>1, <2>3, SubSeqAt
  <2> HIDE DEF sub
  <2>5. Len(sub) = Len(t) /\ \A i \in 1 .. Len(t) : sub[i] = t[i]
    <3>1. (Len(buf) + Len(t)) - (Len(buf) + 1) + 1 = Len(t)
      BY <1>2
    <3>2. \A i \in 1 .. Len(t) : (Len(buf) + 1) + i - 1 = Len(buf) + i
      BY <1>2
    <3> QED BY <1>1, <2>4, <3>1, <3>2
  <2>6. sub = t
    BY <2>4, <2>5, SeqEqual
  <2> QED BY <2>2, <2>6 DEF sub
<1>11. Lines(new) = Append(Lines(buf), t)
  <2>1. Lines(buf) \in Seq(Seq(Tokens)) /\ Lines(new) \in Seq(Seq(Tokens))
    <3>1. n + 1 \in Nat
      BY <1>5
    <3>2. Lines(buf) \in Seq(Seq(Tokens))
      BY <1>5, FunctionIsSequence
    <3>3. Lines(new) \in Seq(Seq(Tokens))
      BY <1>8, <3>1, FunctionIsSequence
    <3> QED BY <3>2, <3>3
  <2>2. /\ Append(Lines(buf), t) \in Seq(Seq(Tokens))
        /\ Len(Append(Lines(buf), t)) = n + 1
        /\ \A k \in 1 .. n : Append(Lines(buf), t)[k] = Lines(buf)[k]
        /\ Append(Lines(buf), t)[n + 1] = t
    BY <1>5, <2>1, AppendProperties
  <2>3. Len(Lines(new)) = n + 1
    BY <1>5, <1>8, <2>1, LenProperties
  <2>4. \A k \in 1 .. n + 1 : k \in 1 .. n \/ k = n + 1
    BY <1>5
  <2>5. \A k \in 1 .. n + 1 : Lines(new)[k] = Append(Lines(buf), t)[k]
    BY <1>9, <1>10, <2>2, <2>4
  <2> QED BY <2>1, <2>2, <2>3, <2>5, SeqEqual
<1> QED BY <1>3, <1>4, <1>7, <1>11 DEF new

LEMMA WholeEnds ==
    ASSUME NEW buf, Whole(buf), buf # <<>>
    PROVE  Len(buf) \in Nat /\ Len(buf) >= 2 /\ IsEnd(buf, Len(buf) - 1)
<1>1. buf \in Seq(Tokens) /\ Ordered(Ends(buf))
  BY DEF Whole
<1>2. Len(LineEnds(buf)) \in Nat /\ LineEnds(buf) = Nth(Ends(buf))
  BY <1>1, LineEndsIn, LineEndsAre
<1>3. Len(buf) \in Nat
  BY <1>1, LenProperties
<1>4. Len(LineEnds(buf)) > 0 /\ LineEnds(buf)[Len(LineEnds(buf))] = Len(buf) - 1 /\ Len(buf) >= 2
  BY DEF Whole
<1>5. Len(LineEnds(buf)) \in 1 .. Cardinality(Ends(buf))
  BY <1>1, <1>2, <1>4, NthIs
<1>6. Len(buf) - 1 \in Ends(buf)
  BY <1>1, <1>2, <1>4, <1>5, NthIs
<1> QED BY <1>1, <1>3, <1>4, <1>6, EndsAre

\* What follows the lines, without an end of line, leaves them.
LEMMA TailAppended ==
    ASSUME NEW buf, Whole(buf), buf # <<>>, NEW u \in Seq(Tokens), Ends(u) = {}
    PROVE  LineEnds(buf \o u) = LineEnds(buf) /\ Lines(buf \o u) = Lines(buf)
<1> DEFINE new == buf \o u
<1> HIDE DEF new
<1>0. buf \in Seq(Tokens) /\ Ordered(Ends(buf))
  BY DEF Whole
<1>1. /\ new \in Seq(Tokens) /\ Len(new) = Len(buf) + Len(u)
      /\ \A i \in 1 .. Len(buf) + Len(u) :
            new[i] = IF i <= Len(buf) THEN buf[i] ELSE u[i - Len(buf)]
  BY <1>0, TokensConcat DEF new
<1>2. Len(buf) \in Nat /\ Len(u) \in Nat
  BY <1>0, LenProperties
<1>3. /\ \A i : i \in Ends(buf) <=> IsEnd(buf, i)
      /\ \A i : i \in Ends(new) <=> IsEnd(new, i)
      /\ \A i : ~IsEnd(u, i)
  BY <1>0, <1>1, EndsAre
<1>4. \A i \in 1 .. Len(buf) : new[i] = buf[i]
  BY <1>1, <1>2
<1>5. ASSUME NEW i, IsEnd(buf, i)
      PROVE  IsEnd(new, i)
  <2>1. i \in 1 .. Len(buf) - 1 /\ buf[i] = "cr" /\ buf[i + 1] = "lf"
    BY <1>5 DEF IsEnd
  <2>2. i \in 1 .. Len(buf) /\ i + 1 \in 1 .. Len(buf) /\ i \in 1 .. Len(new) - 1
    BY <1>1, <1>2, <2>1
  <2> QED BY <1>4, <2>1, <2>2 DEF IsEnd
<1>6. ASSUME NEW i, IsEnd(new, i)
      PROVE  IsEnd(buf, i)
  <2>1. i \in 1 .. Len(new) - 1 /\ new[i] = "cr" /\ new[i + 1] = "lf"
    BY <1>6 DEF IsEnd
  <2>2. CASE i < Len(buf)
    <3>1. i \in 1 .. Len(buf) - 1 /\ i + 1 \in 1 .. Len(buf)
      BY <1>2, <2>1, <2>2
    <3> QED BY <1>4, <2>1, <3>1 DEF IsEnd
  <2>3. CASE i = Len(buf)
    <3>1. buf[i] = "lf"
      BY <2>3 DEF Whole
    <3> QED BY <1>4, <2>1, <2>3, <3>1
  <2>4. CASE i > Len(buf)
    <3>1. i - Len(buf) \in 1 .. Len(u) - 1
      BY <1>1, <1>2, <2>1, <2>4
    <3>2. new[i] = u[i - Len(buf)]
      BY <1>1, <1>2, <2>1, <2>4
    <3>3. new[i + 1] = u[(i + 1) - Len(buf)]
      BY <1>1, <1>2, <2>1, <2>4
    <3>4. (i + 1) - Len(buf) = (i - Len(buf)) + 1
      BY <1>2, <2>1
    <3>5. IsEnd(u, i - Len(buf))
      BY <2>1, <3>1, <3>2, <3>3, <3>4 DEF IsEnd
    <3> QED BY <1>3, <3>5
  <2> QED BY <1>1, <1>2, <2>1, <2>2, <2>3, <2>4
<1>7. Ends(new) = Ends(buf)
  BY <1>3, <1>5, <1>6
<1>8. Ordered(Ends(new)) /\ LineEnds(new) = LineEnds(buf)
  BY <1>0, <1>7, LineEndsAre
<1>9. /\ DOMAIN LineEnds(buf) = 1 .. Len(LineEnds(buf)) /\ Len(LineEnds(buf)) \in Nat
      /\ Lines(buf) \in [1 .. Len(LineEnds(buf)) -> Seq(Tokens)]
      /\ Lines(new) \in [1 .. Len(LineEnds(buf)) -> Seq(Tokens)]
  BY <1>0, <1>1, <1>8, LineEndsIn
<1>10. \A k \in 1 .. Len(LineEnds(buf)) : Lines(new)[k] = Lines(buf)[k]
  <2>1. Len(buf) <= Len(new) /\ Len(LineEnds(buf)) <= Len(LineEnds(new))
    BY <1>1, <1>2, <1>8, <1>9
  <2> QED BY <1>0, <1>1, <1>4, <1>8, <2>1, OldLinesStay
<1> QED BY <1>8, <1>9, <1>10 DEF new

-----------------------------------------------------------------------------
(* A header as a line of the buffer *)

NoCr(s) == \A i \in 1 .. Len(s) : s[i] # "cr"

LEMMA NoCrNoEnds ==
    ASSUME NEW s \in Seq(Tokens), NoCr(s)
    PROVE  Ends(s) = {}
<1>1. Len(s) \in Nat
  BY LenProperties
<1>2. \A i : ~IsEnd(s, i)
  BY <1>1 DEF IsEnd, NoCr
<1> QED BY <1>2, EndsAre

\* What a line says, without its end.
Field(name, value) == name \o <<":", "sp">> \o value

LEMMA FieldIs ==
    ASSUME NEW name \in Seq(Tokens), NEW value \in Seq(Tokens)
    PROVE  /\ Field(name, value) \in Seq(Tokens)
           /\ Len(name) \in Nat /\ Len(value) \in Nat
           /\ Len(Field(name, value)) = Len(name) + Len(value) + 2
           /\ \A i \in 1 .. Len(name) : Field(name, value)[i] = name[i]
           /\ Field(name, value)[Len(name) + 1] = ":"
           /\ Field(name, value)[Len(name) + 2] = "sp"
           /\ \A i \in 1 .. Len(value) : Field(name, value)[Len(name) + 2 + i] = value[i]
           /\ HeaderLine(name, value) = Field(name, value) \o CRLF
           /\ HeaderLine(name, value) \in Seq(Tokens)
<1> DEFINE colon == <<":", "sp">>
           start == name \o colon
           field == start \o value
<1>0. /\ colon \in Seq(Tokens) /\ Len(colon) = 2 /\ colon[1] = ":" /\ colon[2] = "sp"
  BY DEF Tokens, Separators, Space
<1>1. Len(name) \in Nat /\ Len(value) \in Nat
  BY LenProperties
<1> HIDE DEF colon, start
<1>2. /\ start \in Seq(Tokens) /\ Len(start) = Len(name) + Len(colon)
      /\ \A i \in 1 .. Len(name) + Len(colon) :
            start[i] = IF i <= Len(name) THEN name[i] ELSE colon[i - Len(name)]
  BY <1>0, TokensConcat DEF start
<1>3. /\ field \in Seq(Tokens) /\ Len(field) = Len(start) + Len(value)
      /\ \A i \in 1 .. Len(start) + Len(value) :
            field[i] = IF i <= Len(start) THEN start[i] ELSE value[i - Len(start)]
  BY <1>2, TokensConcat
<1> HIDE DEF field
<1>4. Len(start) = Len(name) + 2 /\ Len(field) = Len(name) + Len(value) + 2
  BY <1>0, <1>1, <1>2, <1>3
<1>5. \A i \in 1 .. Len(name) + 2 :
         field[i] = IF i <= Len(name) THEN name[i] ELSE colon[i - Len(name)]
  BY <1>0, <1>1, <1>2, <1>3, <1>4
<1>6. \A i \in 1 .. Len(name) : field[i] = name[i]
  BY <1>1, <1>5
<1>7. field[Len(name) + 1] = ":" /\ field[Len(name) + 2] = "sp"
  <2>1. /\ (Len(name) + 1) - Len(name) = 1 /\ (Len(name) + 2) - Len(name) = 2
        /\ Len(name) + 1 \in 1 .. Len(name) + 2 /\ ~(Len(name) + 1 <= Len(name))
        /\ Len(name) + 2 \in 1 .. Len(name) + 2 /\ ~(Len(name) + 2 <= Len(name))
    BY <1>1
  <2> QED BY <1>0, <1>5, <2>1
<1>8. ASSUME NEW i \in 1 .. Len(value)
      PROVE  field[Len(name) + 2 + i] = value[i]
  <2>1. /\ (Len(name) + 2 + i) - Len(start) = i
        /\ Len(name) + 2 + i \in 1 .. Len(start) + Len(value)
        /\ ~(Len(name) + 2 + i <= Len(start))
    BY <1>1, <1>4
  <2> QED BY <1>3, <2>1
<1>9. Field(name, value) = field /\ HeaderLine(name, value) = field \o CRLF
  BY DEF Field, HeaderLine, field, start, colon
<1>10. field \o CRLF \in Seq(Tokens)
  BY <1>3, CrlfToken, TokensConcat
<1> QED BY <1>1, <1>3, <1>4, <1>6, <1>7, <1>8, <1>9, <1>10

IsClToken(token) == token \in {"cl", "CL"}

LEMMA LowerIs ==
    ASSUME NEW name \in Seq(Tokens)
    PROVE  Lower(name) = <<"cl">> <=> Len(name) = 1 /\ IsClToken(name[1])
<1> DEFINE low == [i \in 1 .. Len(name) |->
                      IF name[i] = "CL" THEN "cl" ELSE IF name[i] = "HOST" THEN "host" ELSE name[i]]
<1>1. /\ Len(name) \in Nat /\ DOMAIN name = 1 .. Len(name)
      /\ \A i \in 1 .. Len(name) : name[i] \in Tokens
  BY LenProperties, ElementOfSeq
<1>2. Lower(name) = low
  BY <1>1 DEF Lower
<1>3. low \in Seq(Tokens) /\ Len(low) = Len(name)
  <2>1. low \in [1 .. Len(name) -> Tokens]
    BY <1>1 DEF Tokens
  <2> QED BY <1>1, <2>1, FunctionIsSequence
<1>4. <<"cl">> \in Seq(Tokens) /\ Len(<<"cl">>) = 1 /\ <<"cl">>[1] = "cl"
  BY DEF Tokens
<1>5. Len(name) = 1 => (low[1] = "cl" <=> IsClToken(name[1]))
  BY DEF IsClToken
<1> HIDE DEF low
<1>6. low = <<"cl">> <=> Len(name) = 1 /\ low[1] = "cl"
  <2>1. ASSUME Len(name) = 1, low[1] = "cl"
        PROVE  low = <<"cl">>
    <3>1. Len(low) = Len(<<"cl">>) /\ \A i \in 1 .. Len(low) : low[i] = <<"cl">>[i]
      BY <1>3, <1>4, <2>1
    <3> QED BY <1>3, <1>4, <3>1, SeqEqual
  <2>2. low = <<"cl">> => Len(low) = 1 /\ low[1] = "cl"
    BY <1>4
  <2> QED BY <1>3, <2>1, <2>2
<1> QED BY <1>2, <1>5, <1>6

\* What HeadersContain looks for at i.
LengthAt(buf, i) ==
    /\ IsEnd(buf, i)
    /\ i <= Len(buf) - 3
    /\ IsClToken(buf[i + 2])
    /\ ColonAt(buf, i + 3)

LEMMA ContainIs ==
    ASSUME NEW buf \in Seq(Tokens)
    PROVE  HeadersContain(buf) <=> \E i : LengthAt(buf, i)
<1>1. Len(buf) \in Nat
  BY LenProperties
<1>2. ASSUME NEW i \in 1 .. Len(buf) - 3
      PROVE  /\ SubSeq(buf, i, i + 1) = CRLF <=> IsEnd(buf, i)
             /\ Lower(SubSeq(buf, i + 2, i + 2)) = <<"cl">> <=> IsClToken(buf[i + 2])
  <2>1. i \in Ends(buf) <=> IsEnd(buf, i)
    BY EndsAre
  <2>2. i \in Ends(buf) <=> SubSeq(buf, i, i + 1) = CRLF
    BY <1>1 DEF Ends
  <2>3. i + 2 \in 1 .. Len(buf) + 1 /\ i + 2 \in (i + 2) - 1 .. Len(buf)
    BY <1>1
  <2>4. /\ SubSeq(buf, i + 2, i + 2) \in Seq(Tokens)
        /\ Len(SubSeq(buf, i + 2, i + 2)) = (i + 2) - (i + 2) + 1
        /\ \A j \in 1 .. (i + 2) - (i + 2) + 1 : SubSeq(buf, i + 2, i + 2)[j] = buf[(i + 2) + j - 1]
    BY <2>3, SubSeqAt
  <2>5. Len(SubSeq(buf, i + 2, i + 2)) = 1 /\ SubSeq(buf, i + 2, i + 2)[1] = buf[i + 2]
    BY <2>4
  <2> QED BY <2>1, <2>2, <2>4, <2>5, LowerIs
<1>3. HeadersContain(buf) <=> \E i \in 1 .. Len(buf) - 3 :
         IsEnd(buf, i) /\ IsClToken(buf[i + 2]) /\ ColonAt(buf, i + 3)
  BY <1>2, Zenon DEF HeadersContain
<1>4. \A i : IsEnd(buf, i) /\ i <= Len(buf) - 3 <=> IsEnd(buf, i) /\ i \in 1 .. Len(buf) - 3
  BY <1>1 DEF IsEnd
<1> QED BY <1>3, <1>4, Zenon DEF LengthAt

LEMMA NamesAreValid ==
    ASSUME NEW name \in Seq(Tokens), ValidName(name)
    PROVE  /\ Len(name) >= 1
           /\ \A i \in 1 .. Len(name) :
                /\ name[i] # ":" /\ name[i] # "cr" /\ name[i] # "lf" /\ name[i] \notin Space
<1>1. DOMAIN name = 1 .. Len(name) /\ Len(name) \in Nat
  BY LenProperties
<1>2. \A i \in 1 .. Len(name) : name[i] \notin Separators
  BY <1>1 DEF ValidName, ToSet
<1>3. Len(name) # 0
  BY EmptySeq DEF ValidName
<1> QED BY <1>1, <1>2, <1>3 DEF Separators

LEMMA ValuesAreValid ==
    ASSUME NEW value \in Seq(Tokens), ValidValue(value)
    PROVE  NoCr(value)
<1>1. DOMAIN value = 1 .. Len(value)
  BY LenProperties
<1>2. "cr" \in ToSet(CRLF)
  BY DEF ToSet, CRLF
<1> QED BY <1>1, <1>2 DEF ValidValue, ToSet, NoCr

LEMMA FieldIsNotEmpty ==
    ASSUME NEW name \in Seq(Tokens), NEW value \in Seq(Tokens)
    PROVE  Field(name, value) # <<>>
<1>1. /\ Len(Field(name, value)) = Len(name) + Len(value) + 2
      /\ Len(name) \in Nat /\ Len(value) \in Nat
  BY FieldIs
<1>2. Len(Field(name, value)) # 0
  BY <1>1
<1> QED BY <1>2, EmptySeq

LEMMA FieldHasNoEnd ==
    ASSUME NEW name \in Seq(Tokens), NEW value \in Seq(Tokens), ValidName(name), ValidValue(value)
    PROVE  NoCr(Field(name, value)) /\ Ends(Field(name, value)) = {}
<1> DEFINE field == Field(name, value)
<1>1. /\ field \in Seq(Tokens)
      /\ Len(name) \in Nat /\ Len(value) \in Nat
      /\ Len(field) = Len(name) + Len(value) + 2
      /\ \A i \in 1 .. Len(name) : field[i] = name[i]
      /\ field[Len(name) + 1] = ":" /\ field[Len(name) + 2] = "sp"
      /\ \A i \in 1 .. Len(value) : field[Len(name) + 2 + i] = value[i]
  BY FieldIs
<1> HIDE DEF field
<1>2. ASSUME NEW i \in 1 .. Len(field)
      PROVE  field[i] # "cr"
  <2>1. CASE i <= Len(name)
    <3>1. i \in 1 .. Len(name)
      BY <1>1, <2>1
    <3>2. name[i] # "cr"
      BY <3>1, NamesAreValid
    <3> QED BY <1>1, <3>1, <3>2
  <2>2. CASE i \in {Len(name) + 1, Len(name) + 2}
    BY <1>1, <2>2
  <2>3. CASE i > Len(name) + 2
    <3>1. i - (Len(name) + 2) \in 1 .. Len(value) /\ Len(name) + 2 + (i - (Len(name) + 2)) = i
      BY <1>1, <2>3
    <3>2. field[i] = value[i - (Len(name) + 2)]
      BY <1>1, <3>1
    <3> QED BY <3>1, <3>2, ValuesAreValid DEF NoCr
  <2>4. i \in Nat /\ Len(name) \in Nat
    BY <1>1
  <2>5. i <= Len(name) \/ i \in {Len(name) + 1, Len(name) + 2} \/ i > Len(name) + 2
    BY <2>4
  <2> QED BY <2>1, <2>2, <2>3, <2>5
<1>3. NoCr(field)
  BY <1>2 DEF NoCr
<1> QED BY <1>1, <1>3, NoCrNoEnds DEF field

\* headers_contains finds a line of that name, and no other: not at the end of a longer name, not
\* at its start, not in a value.
LEMMA ContainsAppended ==
    ASSUME NEW buf, Whole(buf), buf # <<>>,
           NEW name \in Seq(Tokens), NEW value \in Seq(Tokens), ValidName(name), ValidValue(value)
    PROVE  HeadersContain(buf \o HeaderLine(name, value))
             <=> HeadersContain(buf) \/ Lower(name) = <<"cl">>
<1> DEFINE t == Field(name, value)
           new == buf \o (t \o CRLF)
           L == Len(buf)
           n == Len(name)
<1>1. /\ t \in Seq(Tokens) /\ n \in Nat /\ Len(value) \in Nat
      /\ Len(t) = n + Len(value) + 2
      /\ \A i \in 1 .. n : t[i] = name[i]
      /\ t[n + 1] = ":"
      /\ HeaderLine(name, value) = t \o CRLF
  BY FieldIs
<1>2. Ends(t) = {}
  BY FieldHasNoEnd
<1> HIDE DEF t, new
<1>3. buf \in Seq(Tokens) /\ L \in Nat /\ L >= 2 /\ IsEnd(buf, L - 1)
  BY WholeEnds DEF Whole
<1>4. /\ new \in Seq(Tokens) /\ Len(new) = L + Len(t) + 2
      /\ \A i \in 1 .. L : new[i] = buf[i]
      /\ \A i \in 1 .. Len(t) : new[L + i] = t[i]
  <2>1. buf \in Seq(Tokens) /\ t \in Seq(Tokens)
    BY <1>1, <1>3
  <2>2. /\ new \in Seq(Tokens)
        /\ Len(new) = Len(buf) + Len(t) + 2
        /\ \A i \in 1 .. Len(buf) : new[i] = buf[i]
        /\ \A i \in 1 .. Len(t) : new[Len(buf) + i] = t[i]
        /\ new[Len(buf) + Len(t) + 1] = "cr"
        /\ new[Len(buf) + Len(t) + 2] = "lf"
    BY <2>1, LineAt, Zenon DEF new
  <2> QED BY <2>2
<1>5. \A i : IsEnd(new, i) <=> IsEnd(buf, i) \/ i = L + Len(t) + 1
  <2>1. Ends(new) = Ends(buf) \cup {L + Len(t) + 1}
    BY <1>1, <1>2, EndsAppended DEF new
  <2> QED BY <1>3, <1>4, <2>1, EndsAre
<1>6. n >= 1 /\ \A i \in 1 .. n : name[i] # ":" /\ name[i] \notin Space
  BY NamesAreValid
<1>7. \A i \in 1 .. n : new[L + i] = name[i]
  BY <1>1, <1>4
<1>8. new[L + n + 1] = ":"
  <2>1. n + 1 \in 1 .. Len(t) /\ L + (n + 1) = L + n + 1
    BY <1>1, <1>3
  <2>2. new[L + (n + 1)] = t[n + 1]
    BY <1>4, <2>1
  <2> QED BY <1>1, <2>1, <2>2
<1>9. ASSUME NEW i, LengthAt(buf, i)
      PROVE  LengthAt(new, i)
  <2>1. IsEnd(buf, i) /\ i \in 1 .. L - 3 /\ IsClToken(buf[i + 2])
    BY <1>3, <1>9 DEF LengthAt, IsEnd
  <2>2. PICK k \in i + 3 .. L : buf[k] = ":" /\ \A j \in i + 3 .. k - 1 : buf[j] \in Space
    BY <1>9 DEF LengthAt, ColonAt
  <2>3. i + 2 \in 1 .. L /\ k \in 1 .. L /\ k \in i + 3 .. Len(new) /\ i <= Len(new) - 3
    <3>1. Len(new) \in Nat /\ Len(new) >= L
      BY <1>1, <1>3, <1>4
    <3>2. i \in Nat /\ k \in Nat /\ i <= L - 3 /\ i >= 1 /\ k <= L /\ k >= i + 3
      BY <1>3, <2>1, <2>2
    <3> HIDE DEF L
    <3> QED BY <1>3, <3>1, <3>2
  <2>4. \A j \in i + 3 .. k - 1 : j \in 1 .. L
    BY <1>3, <2>1, <2>2
  <2>5. ColonAt(new, i + 3)
    BY <1>4, <2>2, <2>3, <2>4 DEF ColonAt
  <2> QED BY <1>4, <1>5, <2>1, <2>3, <2>5 DEF LengthAt
<1>10. ASSUME n = 1, IsClToken(name[1])
       PROVE  LengthAt(new, L - 1)
  <2>1. new[L + 1] = name[1] /\ new[L + 2] = ":"
    BY <1>3, <1>7, <1>8, <1>10
  <2>2. L + 2 \in (L - 1) + 3 .. Len(new) /\ (L - 1) + 2 = L + 1 /\ L - 1 <= Len(new) - 3
    BY <1>1, <1>3, <1>4, <1>10
  <2>3. \A j \in (L - 1) + 3 .. (L + 2) - 1 : new[j] \in Space
    BY <1>3
  <2>4. ColonAt(new, (L - 1) + 3)
    BY <2>1, <2>2, <2>3 DEF ColonAt
  <2> QED BY <1>3, <1>5, <1>10, <2>1, <2>2, <2>4 DEF LengthAt
<1>11. ASSUME NEW i, LengthAt(new, i), ~LengthAt(buf, i)
       PROVE  n = 1 /\ IsClToken(name[1])
  <2>1. /\ IsEnd(buf, i) /\ i \in 1 .. L - 1 /\ i <= Len(new) - 3 /\ IsClToken(new[i + 2])
        /\ buf[i + 1] = "lf"
    <3>1. IsEnd(new, i) /\ i <= Len(new) - 3 /\ IsClToken(new[i + 2])
      BY <1>11 DEF LengthAt
    <3>2. i # L + Len(t) + 1
      BY <1>1, <1>3, <1>4, <3>1
    <3>3. IsEnd(buf, i)
      BY <1>5, <3>1, <3>2
    <3> QED BY <3>1, <3>3 DEF IsEnd
  <2>2. PICK k \in i + 3 .. Len(new) : new[k] = ":" /\ \A j \in i + 3 .. k - 1 : new[j] \in Space
    BY <1>11 DEF LengthAt, ColonAt
  <2>3. buf[L - 1] = "cr" /\ L - 1 \in 1 .. L /\ new[L - 1] = "cr"
    <3>1. buf[L - 1] = "cr"
      BY <1>3 DEF IsEnd
    <3>2. L - 1 \in 1 .. L
      BY <1>3
    <3> QED BY <1>4, <3>1, <3>2
  <2>4. CASE i = L - 1
    <3>1. new[L + 1] = name[1]
      BY <1>3, <1>6, <1>7
    <3>2. i + 2 = L + 1 /\ i + 3 = L + 2
      BY <1>3, <2>4
    <3>3. n = 1
      <4>0. n \in Nat /\ n >= 1
        BY <1>1, <1>6
      <4>1. ASSUME n >= 2
            PROVE  FALSE
        <5>1. new[L + 2] = name[2] /\ name[2] # ":" /\ name[2] \notin Space
          BY <1>1, <1>6, <1>7, <4>1
        <5>2. k # L + 2
          BY <2>2, <5>1
        <5>3. L + 2 \in i + 3 .. k - 1
          <6>1. k \in Int /\ k >= L + 2
            BY <1>1, <1>3, <1>4, <2>2, <3>2
          <6>2. k - 1 >= L + 2 /\ L \in Nat
            BY <1>3, <5>2, <6>1
          <6> QED BY <3>2, <6>1, <6>2
        <5> QED BY <2>2, <5>1, <5>3
      <4>2. ~(n >= 2)
        BY <4>1
      <4> HIDE DEF n
      <4> QED BY <4>0, <4>2
    <3> QED BY <2>1, <3>1, <3>2, <3>3
  <2>5. CASE i < L - 1
    <3>1. i + 1 # L - 1
      BY <2>1, <2>3
    <3>2. i + 2 \in 1 .. L
      BY <1>3, <2>1, <2>5, <3>1
    <3>3. i + 2 # L - 1
      BY <2>1, <2>3 DEF IsClToken
    <3>4. i + 3 \in 1 .. L - 1 /\ i \in 1 .. L - 3
      BY <1>3, <2>1, <2>5, <3>1, <3>3
    <3>5. k # L - 1
      BY <2>2, <2>3
    <3>6. ~(L - 1 \in i + 3 .. k - 1)
      BY <2>2, <2>3 DEF Space
    <3>7. k \in i + 3 .. L
      BY <1>1, <1>3, <1>4, <2>2, <3>4, <3>5, <3>6
    <3>8. \A j \in i + 3 .. k : j \in 1 .. L
      BY <1>3, <3>4, <3>7
    <3>9. buf[k] = ":" /\ \A j \in i + 3 .. k - 1 : buf[j] \in Space
      BY <1>4, <2>2, <3>7, <3>8
    <3>10. ColonAt(buf, i + 3)
      BY <3>7, <3>9 DEF ColonAt
    <3>11. IsClToken(buf[i + 2])
      BY <1>4, <2>1, <3>2
    <3> QED BY <1>11, <2>1, <3>4, <3>10, <3>11 DEF LengthAt
  <2> QED BY <1>3, <2>1, <2>4, <2>5
<1>12. (\E i : LengthAt(new, i)) <=> (\E i : LengthAt(buf, i)) \/ (n = 1 /\ IsClToken(name[1]))
  BY <1>9, <1>10, <1>11
<1>13. HeadersContain(new) <=> HeadersContain(buf) \/ Lower(name) = <<"cl">>
  BY <1>3, <1>4, <1>12, ContainIs, LowerIs
<1> QED BY <1>1, <1>13 DEF new

-----------------------------------------------------------------------------
(* A header read back *)

LEMMA LeastOf ==
    ASSUME NEW T \in SUBSET Nat, T # {}
    PROVE  \E m \in T : \A k \in T : m <= k
<1> DEFINE R == OpToRel(<, Nat)
<1>1. IsWellFoundedOn(R, Nat)
  BY NatLessThanWellFounded, Zenon
<1>2. \A x, y \in Nat : x < y => <<x, y>> \in R
  BY DEF OpToRel
<1> HIDE DEF R
<1>3. PICK m \in T : \A k \in T : ~(<<k, m>> \in R)
  BY <1>1, WFMin
<1>4. ASSUME NEW k \in T
      PROVE  m <= k
  <2>1. m \in Nat /\ k \in Nat /\ ~(k < m)
    BY <1>2, <1>3
  <2> QED BY <2>1
<1> QED BY <1>4

LEMMA UntilIs ==
    ASSUME NEW text \in Seq(Tokens), NEW token, NEW p \in 1 .. Len(text), text[p] = token,
           \A i \in 1 .. p - 1 : text[i] # token
    PROVE  Until(text, token) = p
<1> DEFINE I == {i \in 1 .. Len(text) : text[i] = token}
<1>1. Len(text) \in Nat
  BY LenProperties
<1>2. p \in I
  OBVIOUS
<1>3. \A i \in I : p <= i
  BY <1>1
<1>4. I # {} /\ I \subseteq Nat
  BY <1>1, <1>2
<1>5. Until(text, token) = IF I # {} THEN Min(I) ELSE 0
  BY Zenon DEF Until, SelectInSeq
<1> HIDE DEF I
<1>6. Min(I) = p
  <2>1. \A x : x \in I /\ (\A y \in I : x <= y) => x = p
    BY <1>2, <1>3, <1>4
  <2> QED BY <1>2, <1>3, <2>1 DEF Min
<1> QED BY <1>4, <1>5, <1>6

LEMMA TrimmedNone ==
    ASSUME NEW text \in Seq(Tokens), Len(text) >= 1, text[1] \notin Space
    PROVE  TrimmedStart(text) = text
<1> DEFINE kept == {i \in DOMAIN text : text[i] \notin Space}
<1>1. Len(text) \in Nat /\ DOMAIN text = 1 .. Len(text)
  BY LenProperties
<1>2. 1 \in kept /\ kept \subseteq Nat /\ \A j \in kept : 1 <= j
  BY <1>1
<1>3. TrimmedStart(text) = IF kept = {} THEN <<>>
        ELSE SubSeq(text, CHOOSE i \in kept : \A j \in kept : i <= j, Len(text))
  BY DEF TrimmedStart
<1> HIDE DEF kept
<1>4. (CHOOSE i \in kept : \A j \in kept : i <= j) = 1
  <2>1. \A i \in kept : (\A j \in kept : i <= j) => i = 1
    BY <1>2
  <2> QED BY <1>2, <2>1
<1>5. TrimmedStart(text) = SubSeq(text, 1, Len(text))
  BY <1>2, <1>3, <1>4
<1>6. SubSeq(text, 1, Len(text)) = text
  <2>1. Len(text) \in 1 - 1 .. Len(text) /\ 1 \in 1 .. Len(text) + 1
    BY <1>1
  <2>2. /\ SubSeq(text, 1, Len(text)) \in Seq(Tokens)
        /\ Len(SubSeq(text, 1, Len(text))) = Len(text) - 1 + 1
        /\ \A i \in 1 .. Len(text) - 1 + 1 : SubSeq(text, 1, Len(text))[i] = text[1 + i - 1]
    BY <2>1, SubSeqAt
  <2>3. Len(text) - 1 + 1 = Len(text) /\ \A i \in 1 .. Len(text) : 1 + i - 1 = i
    BY <1>1
  <2> QED BY <2>2, <2>3, SeqEqual
<1> QED BY <1>5, <1>6

LEMMA ReverseIs ==
    ASSUME NEW text \in Seq(Tokens)
    PROVE  /\ Reverse(text) \in Seq(Tokens) /\ Len(Reverse(text)) = Len(text)
           /\ \A i \in 1 .. Len(text) : Reverse(text)[i] = text[Len(text) - i + 1]
           /\ Reverse(Reverse(text)) = text
<1>1. Len(text) \in Nat /\ \A i \in 1 .. Len(text) : text[i] \in Tokens
  BY LenProperties, ElementOfSeq
<1> DEFINE Rev(s) == [i \in 1 .. Len(s) |-> s[(Len(s) - i) + 1]]
<1>2. \A i \in 1 .. Len(text) : (Len(text) - i) + 1 \in 1 .. Len(text)
  BY <1>1
<1>3. Rev(text) \in [1 .. Len(text) -> Tokens]
  BY <1>1, <1>2
<1>4. Rev(text) \in Seq(Tokens) /\ Len(Rev(text)) = Len(text)
  BY <1>1, <1>3, FunctionIsSequence
<1>5. \A i \in 1 .. Len(text) : Rev(text)[i] = text[(Len(text) - i) + 1]
  OBVIOUS
<1>6. Rev(Rev(text)) = [i \in 1 .. Len(text) |-> Rev(text)[(Len(text) - i) + 1]]
  BY <1>4
<1>7. \A i \in 1 .. Len(text) : Rev(Rev(text))[i] = text[i]
  <2> SUFFICES ASSUME NEW i \in 1 .. Len(text)
               PROVE  Rev(Rev(text))[i] = text[i]
    OBVIOUS
  <2>1. Rev(Rev(text))[i] = Rev(text)[(Len(text) - i) + 1]
    BY <1>6
  <2>2. Rev(text)[(Len(text) - i) + 1] = text[(Len(text) - ((Len(text) - i) + 1)) + 1]
    BY <1>2, <1>5
  <2>3. (Len(text) - ((Len(text) - i) + 1)) + 1 = i
    BY <1>1
  <2> QED BY <2>1, <2>2, <2>3
<1>8. Rev(Rev(text)) \in Seq(Tokens) /\ Len(Rev(Rev(text))) = Len(text)
  <2>1. Rev(Rev(text)) \in [1 .. Len(text) -> Tokens]
    BY <1>1, <1>6, <1>7
  <2> QED BY <1>1, <2>1, FunctionIsSequence
<1>9. Rev(Rev(text)) = text
  BY <1>7, <1>8, SeqEqual
<1>10. \A s : Reverse(s) = Rev(s)
  BY DEF Reverse
<1> QED BY <1>4, <1>5, <1>9, <1>10

\* Text without white space is not trimmed.
LEMMA TrimSolid ==
    ASSUME NEW text \in Seq(Tokens), Len(text) >= 1, \A i \in 1 .. Len(text) : text[i] \notin Space
    PROVE  Trim(text) = text
<1>1. Len(text) \in Nat
  BY LenProperties
<1>2. TrimmedStart(text) = text
  BY <1>1, TrimmedNone
<1>3. /\ Reverse(text) \in Seq(Tokens) /\ Len(Reverse(text)) = Len(text)
      /\ Reverse(text)[1] = text[Len(text) - 1 + 1]
      /\ Reverse(Reverse(text)) = text
  BY <1>1, ReverseIs
<1>4. text[Len(text) - 1 + 1] \notin Space
  BY <1>1
<1>5. TrimmedStart(Reverse(text)) = Reverse(text)
  BY <1>3, <1>4, TrimmedNone
<1> QED BY <1>2, <1>3, <1>5 DEF Trim

\* Leading white space makes no difference to Trim.
LEMMA TrimLeading ==
    ASSUME NEW value \in Seq(Tokens)
    PROVE  Trim(<<"sp">> \o value) = Trim(value)
<1> DEFINE text == <<"sp">> \o value
           Kept(s) == {i \in DOMAIN s : s[i] \notin Space}
           First(T) == CHOOSE i \in T : \A j \in T : i <= j
<1>1. Len(value) \in Nat /\ DOMAIN value = 1 .. Len(value)
  BY LenProperties
<1>2. <<"sp">> \in Seq(Tokens) /\ Len(<<"sp">>) = 1 /\ <<"sp">>[1] = "sp"
  BY DEF Tokens, Separators, Space
<1>3. /\ text \in Seq(Tokens) /\ Len(text) = 1 + Len(value)
      /\ \A i \in 1 .. 1 + Len(value) : text[i] = IF i <= 1 THEN <<"sp">>[i] ELSE value[i - 1]
  <2>1. /\ text \in Seq(Tokens) /\ Len(text) = Len(<<"sp">>) + Len(value)
        /\ \A i \in 1 .. Len(<<"sp">>) + Len(value) :
              text[i] = IF i <= Len(<<"sp">>) THEN <<"sp">>[i] ELSE value[i - Len(<<"sp">>)]
    BY <1>2, TokensConcat
  <2> QED BY <1>2, <2>1
<1> HIDE DEF text
<1>4. text[1] = "sp" /\ \A i \in 1 .. Len(value) : text[i + 1] = value[i]
  BY <1>1, <1>2, <1>3
<1>5. DOMAIN text = 1 .. 1 + Len(value)
  BY <1>3, LenProperties
<1>6. /\ \A i \in Kept(value) : i + 1 \in Kept(text)
      /\ \A i \in Kept(text) : i - 1 \in Kept(value)
      /\ Kept(value) \subseteq Nat /\ Kept(text) \subseteq Nat
  <2>1. \A i \in Kept(value) : i + 1 \in Kept(text)
    BY <1>1, <1>4, <1>5
  <2>2. ASSUME NEW i \in Kept(text)
        PROVE  i - 1 \in Kept(value)
    <3>1. i # 1
      BY <1>4 DEF Space
    <3>2. i - 1 \in 1 .. Len(value) /\ (i - 1) + 1 = i
      BY <1>1, <1>5, <3>1
    <3>3. text[i] = value[i - 1]
      BY <1>4, <3>2
    <3> QED BY <1>1, <3>2, <3>3
  <2> QED BY <1>1, <1>5, <2>1, <2>2
<1>7. TrimmedStart(text) = TrimmedStart(value)
  <2>1. \A s : TrimmedStart(s) = IF Kept(s) = {} THEN <<>> ELSE SubSeq(s, First(Kept(s)), Len(s))
    BY DEF TrimmedStart
  <2> HIDE DEF Kept
  <2>2. CASE Kept(value) = {}
    BY <1>6, <2>1, <2>2
  <2>3. CASE Kept(value) # {}
    <3>1. PICK m \in Kept(value) : \A k \in Kept(value) : m <= k
      BY <1>6, <2>3, LeastOf
    <3>2. First(Kept(value)) = m
      <4>1. \A i \in Kept(value) : (\A j \in Kept(value) : i <= j) => i = m
        BY <1>6, <3>1
      <4> QED BY <3>1, <4>1
    <3>3. First(Kept(text)) = m + 1
      <4>1. m + 1 \in Kept(text) /\ \A j \in Kept(text) : m + 1 <= j
        <5>1. \A j \in Kept(text) : j \in Nat /\ m \in Nat /\ m <= j - 1
          BY <1>6, <3>1
        <5> QED BY <1>6, <5>1
      <4>2. \A i \in Kept(text) : (\A j \in Kept(text) : i <= j) => i = m + 1
        BY <1>6, <4>1
      <4> QED BY <4>1, <4>2
    <3>4. Kept(text) # {}
      BY <1>6, <3>1
    <3>5. /\ TrimmedStart(text) = SubSeq(text, m + 1, 1 + Len(value))
          /\ TrimmedStart(value) = SubSeq(value, m, Len(value))
      BY <1>3, <2>1, <2>3, <3>2, <3>3, <3>4
    <3>6. m \in 1 .. Len(value)
      BY <1>1 DEF Kept
    <3>7. /\ SubSeq(text, m + 1, 1 + Len(value)) \in Seq(Tokens)
          /\ Len(SubSeq(text, m + 1, 1 + Len(value))) = (1 + Len(value)) - (m + 1) + 1
          /\ \A i \in 1 .. (1 + Len(value)) - (m + 1) + 1 :
                SubSeq(text, m + 1, 1 + Len(value))[i] = text[(m + 1) + i - 1]
      <4>1. m + 1 \in 1 .. Len(text) + 1 /\ 1 + Len(value) \in (m + 1) - 1 .. Len(text)
        BY <1>1, <1>3, <3>6
      <4> QED BY <1>3, <4>1, SubSeqAt
    <3>8. /\ SubSeq(value, m, Len(value)) \in Seq(Tokens)
          /\ Len(SubSeq(value, m, Len(value))) = Len(value) - m + 1
          /\ \A i \in 1 .. Len(value) - m + 1 : SubSeq(value, m, Len(value))[i] = value[m + i - 1]
      <4>1. m \in 1 .. Len(value) + 1 /\ Len(value) \in m - 1 .. Len(value)
        BY <1>1, <3>6
      <4> QED BY <4>1, SubSeqAt
    <3>9. (1 + Len(value)) - (m + 1) + 1 = Len(value) - m + 1
      BY <1>1, <3>6
    <3>10. ASSUME NEW i \in 1 .. Len(value) - m + 1
           PROVE  text[(m + 1) + i - 1] = value[m + i - 1]
      <4>1. m + i - 1 \in 1 .. Len(value) /\ (m + i - 1) + 1 = (m + 1) + i - 1
        BY <1>1, <3>6
      <4> QED BY <1>4, <4>1
    <3>11. SubSeq(text, m + 1, 1 + Len(value)) = SubSeq(value, m, Len(value))
      <4> DEFINE one == SubSeq(text, m + 1, 1 + Len(value))
                 other == SubSeq(value, m, Len(value))
      <4>1. one \in Seq(Tokens) /\ other \in Seq(Tokens) /\ Len(one) = Len(other)
        BY <3>7, <3>8, <3>9
      <4>2. Len(one) = Len(value) - m + 1
        BY <3>7, <3>9
      <4>3. \A i \in 1 .. Len(value) - m + 1 : one[i] = other[i]
        BY <3>7, <3>8, <3>9, <3>10
      <4> HIDE DEF one, other
      <4>4. one = other
        BY <4>1, <4>2, <4>3, SeqEqual
      <4> QED BY <4>4 DEF one, other
    <3> QED BY <3>5, <3>11
  <2> QED BY <2>2, <2>3
<1> QED BY <1>7 DEF Trim, text

\* A field is read back as it was given, but for the white space around its value.
LEMMA FieldIsReadBack ==
    ASSUME NEW name \in Seq(Tokens), NEW value \in Seq(Tokens), ValidName(name)
    PROVE  ExtractNameAndValue(Field(name, value)) = [name |-> name, value |-> Trim(value)]
<1> DEFINE field == Field(name, value)
           n == Len(name)
           v == Len(value)
<1>1. /\ field \in Seq(Tokens) /\ n \in Nat /\ v \in Nat
      /\ Len(field) = n + v + 2
      /\ \A i \in 1 .. n : field[i] = name[i]
      /\ field[n + 1] = ":"
      /\ field[n + 2] = "sp"
      /\ \A i \in 1 .. v : field[n + 2 + i] = value[i]
  BY FieldIs
<1>2. n >= 1 /\ \A i \in 1 .. n : name[i] # ":" /\ name[i] \notin Space
  BY NamesAreValid
<1> HIDE DEF field
<1>3. Until(field, ":") = n + 1
  <2>1. n + 1 \in 1 .. Len(field) /\ (n + 1) - 1 = n
    BY <1>1
  <2>2. \A i \in 1 .. (n + 1) - 1 : field[i] # ":"
    BY <1>1, <1>2, <2>1
  <2> QED BY <1>1, <2>1, <2>2, UntilIs
<1>4. Before(field, ":") = name
  <2>1. Before(field, ":") = SubSeq(field, 1, n)
    <3>1. n + 1 # 0 /\ (n + 1) - 1 = n
      BY <1>1
    <3> QED BY <1>3, <3>1 DEF Before
  <2>2. n \in 1 - 1 .. Len(field) /\ 1 \in 1 .. Len(field) + 1
    BY <1>1
  <2>3. /\ SubSeq(field, 1, n) \in Seq(Tokens) /\ Len(SubSeq(field, 1, n)) = n - 1 + 1
        /\ \A i \in 1 .. n - 1 + 1 : SubSeq(field, 1, n)[i] = field[1 + i - 1]
    BY <1>1, <2>2, SubSeqAt
  <2>4. n - 1 + 1 = n /\ \A i \in 1 .. n : 1 + i - 1 = i
    BY <1>1
  <2>5. SubSeq(field, 1, n) = name
    BY <1>1, <2>3, <2>4, SeqEqual
  <2> QED BY <2>1, <2>5
<1>5. After(field, ":") = <<"sp">> \o value
  <2>1. After(field, ":") = SubSeq(field, n + 2, n + v + 2)
    <3>1. n + 1 # 0 /\ (n + 1) + 1 = n + 2
      BY <1>1
    <3> QED BY <1>1, <1>3, <3>1 DEF After
  <2>2. n + 2 \in 1 .. Len(field) + 1 /\ n + v + 2 \in (n + 2) - 1 .. Len(field)
    BY <1>1
  <2>3. /\ SubSeq(field, n + 2, n + v + 2) \in Seq(Tokens)
        /\ Len(SubSeq(field, n + 2, n + v + 2)) = (n + v + 2) - (n + 2) + 1
        /\ \A i \in 1 .. (n + v + 2) - (n + 2) + 1 :
              SubSeq(field, n + 2, n + v + 2)[i] = field[(n + 2) + i - 1]
    BY <1>1, <2>2, SubSeqAt
  <2>4. <<"sp">> \in Seq(Tokens) /\ Len(<<"sp">>) = 1 /\ <<"sp">>[1] = "sp"
    BY DEF Tokens, Separators, Space
  <2>5. /\ <<"sp">> \o value \in Seq(Tokens) /\ Len(<<"sp">> \o value) = Len(<<"sp">>) + v
        /\ \A i \in 1 .. Len(<<"sp">>) + v :
             (<<"sp">> \o value)[i] =
                IF i <= Len(<<"sp">>) THEN <<"sp">>[i] ELSE value[i - Len(<<"sp">>)]
    BY <2>4, TokensConcat
  <2>6. (n + v + 2) - (n + 2) + 1 = v + 1 /\ Len(<<"sp">>) + v = v + 1
    BY <1>1, <2>4
  <2>7. ASSUME NEW i \in 1 .. v + 1
        PROVE  field[(n + 2) + i - 1] = (<<"sp">> \o value)[i]
    <3>1. CASE i = 1
      <4>1. (n + 2) + i - 1 = n + 2
        BY <1>1, <3>1
      <4> QED BY <1>1, <2>4, <2>5, <2>6, <3>1, <4>1
    <3>2. CASE i # 1
      <4>1. i - 1 \in 1 .. v /\ (n + 2) + i - 1 = n + 2 + (i - 1) /\ ~(i <= 1)
        BY <1>1, <3>2
      <4>2. field[n + 2 + (i - 1)] = value[i - 1]
        BY <1>1, <4>1
      <4> QED BY <2>4, <2>5, <2>6, <4>1, <4>2
    <3> QED BY <3>1, <3>2
  <2>8. SubSeq(field, n + 2, n + v + 2) = <<"sp">> \o value
    BY <2>3, <2>5, <2>6, <2>7, SeqEqual
  <2> QED BY <2>1, <2>8
<1>6. Trim(name) = name
  BY <1>2, TrimSolid
<1>7. Trim(<<"sp">> \o value) = Trim(value)
  BY TrimLeading
<1> QED BY <1>4, <1>5, <1>6, <1>7 DEF ExtractNameAndValue, field

-----------------------------------------------------------------------------
(* What the code writes itself *)

LEMMA LengthsAreValid ==
    /\ \A name \in {<<"CL">>, <<"cl">>} :
          name \in Seq(Tokens) /\ ValidName(name) /\ Lower(name) = <<"cl">>
    /\ \A m : /\ Decimal(m) \in Seq(Tokens) /\ ValidValue(Decimal(m))
              /\ Trim(Decimal(m)) = Decimal(m)
<1>1. ASSUME NEW token \in {"CL", "cl"}
      PROVE  <<token>> \in Seq(Tokens) /\ ValidName(<<token>>) /\ Lower(<<token>>) = <<"cl">>
  <2>1. <<token>> \in Seq(Tokens) /\ Len(<<token>>) = 1 /\ <<token>>[1] = token /\ <<token>> # <<>>
    BY DEF Tokens
  <2>2. ToSet(<<token>>) = {token}
    BY DEF ToSet
  <2>3. ValidName(<<token>>)
    BY <2>1, <2>2 DEF ValidName, Separators, Space
  <2>4. Lower(<<token>>) = <<"cl">>
    BY <2>1, LowerIs DEF IsClToken
  <2> QED BY <2>1, <2>3, <2>4
<1>2. ASSUME NEW token \in {"1", "2"}
      PROVE  <<token>> \in Seq(Tokens) /\ ValidValue(<<token>>) /\ Trim(<<token>>) = <<token>>
  <2>1. <<token>> \in Seq(Tokens) /\ Len(<<token>>) = 1 /\ <<token>>[1] = token
    BY DEF Tokens
  <2>2. ToSet(<<token>>) = {token} /\ ToSet(CRLF) = {"cr", "lf"}
    BY DEF ToSet, CRLF
  <2>3. ValidValue(<<token>>)
    BY <2>2 DEF ValidValue
  <2>4. Len(<<token>>) >= 1 /\ \A i \in 1 .. Len(<<token>>) : <<token>>[i] \notin Space
    BY <2>1 DEF Space
  <2>5. Trim(<<token>>) = <<token>>
    BY ONLY <2>1, <2>4, TrimSolid
  <2> QED BY <2>1, <2>3, <2>5
<1>3. \A m : Decimal(m) = <<"1">> \/ Decimal(m) = <<"2">>
  BY DEF Decimal
<1> QED BY <1>1, <1>2, <1>3

LEMMA BodiesHaveNoEnd == Bodies \subseteq Seq(Tokens) /\ \A b \in Bodies : Ends(b) = {}
<1>1. Bodies \subseteq Seq(Tokens)
  BY DEF Bodies, Tokens, Separators
<1>2. ASSUME NEW b \in Bodies
      PROVE  \A i : ~IsEnd(b, i)
  <2>1. CASE b = <<>>
    BY <2>1, EmptySeq DEF IsEnd
  <2>2. CASE b = <<"x">>
    BY <2>2 DEF IsEnd
  <2>3. CASE b = <<"x", "cr">>
    <3>1. Len(b) = 2 /\ b[1] = "x"
      BY <2>3
    <3> QED BY <3>1 DEF IsEnd
  <2> QED BY <2>1, <2>2, <2>3 DEF Bodies
<1> QED BY <1>1, <1>2, EndsAre

LEMMA EmptyIsWhole == Whole(<<>>) /\ Lines(<<>>) = <<>> /\ Ends(<<>>) = {}
<1>1. <<>> \in Seq(Tokens) /\ Len(<<>>) = 0
  BY EmptySeq
<1>2. Ends(<<>>) = {}
  BY <1>1 DEF Ends
<1>3. Ordered(Ends(<<>>)) /\ LineEnds(<<>>) = <<>>
  BY <1>2, NoneIsOrdered, LineEndsAre
<1>4. Lines(<<>>) = <<>>
  BY <1>3, LinesAre
<1> QED BY <1>1, <1>2, <1>3, <1>4 DEF Whole

FirstLine == <<method, "sp", "path", "sp", "version">>

LEMMA RequestLineIs ==
    ASSUME method \in Methods
    PROVE  /\ FirstLine \in Seq(Tokens) /\ FirstLine # <<>>
           /\ Whole(RequestLine) /\ RequestLine # <<>>
           /\ Lines(RequestLine) = <<FirstLine>>
           /\ ~HeadersContain(RequestLine)
<1>1. /\ FirstLine \in Seq(Tokens) /\ Len(FirstLine) = 5 /\ FirstLine # <<>>
      /\ FirstLine[1] = method /\ FirstLine[2] = "sp" /\ FirstLine[3] = "path"
      /\ FirstLine[4] = "sp" /\ FirstLine[5] = "version"
  BY DEF FirstLine, Tokens, Separators, Space
<1>2. Ends(FirstLine) = {}
  <2>1. method # "cr"
    BY RequestAssumption DEF Separators
  <2>2. NoCr(FirstLine)
    BY <1>1, <2>1 DEF NoCr
  <2> QED BY <1>1, <2>2, NoCrNoEnds
<1>3. Whole(<<>>) /\ Lines(<<>>) = <<>> /\ Ends(<<>>) = {}
  BY EmptyIsWhole
<1>4. <<>> \o (FirstLine \o CRLF) = RequestLine
  <2>1. FirstLine \o CRLF \in Seq(Tokens)
    BY <1>1, CrlfToken, TokensConcat
  <2> QED BY <2>1, ConcatEmptySeq DEF RequestLine, FirstLine
<1>5. /\ Whole(RequestLine) /\ RequestLine # <<>>
      /\ Lines(RequestLine) = Append(<<>>, FirstLine)
      /\ Ends(RequestLine) = {} \cup {Len(<<>>) + Len(FirstLine) + 1}
  BY <1>1, <1>2, <1>3, <1>4, LineAppended
<1>6. ~HeadersContain(RequestLine)
  <2>1. RequestLine \in Seq(Tokens) /\ Len(RequestLine) = 7
    <3>1. RequestLine = FirstLine \o CRLF
      BY DEF RequestLine, FirstLine
    <3>2. FirstLine \o CRLF \in Seq(Tokens) /\ Len(FirstLine \o CRLF) = Len(FirstLine) + Len(CRLF)
      BY <1>1, CrlfToken, TokensConcat
    <3> QED BY <1>1, <3>1, <3>2, CrlfToken
  <2>2. \A i : IsEnd(RequestLine, i) => i = 6
    BY <1>1, <1>5, <2>1, EndsAre, EmptySeq
  <2>3. \A i : ~LengthAt(RequestLine, i)
    BY <2>1, <2>2 DEF LengthAt
  <2> QED BY <2>1, <2>3, ContainIs
<1> QED BY <1>1, <1>5, <1>6

-----------------------------------------------------------------------------
(* The buffer and what was given *)

\* The buffer that goes out, also while its request line is still to be written.
Buffer == IF source = "builder" \/ state = "built" THEN headers ELSE RequestLine \o headers

\* Build adds a Content-Length of its own.
Computes == source # "hyper" /\ body # <<>> /\ ~Supplied

LengthName == IF source = "builder" THEN <<"CL">> ELSE <<"cl">>

HeadLines ==
    [k \in 1 .. Len(given) + 1 |->
        IF k = 1 THEN FirstLine ELSE Field(given[k - 1].name, given[k - 1].value)]

BufferLines ==
    IF state = "built" /\ Computes
    THEN Append(HeadLines, Field(LengthName, Decimal(Len(body))))
    ELSE HeadLines

TypeInv ==
    /\ source \in Sources
    /\ state \in {"start", "headers", "built", "panicked"}
    /\ method \in Methods
    /\ headers \in Seq(Tokens)
    /\ body \in Bodies
    /\ given \in Seq([name : Seq(Tokens), value : Seq(Tokens)])
    /\ Len(given) <= MaxHeaders
    /\ \A k \in 1 .. Len(given) : ValidName(given[k].name) /\ ValidValue(given[k].value)

BufferInv ==
    /\ state = "start" => headers = <<>> /\ given = <<>>
    /\ state \in {"headers", "built"} =>
        /\ Whole(Buffer) /\ Buffer # <<>>
        /\ Lines(Buffer) = BufferLines
    /\ state = "headers" => (HeadersContain(Buffer) <=> Supplied)

Inv == TypeInv /\ BufferInv

LEMMA InitInv == Init => Inv
<1> SUFFICES ASSUME Init PROVE Inv
  OBVIOUS
<1>1. TypeInv
  BY RequestAssumption, EmptySeq DEF Init, TypeInv
<1>2. BufferInv
  BY DEF Init, BufferInv
<1> QED BY <1>1, <1>2 DEF Inv

LEMMA StartInv == Inv /\ Start => Inv'
<1> SUFFICES ASSUME Inv, Start PROVE Inv'
  OBVIOUS
<1> USE DEF Inv, Start
<1>0. /\ method \in Methods /\ given = <<>> /\ Len(given) = 0
      /\ source' = source /\ state' = "headers" /\ method' = method /\ given' = given
  BY EmptySeq DEF TypeInv, BufferInv
<1>1. /\ FirstLine \in Seq(Tokens) /\ RequestLine \in Seq(Tokens)
      /\ Whole(RequestLine) /\ RequestLine # <<>>
      /\ Lines(RequestLine) = <<FirstLine>>
      /\ ~HeadersContain(RequestLine)
  BY <1>0, RequestLineIs DEF Whole
<1>2. FirstLine' = FirstLine /\ RequestLine' = RequestLine
  BY <1>0 DEF FirstLine, RequestLine
<1>3. TypeInv'
  BY <1>1, EmptySeq DEF TypeInv
<1>4. Buffer' = RequestLine
  <2>1. RequestLine \o <<>> = RequestLine
    BY <1>1, ConcatEmptySeq
  <2> QED BY <1>0, <1>2, <2>1 DEF Buffer
<1>5. BufferLines' = <<FirstLine>>
  <2>1. HeadLines' = [k \in 1 .. 1 |-> FirstLine]
    BY <1>0, <1>2 DEF HeadLines
  <2>2. BufferLines' = HeadLines'
    BY <1>0 DEF BufferLines
  <2> QED BY <2>1, <2>2
<1>6. ~Supplied'
  BY <1>0 DEF Supplied
<1> QED BY <1>0, <1>1, <1>3, <1>4, <1>5, <1>6 DEF BufferInv

\* A line more in the buffer is a line more among the lines.
LEMMA FieldAppended ==
    ASSUME NEW buf, Whole(buf), buf # <<>>,
           NEW name \in Seq(Tokens), NEW value \in Seq(Tokens), ValidName(name), ValidValue(value)
    PROVE  /\ Whole(buf \o HeaderLine(name, value))
           /\ buf \o HeaderLine(name, value) # <<>>
           /\ Lines(buf \o HeaderLine(name, value)) = Append(Lines(buf), Field(name, value))
<1>1. /\ Field(name, value) \in Seq(Tokens)
      /\ HeaderLine(name, value) = Field(name, value) \o CRLF
  BY FieldIs
<1>2. Ends(Field(name, value)) = {}
  BY FieldHasNoEnd
<1> QED BY <1>1, <1>2, LineAppended

LEMMA HeadLinesAre ==
    ASSUME method \in Methods, given \in Seq([name : Seq(Tokens), value : Seq(Tokens)])
    PROVE  /\ Len(given) \in Nat
           /\ HeadLines \in Seq(Seq(Tokens)) /\ Len(HeadLines) = Len(given) + 1
           /\ HeadLines[1] = FirstLine
           /\ \A k \in 1 .. Len(given) :
                HeadLines[k + 1] = Field(given[k].name, given[k].value)
<1>1. Len(given) \in Nat
  BY LenProperties
<1>2. ASSUME NEW k \in 1 .. Len(given) + 1
      PROVE  (IF k = 1 THEN FirstLine ELSE Field(given[k - 1].name, given[k - 1].value))
                \in Seq(Tokens)
  <2>1. CASE k = 1
    BY <2>1, RequestLineIs
  <2>2. CASE k # 1
    <3>1. k - 1 \in 1 .. Len(given)
      BY <1>1, <2>2
    <3>2. given[k - 1] \in [name : Seq(Tokens), value : Seq(Tokens)]
      BY <3>1, ElementOfSeq
    <3> QED BY <2>2, <3>2, FieldIs
  <2> QED BY <2>1, <2>2
<1>3. HeadLines \in [1 .. Len(given) + 1 -> Seq(Tokens)]
  BY <1>2 DEF HeadLines
<1>4. HeadLines \in Seq(Seq(Tokens)) /\ Len(HeadLines) = Len(given) + 1
  <2>1. Len(given) + 1 \in Nat
    BY <1>1
  <2> QED BY <1>3, <2>1, FunctionIsSequence
<1>5. HeadLines[1] = FirstLine
  BY <1>1 DEF HeadLines
<1>6. ASSUME NEW k \in 1 .. Len(given)
      PROVE  HeadLines[k + 1] = Field(given[k].name, given[k].value)
  <2>1. k + 1 \in 1 .. Len(given) + 1 /\ k + 1 # 1 /\ (k + 1) - 1 = k
    BY <1>1
  <2> QED BY <2>1 DEF HeadLines
<1> QED BY <1>1, <1>4, <1>5, <1>6

LEMMA AddHeaderInv ==
    ASSUME Inv, NEW name \in Seq(Tokens), NEW value \in Seq(Tokens), AddHeader(name, value)
    PROVE  Inv'
<1> DEFINE Given == [name : Seq(Tokens), value : Seq(Tokens)]
           new == [name |-> name, value |-> value]
<1>0. /\ state = "headers" /\ Len(given) < MaxHeaders
      /\ ValidName(name) /\ ValidValue(value)
      /\ headers' = headers \o HeaderLine(name, value)
      /\ given' = Append(given, new)
      /\ source' = source /\ state' = state /\ method' = method /\ body' = body
  BY DEF AddHeader
<1>1. /\ source \in Sources /\ method \in Methods /\ headers \in Seq(Tokens) /\ body \in Bodies
      /\ given \in Seq(Given) /\ new \in Given
      /\ \A k \in 1 .. Len(given) : ValidName(given[k].name) /\ ValidValue(given[k].value)
  BY DEF Inv, TypeInv
<1>2. /\ Whole(Buffer) /\ Buffer # <<>> /\ Lines(Buffer) = HeadLines
      /\ HeadersContain(Buffer) <=> Supplied
  BY <1>0 DEF Inv, BufferInv, BufferLines
<1>3. HeaderLine(name, value) \in Seq(Tokens)
  BY FieldIs
<1> HIDE DEF new
<1>4. /\ Len(given) \in Nat
      /\ given' \in Seq(Given) /\ Len(given') = Len(given) + 1
      /\ \A k \in 1 .. Len(given) : given'[k] = given[k]
      /\ given'[Len(given) + 1] = new
  BY <1>0, <1>1, LenProperties, AppendProperties
<1>5. new.name = name /\ new.value = value
  BY DEF new
<1>6. TypeInv'
  <2>1. headers' \in Seq(Tokens)
    BY <1>0, <1>1, <1>3, TokensConcat
  <2>2. Len(given') <= MaxHeaders
    BY <1>0, <1>4, RequestAssumption
  <2>3. ASSUME NEW k \in 1 .. Len(given')
        PROVE  ValidName(given'[k].name) /\ ValidValue(given'[k].value)
    <3>1. CASE k \in 1 .. Len(given)
      BY <1>1, <1>4, <3>1
    <3>2. CASE k = Len(given) + 1
      BY <1>0, <1>4, <1>5, <3>2
    <3> QED BY <1>4, <3>1, <3>2
  <2>4. /\ source' \in Sources /\ method' \in Methods /\ body' \in Bodies
        /\ state' \in {"start", "headers", "built", "panicked"}
    BY <1>0, <1>1
  <2> QED BY <1>4, <2>1, <2>2, <2>3, <2>4 DEF TypeInv
<1>7. Buffer' = Buffer \o HeaderLine(name, value)
  <2>1. CASE source = "builder"
    BY <1>0, <2>1 DEF Buffer
  <2>2. CASE source # "builder"
    <3>1. RequestLine \in Seq(Tokens) /\ RequestLine' = RequestLine
      BY <1>0, <1>1, RequestLineIs DEF Whole, RequestLine
    <3>2. (RequestLine \o headers) \o HeaderLine(name, value)
            = RequestLine \o (headers \o HeaderLine(name, value))
      <4>1. /\ RequestLine \in Seq(Tokens) /\ headers \in Seq(Tokens)
            /\ HeaderLine(name, value) \in Seq(Tokens)
        BY <1>1, <1>3, <3>1
      <4> DEFINE line == HeaderLine(name, value)
      <4> HIDE DEF line
      <4>2. /\ RequestLine \in Seq(Tokens) /\ headers \in Seq(Tokens) /\ line \in Seq(Tokens)
        BY <4>1 DEF line
      <4>3. (RequestLine \o headers) \o line = RequestLine \o (headers \o line)
        <5>1. \A s, t \in Seq(Tokens) : (RequestLine \o s) \o t = RequestLine \o (s \o t)
          BY <4>2, TokensAssociate
        <5> QED BY <4>2, <5>1
      <4> QED BY <4>3 DEF line
    <3> QED BY <1>0, <2>2, <3>1, <3>2 DEF Buffer
  <2> QED BY <2>1, <2>2
<1>8. /\ Whole(Buffer') /\ Buffer' # <<>>
      /\ Lines(Buffer') = Append(HeadLines, Field(name, value))
  BY <1>0, <1>2, <1>7, FieldAppended
<1>9. HeadLines' = Append(HeadLines, Field(name, value))
  <2>1. /\ HeadLines \in Seq(Seq(Tokens)) /\ Len(HeadLines) = Len(given) + 1
        /\ HeadLines[1] = FirstLine
        /\ \A k \in 1 .. Len(given) : HeadLines[k + 1] = Field(given[k].name, given[k].value)
    BY <1>1, HeadLinesAre
  <2>2. Field(name, value) \in Seq(Tokens)
    BY FieldIs
  <2> DEFINE more == Append(HeadLines, Field(name, value))
  <2>3. /\ more \in Seq(Seq(Tokens)) /\ Len(more) = Len(given) + 2
        /\ \A k \in 1 .. Len(given) + 1 : more[k] = HeadLines[k]
        /\ more[Len(given) + 2] = Field(name, value)
    <3>1. /\ more \in Seq(Seq(Tokens)) /\ Len(more) = Len(HeadLines) + 1
          /\ \A k \in 1 .. Len(HeadLines) : more[k] = HeadLines[k]
          /\ more[Len(HeadLines) + 1] = Field(name, value)
      BY <2>1, <2>2, AppendProperties
    <3>2. Len(HeadLines) + 1 = Len(given) + 2
      BY <1>4, <2>1
    <3> QED BY <2>1, <3>1, <3>2
  <2> HIDE DEF more
  <2>4. FirstLine' = FirstLine
    BY <1>0 DEF FirstLine
  <2>5. HeadLines' = [k \in 1 .. Len(given) + 2 |->
                        IF k = 1 THEN FirstLine ELSE Field(given'[k - 1].name, given'[k - 1].value)]
    <3>1. Len(given') + 1 = Len(given) + 2
      BY <1>4
    <3> QED BY <2>4, <3>1 DEF HeadLines
  <2>6. ASSUME NEW k \in 1 .. Len(given) + 2
        PROVE  HeadLines'[k] = more[k]
    <3>1. CASE k = 1
      BY <1>4, <2>1, <2>3, <2>5, <3>1
    <3>2. CASE k \in 2 .. Len(given) + 1
      <4>1. k - 1 \in 1 .. Len(given) /\ (k - 1) + 1 = k /\ k # 1 /\ k \in 1 .. Len(given) + 1
        BY <1>4, <3>2
      <4>2. HeadLines'[k] = Field(given[k - 1].name, given[k - 1].value)
        BY <1>4, <2>5, <4>1
      <4>3. HeadLines[k] = Field(given[k - 1].name, given[k - 1].value)
        BY <2>1, <4>1
      <4> QED BY <2>3, <4>1, <4>2, <4>3
    <3>3. CASE k = Len(given) + 2
      <4>1. k - 1 = Len(given) + 1 /\ k # 1
        BY <1>4, <3>3
      <4> QED BY <1>4, <1>5, <2>3, <2>5, <3>3, <4>1
    <3>4. k = 1 \/ k \in 2 .. Len(given) + 1 \/ k = Len(given) + 2
      BY <1>4
    <3> QED BY <3>1, <3>2, <3>3, <3>4
  <2>7. HeadLines' = more
    <3>1. DOMAIN more = 1 .. Len(given) + 2
      BY <2>3, LenProperties
    <3>2. more = [k \in 1 .. Len(given) + 2 |-> more[k]]
      BY <2>3, <3>1
    <3> QED BY <2>5, <2>6, <3>2
  <2> QED BY <2>7 DEF more
<1>10. HeadersContain(Buffer') <=> Supplied'
  <2>1. HeadersContain(Buffer') <=> HeadersContain(Buffer) \/ Lower(name) = <<"cl">>
    BY <1>0, <1>2, <1>7, ContainsAppended
  <2>2. Supplied' <=> Supplied \/ Lower(name) = <<"cl">>
    <3>1. Supplied <=> \E k \in 1 .. Len(given) : Lower(given[k].name) = <<"cl">>
      BY <1>1, LenProperties DEF Supplied, IsLength
    <3>2. Supplied' <=> \E k \in 1 .. Len(given') : Lower(given'[k].name) = <<"cl">>
      BY <1>4, LenProperties DEF Supplied, IsLength
    <3>3. \A k \in 1 .. Len(given') : k \in 1 .. Len(given) \/ k = Len(given) + 1
      BY <1>4
    <3>4. (1 .. Len(given)) \subseteq 1 .. Len(given') /\ Len(given) + 1 \in 1 .. Len(given')
      BY <1>4
    <3> QED BY <1>4, <1>5, <3>1, <3>2, <3>3, <3>4
  <2> QED BY <1>2, <2>1, <2>2
<1>11. BufferInv'
  <2>1. BufferLines' = HeadLines'
    BY <1>0 DEF BufferLines
  <2> QED BY <1>0, <1>8, <1>9, <1>10, <2>1 DEF BufferInv
<1> QED BY <1>6, <1>11 DEF Inv

LEMMA BuildInv == Inv /\ Build => Inv'
<1> SUFFICES ASSUME Inv, Build PROVE Inv'
  OBVIOUS
<1> DEFINE line == HeaderLine(LengthName, Decimal(Len(body)))
<1>0. /\ state = "headers" /\ state' = "built"
      /\ source' = source /\ method' = method /\ body' = body /\ given' = given
      /\ headers' = IF source # "hyper" /\ NeedsLength(Buffer) THEN Buffer \o line ELSE Buffer
  BY DEF Build, Buffer, LengthName
<1>1. /\ Whole(Buffer) /\ Buffer # <<>> /\ Lines(Buffer) = HeadLines
      /\ HeadersContain(Buffer) <=> Supplied
  BY <1>0 DEF Inv, BufferInv, BufferLines
<1>2. /\ LengthName \in Seq(Tokens) /\ ValidName(LengthName)
      /\ Decimal(Len(body)) \in Seq(Tokens) /\ ValidValue(Decimal(Len(body)))
  BY LengthsAreValid DEF LengthName
<1>3. headers' = IF Computes THEN Buffer \o line ELSE Buffer
  BY <1>0, <1>1 DEF NeedsLength, Computes
<1>4. /\ Computes' <=> Computes
      /\ HeadLines' = HeadLines /\ LengthName' = LengthName /\ Buffer' = headers'
  BY <1>0 DEF Computes, Supplied, HeadLines, FirstLine, LengthName, Buffer
<1>5. Whole(headers') /\ headers' # <<>> /\ Lines(headers') = BufferLines'
  <2>1. CASE Computes
    <3>1. BufferLines' = Append(HeadLines, Field(LengthName, Decimal(Len(body))))
      BY <1>0, <1>4, <2>1 DEF BufferLines
    <3>2. /\ Whole(Buffer \o line) /\ Buffer \o line # <<>>
          /\ Lines(Buffer \o line) = Append(Lines(Buffer), Field(LengthName, Decimal(Len(body))))
      BY <1>1, <1>2, FieldAppended
    <3> QED BY <1>1, <1>3, <2>1, <3>1, <3>2
  <2>2. CASE ~Computes
    <3>1. BufferLines' = HeadLines
      BY <1>4, <2>2 DEF BufferLines
    <3> QED BY <1>1, <1>3, <2>2, <3>1
  <2> QED BY <2>1, <2>2
<1>6. TypeInv'
  BY <1>0, <1>5 DEF Inv, TypeInv, Whole
<1> QED BY <1>0, <1>4, <1>5, <1>6 DEF Inv, BufferInv

LEMMA NextInv == Inv /\ [Next]_vars => Inv'
<1> SUFFICES ASSUME Inv, [Next]_vars PROVE Inv'
  OBVIOUS
<1>1. CASE Start
  BY <1>1, StartInv
<1>2. ASSUME NEW name \in Names, NEW value \in Values, AddHeader(name, value)
      PROVE  Inv'
  BY <1>2, AddHeaderInv, RequestAssumption
<1>3. ASSUME NEW name \in Names, NEW value \in Values, RefuseHeader(name, value)
      PROVE  Inv'
  <2>1. TypeInv'
    BY <1>3 DEF RefuseHeader, Inv, TypeInv
  <2>2. BufferInv'
    BY <1>3 DEF RefuseHeader, BufferInv
  <2> QED BY <2>1, <2>2 DEF Inv
<1>4. CASE Build
  BY <1>4, BuildInv
<1>5. CASE UNCHANGED vars
  <2>1. TypeInv'
    BY <1>5 DEF vars, Inv, TypeInv
  <2>2. BufferInv'
    BY <1>5 DEF vars, Inv, BufferInv, Buffer, BufferLines, HeadLines, FirstLine, RequestLine,
                Computes, Supplied, LengthName
  <2> QED BY <2>1, <2>2 DEF Inv
<1>6. CASE Done
  BY <1>5, <1>6 DEF Done
<1> QED BY <1>1, <1>2, <1>3, <1>4, <1>5, <1>6 DEF Next

\* The lines of the buffer are the request line and the headers given, at every step.
THEOREM Invariance == Spec => []Inv
<1> QED BY InitInv, NextInv, PTL DEF Spec

\* No separator is ever in a name that was accepted, nor an end of line in a value: what a caller
\* passes is validated before any of it is written.
THEOREM TypeCorrect == Spec => []TypeOK
<1>1. Inv => TypeOK
  <2> SUFFICES ASSUME Inv PROVE TypeOK
    OBVIOUS
  <2>1. DOMAIN given = 1 .. Len(given)
    BY LenProperties DEF Inv, TypeInv
  <2>2. ASSUME NEW k \in DOMAIN given
        PROVE  /\ ToSet(given[k].name) \cap Separators = {}
               /\ ToSet(given[k].value) \cap {"cr", "lf"} = {}
    <3>1. ValidName(given[k].name) /\ ValidValue(given[k].value)
      BY <2>1 DEF Inv, TypeInv
    <3>2. ToSet(CRLF) = {"cr", "lf"}
      BY DEF ToSet, CRLF
    <3> QED BY <3>1, <3>2 DEF ValidName, ValidValue
  <2> QED BY <2>2 DEF Inv, TypeInv, TypeOK
<1> QED BY <1>1, Invariance, PTL

-----------------------------------------------------------------------------
(* What is read back *)

\* The lines of what write_to sends: those of the buffer, and the empty one.
LEMMA WireIs ==
    ASSUME Inv, state = "built"
    PROVE  LET wire == headers \o CRLF \o body
           IN  /\ Lines(wire) = Append(BufferLines, <<>>)
               /\ LineEnds(wire) = Append(LineEnds(headers), Len(headers) + 1)
               /\ Len(LineEnds(headers)) = Len(BufferLines)
               /\ wire \in Seq(Tokens)
               /\ Len(wire) = Len(headers) + 2 + Len(body)
               /\ SubSeq(wire, Len(headers) + 3, Len(wire)) = body
<1> DEFINE empty == <<>> \o CRLF
           head == headers \o empty
           wire == headers \o CRLF \o body
<1>0. /\ Whole(headers) /\ headers # <<>> /\ Lines(headers) = BufferLines
      /\ headers \in Seq(Tokens) /\ body \in Bodies
      /\ Len(headers) \in Nat
  BY LenProperties DEF Inv, BufferInv, TypeInv, Buffer
<1>1. empty = CRLF /\ <<>> \in Seq(Tokens) /\ Len(<<>>) = 0 /\ Ends(<<>>) = {}
  <2>1. <<>> \in Seq(Tokens) /\ Len(<<>>) = 0
    BY EmptySeq
  <2>2. Ends(<<>>) = {}
    BY <2>1 DEF Ends
  <2> QED BY <2>1, <2>2, CrlfToken, ConcatEmptySeq
<1>2. /\ Whole(head) /\ head # <<>>
      /\ Lines(head) = Append(BufferLines, <<>>)
      /\ LineEnds(head) = Append(LineEnds(headers), Len(headers) + Len(<<>>) + 1)
  <2> HIDE DEF empty, head
  <2>1. <<>> \in Seq(Tokens) /\ Ends(<<>>) = {} /\ head = headers \o (<<>> \o CRLF)
    BY <1>1 DEF empty, head
  <2> QED BY <1>0, <2>1, LineAppended
<1>3. wire = head \o body
  BY <1>1
<1>4. body \in Seq(Tokens) /\ Ends(body) = {} /\ Len(body) \in Nat
  BY <1>0, BodiesHaveNoEnd, LenProperties
<1>5. Lines(wire) = Lines(head) /\ LineEnds(wire) = LineEnds(head)
  <2> HIDE DEF head, wire
  <2> QED BY <1>2, <1>3, <1>4, TailAppended
<1>6. Len(headers) + Len(<<>>) + 1 = Len(headers) + 1
  BY <1>0, <1>1
<1>7. Len(LineEnds(headers)) = Len(BufferLines)
  BY <1>0, LineEndsIn DEF Whole
<1>8. head \in Seq(Tokens) /\ Len(head) = Len(headers) + 2
  <2>1. head = headers \o CRLF
    BY <1>1
  <2> QED BY <1>0, <2>1, CrlfToken, TokensConcat
<1> HIDE DEF head
<1>9. /\ wire \in Seq(Tokens) /\ Len(wire) = Len(head) + Len(body)
      /\ \A i \in 1 .. Len(head) + Len(body) :
            wire[i] = IF i <= Len(head) THEN head[i] ELSE body[i - Len(head)]
  <2>1. head \in Seq(Tokens) /\ body \in Seq(Tokens)
    BY <1>4, <1>8
  <2> HIDE DEF wire
  <2> QED BY <1>3, <2>1, TokensConcat
<1> HIDE DEF wire
<1>10. SubSeq(wire, Len(headers) + 3, Len(wire)) = body
  <2> DEFINE a == Len(headers) + 3
             sub == SubSeq(wire, a, Len(wire))
  <2>1. /\ a \in 1 .. Len(wire) + 1 /\ Len(wire) \in a - 1 .. Len(wire)
        /\ Len(wire) - a + 1 = Len(body)
    BY <1>0, <1>4, <1>8, <1>9
  <2>2. /\ sub \in Seq(Tokens) /\ Len(sub) = Len(wire) - a + 1
        /\ \A i \in 1 .. Len(wire) - a + 1 : sub[i] = wire[a + i - 1]
    BY <1>9, <2>1, SubSeqAt
  <2>3. ASSUME NEW i \in 1 .. Len(body)
        PROVE  wire[a + i - 1] = body[i]
    <3>1. /\ a + i - 1 \in 1 .. Len(head) + Len(body) /\ ~(a + i - 1 <= Len(head))
          /\ (a + i - 1) - Len(head) = i
      BY <1>0, <1>4, <1>8
    <3> QED BY <1>9, <3>1
  <2> HIDE DEF a, sub
  <2>4. sub = body
    BY <1>4, <2>1, <2>2, <2>3, SeqEqual
  <2> QED BY <2>4 DEF a, sub
<1>11. Len(wire) = Len(headers) + 2 + Len(body)
  BY <1>0, <1>4, <1>8, <1>9
<1> QED BY <1>2, <1>5, <1>6, <1>7, <1>9, <1>10, <1>11 DEF wire

LEMMA BufferLinesAre ==
    ASSUME Inv, state = "built"
    PROVE  /\ Len(given) \in Nat
           /\ BufferLines \in Seq(Seq(Tokens))
           /\ Len(BufferLines) = Len(given) + (IF Computes THEN 2 ELSE 1)
           /\ BufferLines[1] = FirstLine
           /\ \A k \in 1 .. Len(given) :
                BufferLines[k + 1] = Field(given[k].name, given[k].value)
           /\ Computes => BufferLines[Len(given) + 2] = Field(LengthName, Decimal(Len(body)))
<1>1. /\ Len(given) \in Nat
      /\ HeadLines \in Seq(Seq(Tokens)) /\ Len(HeadLines) = Len(given) + 1
      /\ HeadLines[1] = FirstLine
      /\ \A k \in 1 .. Len(given) : HeadLines[k + 1] = Field(given[k].name, given[k].value)
  BY HeadLinesAre DEF Inv, TypeInv
<1>2. CASE ~Computes
  BY <1>1, <1>2 DEF BufferLines
<1>3. CASE Computes
  <2> DEFINE last == Field(LengthName, Decimal(Len(body)))
  <2>1. last \in Seq(Tokens)
    BY LengthsAreValid, FieldIs DEF LengthName
  <2>2. BufferLines = Append(HeadLines, last)
    BY <1>3 DEF BufferLines
  <2> HIDE DEF last
  <2>3. /\ BufferLines \in Seq(Seq(Tokens)) /\ Len(BufferLines) = Len(HeadLines) + 1
        /\ \A k \in 1 .. Len(HeadLines) : BufferLines[k] = HeadLines[k]
        /\ BufferLines[Len(HeadLines) + 1] = last
    BY <1>1, <2>1, <2>2, AppendProperties
  <2>4. Len(HeadLines) + 1 = Len(given) + 2 /\ 1 \in 1 .. Len(HeadLines)
    BY <1>1
  <2>5. \A k \in 1 .. Len(given) : k + 1 \in 1 .. Len(HeadLines)
    BY <1>1
  <2> QED BY <1>1, <1>3, <2>3, <2>4, <2>5 DEF last
<1> QED BY <1>2, <1>3

\* The field a server reads in place k.
ReadField(k) ==
    IF k <= Len(given)
    THEN [name |-> given[k].name, value |-> Trim(given[k].value)]
    ELSE [name |-> LengthName, value |-> Decimal(Len(body))]

LEMMA LinesAreReadBack ==
    ASSUME Inv, state = "built"
    PROVE  /\ \A k \in 1 .. Len(BufferLines) : BufferLines[k] # <<>>
           /\ \A k \in 2 .. Len(BufferLines) :
                ExtractNameAndValue(BufferLines[k]) = ReadField(k - 1)
<1> DEFINE n == Len(BufferLines)
<1>1. /\ Len(given) \in Nat
      /\ n = Len(given) + (IF Computes THEN 2 ELSE 1)
      /\ BufferLines[1] = FirstLine
      /\ \A k \in 1 .. Len(given) : BufferLines[k + 1] = Field(given[k].name, given[k].value)
      /\ Computes => BufferLines[Len(given) + 2] = Field(LengthName, Decimal(Len(body)))
  BY BufferLinesAre
<1>2. /\ method \in Methods
      /\ \A k \in 1 .. Len(given) :
            /\ given[k].name \in Seq(Tokens) /\ given[k].value \in Seq(Tokens)
            /\ ValidName(given[k].name)
  <2>1. ASSUME NEW k \in 1 .. Len(given)
        PROVE  given[k].name \in Seq(Tokens) /\ given[k].value \in Seq(Tokens)
    <3>1. given[k] \in [name : Seq(Tokens), value : Seq(Tokens)]
      BY ElementOfSeq DEF Inv, TypeInv
    <3> QED BY <3>1
  <2> QED BY <2>1 DEF Inv, TypeInv
<1>3. /\ LengthName \in Seq(Tokens) /\ ValidName(LengthName)
      /\ Decimal(Len(body)) \in Seq(Tokens) /\ Trim(Decimal(Len(body))) = Decimal(Len(body))
  BY LengthsAreValid DEF LengthName
<1> HIDE DEF n
<1>5. ASSUME NEW k \in 1 .. n
      PROVE  /\ BufferLines[k] # <<>>
             /\ k # 1 => ExtractNameAndValue(BufferLines[k]) = ReadField(k - 1)
  <2>1. CASE k = 1
    BY <1>1, <1>2, <2>1, RequestLineIs
  <2>2. CASE k \in 2 .. Len(given) + 1
    <3>1. k - 1 \in 1 .. Len(given) /\ (k - 1) + 1 = k
      BY <1>1, <2>2
    <3> DEFINE g == given[k - 1]
    <3>2. BufferLines[k] = Field(g.name, g.value)
      BY <1>1, <3>1
    <3>3. g.name \in Seq(Tokens) /\ g.value \in Seq(Tokens) /\ ValidName(g.name)
      BY <1>2, <3>1
    <3>4. Field(g.name, g.value) # <<>>
      BY <3>3, FieldIsNotEmpty
    <3>5. ExtractNameAndValue(BufferLines[k]) = [name |-> g.name, value |-> Trim(g.value)]
      BY <3>2, <3>3, FieldIsReadBack
    <3>6. k - 1 <= Len(given)
      BY <3>1
    <3> QED BY <3>2, <3>4, <3>5, <3>6 DEF ReadField
  <2>3. CASE Computes /\ k = Len(given) + 2
    <3>1. BufferLines[k] = Field(LengthName, Decimal(Len(body)))
      BY <1>1, <2>3
    <3>2. Field(LengthName, Decimal(Len(body))) # <<>>
      BY <1>3, FieldIsNotEmpty
    <3>3. ExtractNameAndValue(BufferLines[k]) = [name |-> LengthName, value |-> Decimal(Len(body))]
      BY <1>3, <3>1, FieldIsReadBack
    <3>4. ~(k - 1 <= Len(given))
      BY <1>1, <2>3
    <3> QED BY <3>1, <3>2, <3>3, <3>4 DEF ReadField
  <2>4. k = 1 \/ k \in 2 .. Len(given) + 1 \/ (Computes /\ k = Len(given) + 2)
    BY <1>1
  <2> QED BY <2>1, <2>2, <2>3, <2>4
<1>6. n \in Nat
  BY <1>1
<1> QED BY <1>5, <1>6 DEF n

LEMMA ServerReadsIs ==
    ASSUME Inv, state = "built"
    PROVE  LET read == ServerReads(WriteTo)
           IN  /\ read.whole
               /\ read.body = body
               /\ read.fields =
                    [k \in 1 .. Len(given) + (IF Computes THEN 1 ELSE 0) |-> ReadField(k)]
<1> DEFINE wire == headers \o CRLF \o body
           lines == Lines(wire)
           n == Len(BufferLines)
           empty == {k \in DOMAIN lines : lines[k] = <<>>}
           last == CHOOSE k \in empty : \A j \in empty : k <= j
<1>1. /\ lines = Append(BufferLines, <<>>)
      /\ LineEnds(wire) = Append(LineEnds(headers), Len(headers) + 1)
      /\ Len(LineEnds(headers)) = n
      /\ SubSeq(wire, Len(headers) + 3, Len(wire)) = body
  BY WireIs
<1>2. /\ Len(given) \in Nat
      /\ BufferLines \in Seq(Seq(Tokens))
      /\ n = Len(given) + (IF Computes THEN 2 ELSE 1)
  BY BufferLinesAre
<1>3. headers \in Seq(Tokens) /\ Len(headers) \in Nat /\ Whole(headers)
  BY LenProperties DEF Inv, TypeInv, BufferInv, Buffer
<1> HIDE DEF wire, lines, n
<1>5. /\ n \in Nat /\ n >= 1
      /\ lines \in Seq(Seq(Tokens)) /\ Len(lines) = n + 1 /\ DOMAIN lines = 1 .. n + 1
      /\ \A k \in 1 .. n : lines[k] = BufferLines[k]
      /\ lines[n + 1] = <<>>
  <2>1. <<>> \in Seq(Tokens)
    BY EmptySeq
  <2>2. n = Len(BufferLines)
    BY DEF n
  <2>3. /\ lines \in Seq(Seq(Tokens)) /\ Len(lines) = n + 1
        /\ \A k \in 1 .. n : lines[k] = BufferLines[k]
        /\ lines[n + 1] = <<>>
    BY <1>1, <1>2, <2>1, <2>2, AppendProperties
  <2>4. DOMAIN lines = 1 .. Len(lines)
    BY <2>3, LenProperties
  <2>5. n \in Nat /\ n >= 1
    BY <1>2
  <2> QED BY <2>3, <2>4, <2>5
<1>6. /\ \A k \in 1 .. n : BufferLines[k] # <<>>
      /\ \A k \in 2 .. n : ExtractNameAndValue(BufferLines[k]) = ReadField(k - 1)
  BY LinesAreReadBack DEF n
<1>7. empty = {n + 1}
  <2>1. \A k \in 1 .. n + 1 : k \in 1 .. n \/ k = n + 1
    BY <1>5
  <2>2. n + 1 \in 1 .. n + 1
    BY <1>5
  <2>3. \A k \in 1 .. n : lines[k] # <<>>
    BY <1>5, <1>6
  <2> QED BY <1>5, <2>1, <2>2, <2>3
<1> HIDE DEF empty
<1>8. last = n + 1
  <2>1. \A k \in empty : k = n + 1
    BY <1>7
  <2>2. n + 1 \in empty /\ \A j \in empty : n + 1 <= j
    BY <1>5, <1>7
  <2>3. \E k \in empty : \A j \in empty : k <= j
    BY <2>2
  <2> QED BY <2>1, <2>3
<1> HIDE DEF last
<1>9. ServerReads(WriteTo) =
        [fields |-> [k \in 1 .. last - 2 |-> ExtractNameAndValue(lines[k + 1])],
         body   |-> SubSeq(wire, LineEnds(wire)[last] + 2, Len(wire)),
         whole  |-> TRUE]
  <2>1. empty # {}
    BY <1>7
  <2> QED BY <2>1 DEF ServerReads, WriteTo, wire, lines, empty, last
<1>10. LineEnds(wire)[last] + 2 = Len(headers) + 3
  <2>1. LineEnds(headers) \in Seq(Nat)
    BY <1>3, LineEndsIn DEF Whole
  <2>2. Len(headers) + 1 \in Nat
    BY <1>3
  <2>3. LineEnds(wire)[n + 1] = Len(headers) + 1
    BY <1>1, <2>1, <2>2, AppendProperties
  <2> QED BY <1>3, <1>8, <2>3
<1>11. [k \in 1 .. last - 2 |-> ExtractNameAndValue(lines[k + 1])]
         = [k \in 1 .. Len(given) + (IF Computes THEN 1 ELSE 0) |-> ReadField(k)]
  <2>1. last - 2 = Len(given) + (IF Computes THEN 1 ELSE 0) /\ last - 2 = n - 1
    BY <1>2, <1>8
  <2>2. ASSUME NEW k \in 1 .. n - 1
        PROVE  ExtractNameAndValue(lines[k + 1]) = ReadField(k)
    <3>1. k + 1 \in 2 .. n /\ k + 1 \in 1 .. n /\ (k + 1) - 1 = k
      BY <1>5
    <3> QED BY <1>5, <1>6, <3>1
  <2> QED BY <2>1, <2>2
<1>12. ServerReads(WriteTo) =
         [fields |-> [k \in 1 .. Len(given) + (IF Computes THEN 1 ELSE 0) |-> ReadField(k)],
          body   |-> body,
          whole  |-> TRUE]
  BY <1>1, <1>9, <1>10, <1>11
<1> QED BY <1>12

LEMMA FieldsAre ==
    ASSUME Inv, state = "built"
    PROVE  LET fields == ServerReads(WriteTo).fields
               n == Len(given) + (IF Computes THEN 1 ELSE 0)
           IN  /\ Len(given) \in Nat
               /\ fields = [k \in 1 .. n |-> ReadField(k)]
               /\ SubSeq(fields, 1, Len(given)) = Trimmed(given)
               /\ Computed(fields) = IF Computes THEN <<ReadField(Len(given) + 1)>> ELSE <<>>
<1> DEFINE n == Len(given) + (IF Computes THEN 1 ELSE 0)
           fields == ServerReads(WriteTo).fields
           R == {ReadField(k) : k \in 1 .. n}
<1>1. Len(given) \in Nat /\ DOMAIN given = 1 .. Len(given)
  BY LenProperties DEF Inv, TypeInv
<1>2. fields = [k \in 1 .. n |-> ReadField(k)]
  BY ServerReadsIs
<1> HIDE DEF fields
<1>3. n \in Nat /\ n >= Len(given)
  BY <1>1
<1>4. fields \in Seq(R) /\ Len(fields) = n
  <2>1. fields \in [1 .. n -> R]
    BY <1>2
  <2> HIDE DEF n, R
  <2> QED BY <1>3, <2>1, FunctionIsSequence
<1> HIDE DEF R
<1>5. SubSeq(fields, 1, Len(given)) = Trimmed(given)
  <2>1. /\ SubSeq(fields, 1, Len(given)) \in Seq(R)
        /\ Len(SubSeq(fields, 1, Len(given))) = Len(given)
        /\ \A i \in 1 .. Len(given) : SubSeq(fields, 1, Len(given))[i] = fields[i]
    <3>1. 1 \in 1 .. Len(fields) + 1 /\ Len(given) \in 1 - 1 .. Len(fields)
      BY <1>1, <1>3, <1>4
    <3>2. /\ SubSeq(fields, 1, Len(given)) \in Seq(R)
          /\ Len(SubSeq(fields, 1, Len(given))) = Len(given) - 1 + 1
          /\ \A i \in 1 .. Len(given) - 1 + 1 : SubSeq(fields, 1, Len(given))[i] = fields[1 + i - 1]
      BY <1>4, <3>1, SubSeqOf
    <3>3. Len(given) - 1 + 1 = Len(given) /\ \A i \in 1 .. Len(given) : 1 + i - 1 = i
      BY <1>1
    <3> QED BY <3>2, <3>3
  <2>2. ASSUME NEW k \in 1 .. Len(given)
        PROVE  fields[k] = [given[k] EXCEPT !.value = Trim(@)]
    <3>1. given[k] \in [name : Seq(Tokens), value : Seq(Tokens)]
      BY ElementOfSeq DEF Inv, TypeInv
    <3>2. [given[k] EXCEPT !.value = Trim(@)]
            = [name |-> given[k].name, value |-> Trim(given[k].value)]
      BY <3>1
    <3>3. k \in 1 .. n /\ k <= Len(given)
      BY <1>1, <1>3
    <3> QED BY <1>2, <3>2, <3>3 DEF ReadField
  <2>3. Trimmed(given) = [k \in 1 .. Len(given) |-> fields[k]]
    BY <1>1, <2>2 DEF Trimmed
  <2> DEFINE sub == SubSeq(fields, 1, Len(given))
  <2>4. DOMAIN sub = 1 .. Len(given)
    BY <2>1, LenProperties
  <2>5. sub = [k \in 1 .. Len(given) |-> sub[k]]
    BY <2>1, <2>4
  <2> QED BY <2>1, <2>3, <2>5
<1>6. Computed(fields) = IF Computes THEN <<ReadField(Len(given) + 1)>> ELSE <<>>
  <2> DEFINE a == Len(given) + 1
             sub == SubSeq(fields, a, Len(fields))
  <2>1. a \in 1 .. Len(fields) + 1 /\ Len(fields) \in a - 1 .. Len(fields)
    BY <1>1, <1>3, <1>4
  <2>2. /\ sub \in Seq(R) /\ Len(sub) = Len(fields) - a + 1
        /\ \A i \in 1 .. Len(fields) - a + 1 : sub[i] = fields[a + i - 1]
    BY <1>4, <2>1, SubSeqOf
  <2>3. Computed(fields) = sub
    BY DEF Computed
  <2> HIDE DEF sub
  <2>4. CASE Computes
    <3>1. Len(fields) - a + 1 = 1 /\ a + 1 - 1 = a /\ a \in 1 .. n
      BY <1>1, <1>4, <2>4
    <3>2. Len(sub) = 1 /\ sub[1] = ReadField(a)
      BY <1>2, <2>2, <3>1
    <3>3. DOMAIN sub = 1 .. 1
      BY <2>2, <3>2, LenProperties
    <3>4. sub = [i \in 1 .. 1 |-> sub[i]]
      BY <2>2, <3>3
    <3>5. <<ReadField(a)>> = [i \in 1 .. 1 |-> ReadField(a)]
      OBVIOUS
    <3>6. \A i \in 1 .. 1 : sub[i] = ReadField(a)
      BY <3>2
    <3> QED BY <2>3, <2>4, <3>4, <3>5, <3>6
  <2>5. CASE ~Computes
    <3>1. Len(sub) = 0
      BY <1>1, <1>4, <2>2, <2>5
    <3>2. sub = <<>>
      BY <2>2, <3>1, EmptySeq
    <3> QED BY <2>3, <2>5, <3>2
  <2> QED BY <2>4, <2>5
<1> QED BY <1>1, <1>2, <1>5, <1>6 DEF fields

\* A server reads the headers the caller gave, in their order and with their values, and the body:
\* no name or value can end a line or a header early, whatever it contains.
THEOREM ServerReadsTheSame == Spec => []ServerReadsWhatWasGiven
<1>1. Inv => ServerReadsWhatWasGiven
  <2> SUFFICES ASSUME Inv, state = "built"
               PROVE  LET read == ServerReads(WriteTo)
                      IN  /\ read.whole
                          /\ read.body = body
                          /\ SubSeq(read.fields, 1, Len(given)) = Trimmed(given)
                          /\ \A k \in DOMAIN Computed(read.fields) :
                               IsLength(Computed(read.fields)[k])
    BY DEF ServerReadsWhatWasGiven
  <2> DEFINE fields == ServerReads(WriteTo).fields
  <2>1. /\ ServerReads(WriteTo).whole
        /\ ServerReads(WriteTo).body = body
    BY ServerReadsIs
  <2>2. /\ SubSeq(fields, 1, Len(given)) = Trimmed(given)
        /\ Computed(fields) = IF Computes THEN <<ReadField(Len(given) + 1)>> ELSE <<>>
        /\ Len(given) \in Nat
    BY FieldsAre
  <2> HIDE DEF fields
  <2>3. ASSUME NEW k \in DOMAIN Computed(fields)
        PROVE  IsLength(Computed(fields)[k])
    <3>1. CASE Computes
      <4>1. Computed(fields) = <<ReadField(Len(given) + 1)>>
        BY <2>2, <3>1
      <4>2. Computed(fields)[k] = ReadField(Len(given) + 1)
        BY <4>1
      <4>3. ReadField(Len(given) + 1).name = LengthName
        BY <2>2 DEF ReadField
      <4> QED BY <4>2, <4>3, LengthsAreValid DEF IsLength, LengthName
    <3>2. CASE ~Computes
      BY <2>2, <3>2
    <3> QED BY <3>1, <3>2
  <2> QED BY <2>1, <2>2, <2>3 DEF fields
<1> QED BY <1>1, Invariance, PTL

\* A body goes out with its length, exactly once: the one the caller supplied, in whatever case, or
\* else the computed one.
THEOREM LengthIsRight == Spec => []LengthIsTheBodys
<1>1. Inv => LengthIsTheBodys
  <2> SUFFICES ASSUME Inv, state = "built"
               PROVE  LET computed == Computed(ServerReads(WriteTo).fields)
                      IN  IF source = "hyper" \/ body = <<>> \/ Supplied
                          THEN computed = <<>>
                          ELSE Len(computed) = 1 /\ computed[1].value = Decimal(Len(body))
    BY DEF LengthIsTheBodys
  <2> DEFINE computed == Computed(ServerReads(WriteTo).fields)
  <2>1. /\ computed = IF Computes THEN <<ReadField(Len(given) + 1)>> ELSE <<>>
        /\ Len(given) \in Nat
    BY FieldsAre
  <2> HIDE DEF computed
  <2>2. CASE Computes
    <3>1. ReadField(Len(given) + 1).value = Decimal(Len(body))
      BY <2>1 DEF ReadField
    <3>2. Len(computed) = 1 /\ computed[1].value = Decimal(Len(body))
      BY <2>1, <2>2, <3>1
    <3> QED BY <2>2, <3>2 DEF Computes, computed
  <2>3. CASE ~Computes
    BY <2>1, <2>3 DEF Computes, computed
  <2> QED BY <2>2, <2>3
<1> QED BY <1>1, Invariance, PTL

LEMMA BeforeIs ==
    ASSUME NEW text \in Seq(Tokens), NEW token, NEW p \in 1 .. Len(text), text[p] = token,
           \A i \in 1 .. p - 1 : text[i] # token
    PROVE  /\ Before(text, token) \in Seq(Tokens) /\ Len(Before(text, token)) = p - 1
           /\ \A i \in 1 .. p - 1 : Before(text, token)[i] = text[i]
           /\ After(text, token) \in Seq(Tokens) /\ Len(After(text, token)) = Len(text) - p
           /\ \A i \in 1 .. Len(text) - p : After(text, token)[i] = text[p + i]
<1>1. Len(text) \in Nat /\ p \in Nat /\ p # 0
  BY LenProperties
<1>2. Until(text, token) = p
  BY UntilIs
<1>3. /\ Before(text, token) = SubSeq(text, 1, p - 1)
      /\ After(text, token) = SubSeq(text, p + 1, Len(text))
  BY <1>1, <1>2 DEF Before, After
<1>4. /\ 1 \in 1 .. Len(text) + 1 /\ p - 1 \in 1 - 1 .. Len(text)
      /\ p + 1 \in 1 .. Len(text) + 1 /\ Len(text) \in (p + 1) - 1 .. Len(text)
  BY <1>1
<1>5. /\ Before(text, token) \in Seq(Tokens) /\ Len(Before(text, token)) = (p - 1) - 1 + 1
      /\ \A i \in 1 .. (p - 1) - 1 + 1 : Before(text, token)[i] = text[1 + i - 1]
  BY <1>3, <1>4, SubSeqAt
<1>6. /\ After(text, token) \in Seq(Tokens) /\ Len(After(text, token)) = Len(text) - (p + 1) + 1
      /\ \A i \in 1 .. Len(text) - (p + 1) + 1 : After(text, token)[i] = text[(p + 1) + i - 1]
  BY <1>3, <1>4, SubSeqAt
<1>7. /\ (p - 1) - 1 + 1 = p - 1 /\ \A i \in 1 .. p - 1 : 1 + i - 1 = i
      /\ Len(text) - (p + 1) + 1 = Len(text) - p
      /\ \A i \in 1 .. Len(text) - p : (p + 1) + i - 1 = p + i
  BY <1>1
<1> QED BY <1>5, <1>6, <1>7

LEMMA SingleToken ==
    ASSUME NEW text \in Seq(Tokens), Len(text) = 1
    PROVE  text = <<text[1]>>
<1>1. DOMAIN text = 1 .. 1
  BY LenProperties
<1>2. text = [i \in 1 .. 1 |-> text[i]]
  BY <1>1
<1> QED BY <1>2

LEMMA BeforeTheSecond ==
    ASSUME NEW text \in Seq(Tokens), NEW token, Len(text) >= 2, text[1] # token, text[2] = token
    PROVE  Before(text, token) = <<text[1]>>
<1>1. Len(text) \in Nat /\ 2 \in 1 .. Len(text)
  BY LenProperties
<1>2. ASSUME NEW p \in 1 .. Len(text), p = 2
      PROVE  Before(text, token) = <<text[1]>>
  <2>1. text[p] = token /\ \A i \in 1 .. p - 1 : text[i] # token
    BY <1>2
  <2>2. Before(text, token) \in Seq(Tokens) /\ Len(Before(text, token)) = p - 1
    <3>1. Before(text, token) \in Seq(Tokens)
      BY <2>1, BeforeIs
    <3>2. Len(Before(text, token)) = p - 1
      BY <2>1, BeforeIs
    <3> QED BY <3>1, <3>2
  <2>3. \A i \in 1 .. p - 1 : Before(text, token)[i] = text[i]
    BY <2>1, BeforeIs
  <2>4. Len(Before(text, token)) = 1 /\ Before(text, token)[1] = text[1]
    BY <1>2, <2>2, <2>3
  <2> QED BY <2>2, <2>4, SingleToken
<1> QED BY <1>1, <1>2

LEMMA FirstLineIsReadBack ==
    ASSUME Inv, state = "built"
    PROVE  /\ GetMethod(headers) = <<method>>
           /\ GetMethod(FirstLine) = <<method>>
           /\ Before(After(FirstLine, "sp"), "sp") = <<"path">>
<1>1. /\ FirstLine \in Seq(Tokens) /\ Len(FirstLine) = 5
      /\ FirstLine[1] = method /\ FirstLine[2] = "sp" /\ FirstLine[3] = "path"
      /\ FirstLine[4] = "sp" /\ FirstLine[5] = "version"
  BY RequestLineIs DEF Inv, TypeInv, FirstLine
<1>2. method # "sp"
  BY RequestAssumption DEF Inv, TypeInv, Separators, Space
<1>3. ASSUME NEW text \in Seq(Tokens), Len(text) >= 2, text[1] = method, text[2] = "sp"
      PROVE  Before(text, "sp") = <<method>>
  BY <1>2, <1>3, BeforeTheSecond
<1>4. GetMethod(FirstLine) = <<method>>
  BY <1>1, <1>3 DEF GetMethod
<1>5. Before(After(FirstLine, "sp"), "sp") = <<"path">>
  <2> DEFINE rest == After(FirstLine, "sp")
  <2>1. 2 \in 1 .. Len(FirstLine) /\ \A i \in 1 .. 2 - 1 : FirstLine[i] # "sp"
    BY <1>1, <1>2
  <2>2. /\ rest \in Seq(Tokens) /\ Len(rest) = Len(FirstLine) - 2
        /\ \A i \in 1 .. Len(FirstLine) - 2 : rest[i] = FirstLine[2 + i]
    BY <1>1, <2>1, BeforeIs
  <2> HIDE DEF rest
  <2>3. Len(rest) = 3 /\ rest[1] = "path" /\ rest[2] = "sp"
    BY <1>1, <2>2
  <2>4. Before(rest, "sp") = <<"path">>
    BY <2>2, <2>3, BeforeTheSecond
  <2> QED BY <2>4 DEF rest
<1>6. GetMethod(headers) = <<method>>
  <2>1. /\ headers \in Seq(Tokens) /\ Whole(headers) /\ Ordered(Ends(headers))
        /\ Lines(headers) = BufferLines /\ Len(headers) \in Nat
    BY LenProperties DEF Inv, TypeInv, BufferInv, Buffer, Whole
  <2>2. BufferLines[1] = FirstLine /\ Len(BufferLines) >= 1
    BY BufferLinesAre
  <2>3. /\ DOMAIN LineEnds(headers) = 1 .. Len(LineEnds(headers))
        /\ \A k \in 1 .. Len(LineEnds(headers)) : LineEnds(headers)[k] \in 1 .. Len(headers) - 1
        /\ Len(Lines(headers)) = Len(LineEnds(headers)) /\ Len(LineEnds(headers)) \in Nat
    BY <2>1, LineEndsIn
  <2>4. 1 \in 1 .. Len(LineEnds(headers))
    BY <2>1, <2>2, <2>3
  <2> DEFINE e == LineEnds(headers)[1]
  <2>5. FirstLine = SubSeq(headers, 1, e - 1)
    BY <2>1, <2>2, <2>3, <2>4, LinesAre
  <2>6. e \in 1 .. Len(headers) - 1
    BY <2>3, <2>4
  <2> HIDE DEF e
  <2>7. 1 \in 1 .. Len(headers) + 1 /\ e - 1 \in 1 - 1 .. Len(headers)
    BY <2>1, <2>6
  <2>8. /\ Len(FirstLine) = (e - 1) - 1 + 1
        /\ \A i \in 1 .. (e - 1) - 1 + 1 : FirstLine[i] = headers[1 + i - 1]
    BY <2>1, <2>5, <2>7, SubSeqAt
  <2>9. (e - 1) - 1 + 1 = 5 /\ e = 6
    <3>1. (e - 1) - 1 + 1 = 5
      BY <1>1, <2>8
    <3>2. e \in Int
      BY <2>1, <2>6
    <3> QED BY <3>1, <3>2
  <2>10. headers[1] = method /\ headers[2] = "sp" /\ Len(headers) >= 2
    BY <1>1, <2>1, <2>6, <2>8, <2>9
  <2> QED BY <1>3, <2>1, <2>10 DEF GetMethod
<1> QED BY <1>4, <1>5, <1>6

LEMMA HyperH1Is ==
    ASSUME Inv, state = "built"
    PROVE  /\ ToHyperH1(headers).method = <<method>>
           /\ ToHyperH1(headers).path = <<"path">>
           /\ ToHyperH1(headers).fields
                = [k \in 1 .. Len(given) + (IF Computes THEN 1 ELSE 0) |-> ReadField(k)]
<1> DEFINE n == Len(BufferLines)
<1>1. /\ GetMethod(FirstLine) = <<method>>
      /\ Before(After(FirstLine, "sp"), "sp") = <<"path">>
  BY FirstLineIsReadBack
<1>2. Lines(headers) = BufferLines
  BY DEF Inv, BufferInv, Buffer
<1>3. /\ BufferLines[1] = FirstLine /\ Len(given) \in Nat
      /\ n = Len(given) + (IF Computes THEN 2 ELSE 1)
  BY BufferLinesAre
<1>4. /\ ToHyperH1(headers).method = <<method>>
      /\ ToHyperH1(headers).path = <<"path">>
      /\ ToHyperH1(headers).fields
           = [k \in 1 .. n - 1 |-> ExtractNameAndValue(BufferLines[k + 1])]
  BY <1>1, <1>2, <1>3 DEF ToHyperH1
<1>5. \A k \in 2 .. n : ExtractNameAndValue(BufferLines[k]) = ReadField(k - 1)
  BY LinesAreReadBack
<1> HIDE DEF n
<1>6. n - 1 = Len(given) + (IF Computes THEN 1 ELSE 0) /\ n \in Nat
  BY <1>3
<1>7. ASSUME NEW k \in 1 .. n - 1
      PROVE  ExtractNameAndValue(BufferLines[k + 1]) = ReadField(k)
  <2>1. k + 1 \in 2 .. n /\ (k + 1) - 1 = k
    BY <1>6
  <2> QED BY <1>5, <2>1
<1> QED BY <1>4, <1>6, <1>7

\* A request converted for hyper's HTTP/1 has the method, the path and the headers that a server
\* would have read from its bytes.
THEOREM HyperH1IsTheSame == Spec => []HyperH1CarriesTheSame
<1>1. Inv => HyperH1CarriesTheSame
  BY HyperH1Is, FirstLineIsReadBack, ServerReadsIs DEF HyperH1CarriesTheSame
<1> QED BY <1>1, Invariance, PTL

\* The greatest of a set of places is one of them.
LEMMA GreatestOf ==
    ASSUME NEW n \in Nat, NEW S \in SUBSET (1 .. n), S # {}
    PROVE  Max(S) \in S
<1> DEFINE B == {m \in Nat : \A k \in S : k <= m}
<1>1. n \in B
  OBVIOUS
<1>2. PICK m \in B : \A k \in B : m <= k
  <2> HIDE DEF B
  <2>1. B \in SUBSET Nat
    BY DEF B
  <2> QED BY <1>1, <2>1, LeastOf
<1>3. m \in Nat /\ \A k \in S : k <= m
  BY <1>2
<1>4. m \in S
  <2> SUFFICES ASSUME m \notin S PROVE FALSE
    OBVIOUS
  <2>1. PICK s \in S : TRUE
    OBVIOUS
  <2>2. s \in Nat /\ s >= 1 /\ s <= m
    BY <1>3
  <2>3. m - 1 \in Nat /\ m >= 1
    BY <1>3, <2>2
  <2>4. ASSUME NEW k \in S PROVE k <= m - 1
    <3>1. k \in Nat /\ k <= m /\ k # m
      BY <1>3
    <3> QED BY <1>3, <3>1
  <2>5. m - 1 \in B
    BY <2>3, <2>4
  <2>6. m <= m - 1
    BY <1>2, <2>5
  <2> QED BY <1>3, <2>6
<1>5. \A y \in S : m >= y
  <2> SUFFICES ASSUME NEW y \in S PROVE m >= y
    OBVIOUS
  <2>1. y \in Nat /\ y <= m
    BY <1>3
  <2> QED BY <1>3, <2>1
<1> QED BY <1>4, <1>5, Zenon DEF Max

LEMMA SameSelection ==
    ASSUME NEW fields
    PROVE  SelectSeq(fields, LAMBDA f : ~IsHost(f))
             = SelectSeq(fields, LAMBDA f : Lower(f.name) # <<"host">>)
BY DEF IsHost

\* The hosts among the fields are those among the headers given: a Content-Length is none.
LEMMA HostsAre ==
    ASSUME Inv, state = "built"
    PROVE  LET fields == ToHyperH1(headers).fields
           IN  {k \in DOMAIN fields : IsHost(fields[k])}
                 = {k \in DOMAIN given : Lower(given[k].name) = <<"host">>}
<1> DEFINE n == Len(given) + (IF Computes THEN 1 ELSE 0)
           fields == ToHyperH1(headers).fields
<1>1. fields = [k \in 1 .. n |-> ReadField(k)]
  BY HyperH1Is
<1> HIDE DEF fields
<1>2. Len(given) \in Nat /\ DOMAIN given = 1 .. Len(given)
  BY LenProperties DEF Inv, TypeInv
<1>3. ~(Lower(LengthName) = <<"host">>)
  <2>1. Lower(LengthName) = <<"cl">>
    BY LengthsAreValid DEF LengthName
  <2>2. <<"cl">> # <<"host">>
    OBVIOUS
  <2> QED BY <2>1, <2>2
<1>4. ASSUME NEW k \in 1 .. n
      PROVE  IsHost(ReadField(k)) <=> k \in DOMAIN given /\ Lower(given[k].name) = <<"host">>
  <2>1. CASE k <= Len(given)
    <3>1. ReadField(k).name = given[k].name
      BY <2>1 DEF ReadField
    <3>2. k \in DOMAIN given
      BY <1>2, <2>1
    <3> QED BY <3>1, <3>2 DEF IsHost
  <2>2. CASE ~(k <= Len(given))
    <3>1. ReadField(k).name = LengthName
      BY <2>2 DEF ReadField
    <3>2. k \notin DOMAIN given
      BY <1>2, <2>2
    <3> QED BY <1>3, <3>1, <3>2 DEF IsHost
  <2> QED BY <2>1, <2>2
<1>5. DOMAIN given \subseteq 1 .. n
  BY <1>2
<1>6. DOMAIN fields = 1 .. n /\ \A k \in 1 .. n : fields[k] = ReadField(k)
  BY <1>1
<1> HIDE DEF n
<1>7. ASSUME NEW k
      PROVE  k \in DOMAIN fields /\ IsHost(fields[k])
               <=> k \in DOMAIN given /\ Lower(given[k].name) = <<"host">>
  BY <1>4, <1>5, <1>6
<1>8. {k \in DOMAIN fields : IsHost(fields[k])}
        = {k \in DOMAIN given : Lower(given[k].name) = <<"host">>}
  BY <1>7
<1> QED BY <1>8 DEF fields

\* A request converted for HTTP/2 goes to the last Host the caller gave, and carries every other
\* header.
THEOREM HyperH2IsTheSame == Spec => []HyperH2CarriesTheSame
<1>1. Inv => HyperH2CarriesTheSame
  <2> SUFFICES ASSUME Inv, state = "built"
               PROVE  LET h1 == ToHyperH1(headers)
                          h2 == ToHyperH2(headers)
                          hosts == {k \in DOMAIN given : Lower(given[k].name) = <<"host">>}
                      IN  /\ h2.method = <<method>> /\ h2.path = <<"path">>
                          /\ h2.authority = IF hosts = {} THEN <<>>
                                            ELSE Trim(given[Max(hosts)].value)
                          /\ h2.fields = SelectSeq(h1.fields, LAMBDA f : Lower(f.name) # <<"host">>)
    BY Zenon DEF HyperH2CarriesTheSame
  <2> DEFINE h1 == ToHyperH1(headers)
             h2 == ToHyperH2(headers)
             hosts == {k \in DOMAIN given : Lower(given[k].name) = <<"host">>}
  <2>1. h1.method = <<method>> /\ h1.path = <<"path">>
    BY HyperH1Is
  <2>2. {k \in DOMAIN h1.fields : IsHost(h1.fields[k])} = hosts
    BY HostsAre
  <2>3. /\ h2.method = h1.method /\ h2.path = h1.path
        /\ h2.authority = IF hosts = {} THEN <<>> ELSE h1.fields[Max(hosts)].value
    BY <2>2 DEF ToHyperH2
  <2>4. h2.fields = SelectSeq(h1.fields, LAMBDA f : ~IsHost(f))
    BY DEF ToHyperH2
  <2>5. h2.fields = SelectSeq(h1.fields, LAMBDA f : Lower(f.name) # <<"host">>)
    BY <2>4, SameSelection
  <2>6. ASSUME hosts # {}
        PROVE  h1.fields[Max(hosts)].value = Trim(given[Max(hosts)].value)
    <3>1. DOMAIN given = 1 .. Len(given) /\ Len(given) \in Nat
      BY LenProperties DEF Inv, TypeInv
    <3>2. Max(hosts) \in 1 .. Len(given)
      <4> HIDE DEF hosts
      <4>1. hosts \in SUBSET (1 .. Len(given))
        BY <3>1 DEF hosts
      <4> QED BY <2>6, <3>1, <4>1, GreatestOf
    <3> DEFINE k == Max(hosts)
    <3> HIDE DEF k
    <3>3. k \in 1 .. Len(given)
      BY <3>2 DEF k
    <3>4. h1.fields[k] = ReadField(k)
      <4>1. k \in 1 .. Len(given) + (IF Computes THEN 1 ELSE 0)
        BY <3>1, <3>3
      <4> QED BY <4>1, HyperH1Is
    <3>5. ReadField(k).value = Trim(given[k].value)
      BY <3>3 DEF ReadField
    <3> QED BY <3>4, <3>5 DEF k
  <2> HIDE DEF h1, h2, hosts
  <2>7. h2.authority = IF hosts = {} THEN <<>> ELSE Trim(given[Max(hosts)].value)
    BY <2>3, <2>6
  <2> QED BY <2>1, <2>3, <2>5, <2>7 DEF h1, h2, hosts
<1> QED BY <1>1, Invariance, PTL

-----------------------------------------------------------------------------
(* The iterator *)

\* The fields of the headers given, one line each.
GivenLines == [k \in 1 .. Len(given) |-> Field(given[k].name, given[k].value)]

\* The headers builder holds one line for each header given.
ListInv ==
    state = "headers" /\ source = "new" => Whole(headers) /\ Lines(headers) = GivenLines

LEMMA NextListInv == Inv /\ ListInv /\ [Next]_vars => ListInv'
<1> SUFFICES ASSUME Inv, ListInv, [Next]_vars, state' = "headers", source' = "new"
             PROVE  (Whole(headers) /\ Lines(headers) = GivenLines)'
  BY DEF ListInv
<1>1. CASE UNCHANGED vars
  <2>1. /\ headers' = headers /\ given' = given
        /\ state = "headers" /\ source = "new"
    BY <1>1 DEF vars
  <2>2. GivenLines' = GivenLines
    BY <2>1 DEF GivenLines
  <2> QED BY <2>1, <2>2 DEF ListInv
<1>2. CASE Start
  <2>1. headers' = <<>> /\ given' = <<>>
    BY <1>2 DEF Start, Inv, BufferInv
  <2>2. GivenLines' = <<>>
    BY <2>1 DEF GivenLines
  <2> QED BY <2>1, <2>2, EmptyIsWhole
<1>3. ASSUME NEW name \in Names, NEW value \in Values, AddHeader(name, value)
      PROVE  (Whole(headers) /\ Lines(headers) = GivenLines)'
  <2> DEFINE Given == [name : Seq(Tokens), value : Seq(Tokens)]
             new == [name |-> name, value |-> value]
             field == Field(name, value)
  <2>1. /\ state = "headers" /\ source = "new"
        /\ ValidName(name) /\ ValidValue(value)
        /\ headers' = headers \o HeaderLine(name, value)
        /\ given' = Append(given, new)
    BY <1>3 DEF AddHeader
  <2>2. name \in Seq(Tokens) /\ value \in Seq(Tokens)
    BY RequestAssumption
  <2>3. Whole(headers) /\ Lines(headers) = GivenLines
    BY <2>1 DEF ListInv
  <2>4. field \in Seq(Tokens) /\ HeaderLine(name, value) = field \o CRLF /\ Ends(field) = {}
    BY <2>1, <2>2, FieldIs, FieldHasNoEnd
  <2>5. given \in Seq(Given) /\ new \in Given
    BY <2>2 DEF Inv, TypeInv
  <2> HIDE DEF field, new
  <2>6. Whole(headers') /\ Lines(headers') = Append(GivenLines, field)
    BY <2>1, <2>3, <2>4, LineAppended
  <2>7. /\ Len(given) \in Nat /\ Len(given') = Len(given) + 1
        /\ \A k \in 1 .. Len(given) : given'[k] = given[k]
        /\ given'[Len(given) + 1] = new
    BY <2>1, <2>5, LenProperties, AppendProperties
  <2>8. Append(GivenLines, field) = GivenLines'
    <3>1. GivenLines \in Seq(Seq(Tokens)) /\ Len(GivenLines) = Len(given)
      <4>1. ASSUME NEW k \in 1 .. Len(given)
            PROVE  Field(given[k].name, given[k].value) \in Seq(Tokens)
        <5>1. given[k] \in Given
          BY <2>5, ElementOfSeq
        <5> QED BY <5>1, FieldIs
      <4>2. GivenLines \in [1 .. Len(given) -> Seq(Tokens)]
        BY <4>1 DEF GivenLines
      <4> QED BY <2>7, <4>2, FunctionIsSequence
    <3>2. /\ Append(GivenLines, field) \in Seq(Seq(Tokens))
          /\ Len(Append(GivenLines, field)) = Len(given) + 1
          /\ \A k \in 1 .. Len(given) : Append(GivenLines, field)[k] = GivenLines[k]
          /\ Append(GivenLines, field)[Len(given) + 1] = field
      BY <2>4, <3>1, AppendProperties
    <3>3. new.name = name /\ new.value = value
      BY DEF new
    <3>4. ASSUME NEW k \in 1 .. Len(given')
          PROVE  Append(GivenLines, field)[k] = Field(given'[k].name, given'[k].value)
      <4>1. CASE k \in 1 .. Len(given)
        BY <2>7, <3>2, <4>1 DEF GivenLines
      <4>2. CASE k = Len(given) + 1
        BY <2>7, <3>2, <3>3, <4>2 DEF field
      <4>3. k \in 1 .. Len(given) \/ k = Len(given) + 1
        BY <2>7
      <4> QED BY <4>1, <4>2, <4>3
    <3> DEFINE lines == Append(GivenLines, field)
    <3> HIDE DEF lines
    <3>5. lines = [k \in 1 .. Len(given') |-> lines[k]]
      <4>1. lines \in Seq(Seq(Tokens)) /\ Len(lines) = Len(given')
        BY <2>7, <3>2 DEF lines
      <4>2. DOMAIN lines = 1 .. Len(given')
        BY <4>1, LenProperties
      <4> QED BY <4>1, <4>2
    <3> QED BY <3>4, <3>5 DEF lines, GivenLines
  <2> QED BY <2>6, <2>8
<1>4. ASSUME NEW name, NEW value, RefuseHeader(name, value)
      PROVE  FALSE
  BY <1>4 DEF RefuseHeader
<1>5. ~Build
  BY DEF Build
<1>6. CASE Done
  BY <1>1, <1>6 DEF Done
<1> QED BY <1>1, <1>2, <1>3, <1>4, <1>5, <1>6 DEF Next

LEMMA ListInvariance == Spec => []ListInv
<1>1. Init => ListInv
  BY DEF Init, ListInv
<1> QED BY <1>1, NextListInv, Invariance, PTL DEF Spec

\* Where a token is found from a place on.
FirstFrom(buf, token, from) ==
    LET I == {i \in from .. Len(buf) : buf[i] = token}
    IN  IF I # {} THEN Min(I) ELSE 0

LEMMA NextHeaderIs ==
    ASSUME NEW buf, NEW pos
    PROVE  LET colon == FirstFrom(buf, ":", pos)
               cr == FirstFrom(buf, "cr", colon + 2)
           IN  NextHeader(buf, pos)
                 = IF colon = 0 \/ cr = 0 THEN <<>>
                   ELSE <<[name  |-> SubSeq(buf, pos, colon - 1),
                           value |-> SubSeq(buf, colon + 2, cr - 1)], cr + 2>>
BY Zenon DEF NextHeader, SelectInSubSeq, FirstFrom

LEMMA FirstFromIs ==
    ASSUME NEW buf \in Seq(Tokens), NEW token, NEW from \in Nat, NEW p \in from .. Len(buf),
           buf[p] = token, \A i \in from .. p - 1 : buf[i] # token
    PROVE  FirstFrom(buf, token, from) = p
<1> DEFINE I == {i \in from .. Len(buf) : buf[i] = token}
<1>1. Len(buf) \in Nat
  BY LenProperties
<1>2. p \in I /\ I # {} /\ I \subseteq Nat
  BY <1>1
<1>3. \A i \in I : p <= i
  BY <1>1
<1>4. FirstFrom(buf, token, from) = Min(I)
  BY <1>2 DEF FirstFrom
<1> HIDE DEF I
<1>5. \A x : x \in I /\ (\A y \in I : x <= y) => x = p
  BY <1>2, <1>3
<1> QED BY <1>2, <1>3, <1>4, <1>5 DEF Min

\* A call at the start of a header yields it, and stops behind its end of line.
LEMMA HeaderIsNext ==
    ASSUME NEW buf \in Seq(Tokens), NEW name \in Seq(Tokens), NEW value \in Seq(Tokens),
           ValidName(name), ValidValue(value),
           NEW s \in 1 .. Len(buf), NEW e \in 1 .. Len(buf) - 1, s <= e, buf[e] = "cr",
           SubSeq(buf, s, e - 1) = Field(name, value)
    PROVE  NextHeader(buf, s) = <<[name |-> name, value |-> value], e + 2>>
<1> DEFINE field == Field(name, value)
           colon == s + Len(name)
<1>1. /\ Len(name) \in Nat /\ Len(value) \in Nat
      /\ Len(field) = Len(name) + Len(value) + 2
      /\ \A i \in 1 .. Len(name) : field[i] = name[i]
      /\ field[Len(name) + 1] = ":"
      /\ \A i \in 1 .. Len(value) : field[Len(name) + 2 + i] = value[i]
  BY FieldIs
<1>2. Len(buf) \in Nat /\ s \in Nat /\ e \in Nat
  BY LenProperties
<1>3. s \in 1 .. Len(buf) + 1 /\ e - 1 \in s - 1 .. Len(buf)
  BY <1>2
<1>4. /\ Len(field) = e - 1 - s + 1
      /\ \A i \in 1 .. e - 1 - s + 1 : field[i] = buf[s + i - 1]
  BY <1>3, SubSeqAt
<1> HIDE DEF field
<1>5. e = s + Len(name) + Len(value) + 2
  <2>1. e - 1 - s + 1 = Len(name) + Len(value) + 2
    BY <1>1, <1>4
  <2> QED BY <1>1, <1>2, <2>1
<1>6. \A i \in 1 .. Len(name) + Len(value) + 2 : buf[s + i - 1] = field[i]
  BY <1>1, <1>4
<1>7. \A i \in 1 .. Len(name) : name[i] # ":"
  BY NamesAreValid
<1>8. \A i \in 1 .. Len(value) : value[i] # "cr"
  BY ValuesAreValid DEF NoCr
<1>9. FirstFrom(buf, ":", s) = colon
  <2>1. buf[colon] = ":"
    <3>1. Len(name) + 1 \in 1 .. Len(name) + Len(value) + 2 /\ s + (Len(name) + 1) - 1 = colon
      BY <1>1, <1>2
    <3> QED BY <1>1, <1>6, <3>1
  <2>2. ASSUME NEW i \in s .. colon - 1
        PROVE  buf[i] # ":"
    <3>1. /\ i - s + 1 \in 1 .. Len(name) /\ i - s + 1 \in 1 .. Len(name) + Len(value) + 2
          /\ s + (i - s + 1) - 1 = i
      BY <1>1, <1>2
    <3> QED BY <1>1, <1>6, <1>7, <3>1
  <2>3. colon \in s .. Len(buf)
    BY <1>1, <1>2, <1>5
  <2> HIDE DEF colon
  <2> QED BY <1>2, <2>1, <2>2, <2>3, FirstFromIs
<1>10. FirstFrom(buf, "cr", colon + 2) = e
  <2>1. ASSUME NEW i \in colon + 2 .. e - 1
        PROVE  buf[i] # "cr"
    <3>1. /\ i - colon - 1 \in 1 .. Len(value)
          /\ Len(name) + 2 + (i - colon - 1) \in 1 .. Len(name) + Len(value) + 2
          /\ s + (Len(name) + 2 + (i - colon - 1)) - 1 = i
      BY <1>1, <1>2, <1>5
    <3> QED BY <1>1, <1>6, <1>8, <3>1
  <2>2. colon + 2 \in Nat /\ e \in colon + 2 .. Len(buf)
    BY <1>1, <1>2, <1>5
  <2> HIDE DEF colon
  <2> QED BY <2>1, <2>2, FirstFromIs
<1>11. SubSeq(buf, s, colon - 1) = name
  <2>1. s \in 1 .. Len(buf) + 1 /\ colon - 1 \in s - 1 .. Len(buf) /\ colon - 1 - s + 1 = Len(name)
    BY <1>1, <1>2, <1>5
  <2> DEFINE sub == SubSeq(buf, s, colon - 1)
  <2>2. /\ sub \in Seq(Tokens) /\ Len(sub) = colon - 1 - s + 1
        /\ \A i \in 1 .. colon - 1 - s + 1 : sub[i] = buf[s + i - 1]
    <3> HIDE DEF colon
    <3> QED BY <2>1, SubSeqAt
  <2>3. \A i \in 1 .. Len(name) : i \in 1 .. Len(name) + Len(value) + 2
    BY <1>1
  <2> HIDE DEF sub, colon
  <2>4. Len(sub) = Len(name) /\ \A i \in 1 .. Len(sub) : sub[i] = name[i]
    BY <1>1, <1>6, <2>1, <2>2, <2>3
  <2>5. sub = name
    BY <2>2, <2>4, SeqEqual
  <2> QED BY <2>5 DEF sub
<1>12. SubSeq(buf, colon + 2, e - 1) = value
  <2> DEFINE a == colon + 2
             sub == SubSeq(buf, a, e - 1)
  <2>1. a \in 1 .. Len(buf) + 1 /\ e - 1 \in a - 1 .. Len(buf) /\ e - 1 - a + 1 = Len(value)
    BY <1>1, <1>2, <1>5
  <2>2. ASSUME NEW i \in 1 .. Len(value)
        PROVE  /\ Len(name) + 2 + i \in 1 .. Len(name) + Len(value) + 2
               /\ s + (Len(name) + 2 + i) - 1 = a + i - 1
    BY <1>1, <1>2
  <2>3. \A i \in 1 .. Len(value) : buf[a + i - 1] = value[i]
    <3> HIDE DEF a
    <3> QED BY <1>1, <1>6, <2>2
  <2> HIDE DEF a
  <2>4. /\ sub \in Seq(Tokens) /\ Len(sub) = e - 1 - a + 1
        /\ \A i \in 1 .. e - 1 - a + 1 : sub[i] = buf[a + i - 1]
    BY <2>1, SubSeqAt
  <2> HIDE DEF sub
  <2>5. Len(sub) = Len(value) /\ \A i \in 1 .. Len(sub) : sub[i] = value[i]
    BY <2>1, <2>3, <2>4
  <2>6. sub = value
    BY <2>4, <2>5, SeqEqual
  <2> QED BY <2>6 DEF sub, a
<1>13. colon # 0 /\ e # 0
  BY <1>1, <1>2
<1> HIDE DEF colon
<1> QED BY <1>9, <1>10, <1>11, <1>12, <1>13, NextHeaderIs

\* The iterator over a headers builder yields the headers that were added, for any names and
\* values that were accepted: a colon in a value does not end a name, nor anything in it a value.
THEOREM IteratorIsRight == Spec => []IteratorYieldsWhatWasGiven
<1>1. Inv /\ ListInv => IteratorYieldsWhatWasGiven
  <2> DEFINE end == LineEnds(headers)
             StartOf(k) == IF k = 1 THEN 1 ELSE end[k - 1] + 2
             n == Len(given)
  <2> SUFFICES ASSUME Inv, ListInv, state = "headers", source = "new"
               PROVE  /\ \A k \in DOMAIN given :
                            NextHeader(headers, StartOf(k)) = <<given[k], StartOf(k + 1)>>
                      /\ NextHeader(headers, StartOf(n + 1)) = <<>>
    BY Zenon DEF IteratorYieldsWhatWasGiven
  <2>1. /\ headers \in Seq(Tokens) /\ Len(headers) \in Nat
        /\ Ordered(Ends(headers)) /\ Whole(headers) /\ Lines(headers) = GivenLines
    BY LenProperties DEF Inv, TypeInv, ListInv, Whole
  <2>2. n \in Nat /\ DOMAIN given = 1 .. n
    BY LenProperties DEF Inv, TypeInv
  <2> HIDE DEF n
  <2>3. DOMAIN GivenLines = 1 .. n
    BY DEF GivenLines, n
  <2>4. /\ Len(end) = n /\ DOMAIN end = 1 .. n
        /\ \A k \in 1 .. n : end[k] \in 1 .. Len(headers) - 1
    <3>1. /\ Len(end) \in Nat /\ DOMAIN end = 1 .. Len(end)
          /\ \A k \in 1 .. Len(end) : end[k] \in 1 .. Len(headers) - 1
      BY <2>1, LineEndsIn
    <3>2. DOMAIN Lines(headers) = DOMAIN end
      BY LinesAre
    <3> HIDE DEF end
    <3>3. 1 .. Len(end) = 1 .. n
      BY <2>1, <2>3, <3>1, <3>2
    <3>4. Len(end) = n
      <4> DEFINE m == Len(end)
      <4> HIDE DEF m
      <4>1. m \in Nat /\ 1 .. m = 1 .. n
        BY <3>1, <3>3 DEF m
      <4>2. /\ m # 0 => m \in 1 .. n
            /\ n # 0 => n \in 1 .. m
        BY <2>2, <4>1
      <4>3. m = n
        BY <2>2, <4>1, <4>2
      <4> QED BY <4>3 DEF m
    <3> QED BY <3>1, <3>4
  <2>5. ASSUME NEW k \in 1 .. n
        PROVE  NextHeader(headers, StartOf(k)) = <<given[k], StartOf(k + 1)>>
    <3> DEFINE name == given[k].name
               value == given[k].value
               s == StartOf(k)
               e == end[k]
    <3>1. /\ name \in Seq(Tokens) /\ value \in Seq(Tokens)
          /\ given[k] = [name |-> name, value |-> value]
      <4>1. given[k] \in [name : Seq(Tokens), value : Seq(Tokens)]
        BY ElementOfSeq DEF Inv, TypeInv, n
      <4> QED BY <4>1
    <3>2. ValidName(name) /\ ValidValue(value)
      BY DEF Inv, TypeInv, n
    <3>3. SubSeq(headers, s, e - 1) = Field(name, value)
      <4>1. Lines(headers)[k] = SubSeq(headers, s, e - 1)
        BY <2>4, LinesAre
      <4>2. GivenLines[k] = Field(name, value)
        BY DEF GivenLines, n
      <4> QED BY <2>1, <4>1, <4>2
    <3>4. e \in 1 .. Len(headers) - 1 /\ e \in Nat
      BY <2>1, <2>4
    <3>5. headers[e] = "cr"
      <4>1. k \in 1 .. Cardinality(Ends(headers))
        BY <2>1, <2>4, LineEndsAre, NthIs
      <4>2. e \in Ends(headers)
        BY <2>1, <4>1, LineEndsAre, NthIs
      <4> HIDE DEF e
      <4> QED BY <2>1, <4>2, EndsAre DEF IsEnd
    <3>6. s \in Nat /\ s >= 1
      <4>1. CASE k = 1
        BY <4>1
      <4>2. CASE k # 1
        <5>1. k - 1 \in 1 .. n
          BY <2>2, <4>2
        <5>2. end[k - 1] \in 1 .. Len(headers) - 1
          BY <2>4, <5>1
        <5> HIDE DEF end
        <5> QED BY <2>1, <4>2, <5>2
      <4> QED BY <4>1, <4>2
    <3>7. StartOf(k + 1) = e + 2
      <4>1. k + 1 # 1 /\ (k + 1) - 1 = k
        BY <2>2
      <4> QED BY <4>1
    <3> HIDE DEF s, e, name, value
    <3>8. s <= e - 1
      <4> SUFFICES ASSUME ~(s <= e - 1) PROVE FALSE
        OBVIOUS
      <4>1. s \in Int /\ e - 1 \in Int /\ e - 1 < s
        BY <3>4, <3>6
      <4>2. SubSeq(headers, s, e - 1) = <<>>
        BY <4>1, SubSeqEmpty
      <4> QED BY <3>1, <3>3, <4>2, FieldIsNotEmpty
    <3>9. s \in 1 .. Len(headers) /\ s <= e
      BY <2>1, <3>4, <3>6, <3>8
    <3>10. NextHeader(headers, s) = <<[name |-> name, value |-> value], e + 2>>
      BY <2>1, <3>1, <3>2, <3>3, <3>4, <3>5, <3>9, HeaderIsNext
    <3> QED BY <3>1, <3>7, <3>10 DEF s
  <2>6. NextHeader(headers, StartOf(n + 1)) = <<>>
    <3> DEFINE s == StartOf(n + 1)
    <3>1. s = Len(headers) + 1
      <4>1. CASE n = 0
        <5>1. headers = <<>>
          BY <2>4, <4>1 DEF Whole, ListInv
        <5>2. Len(headers) = 0 /\ n + 1 = 1
          BY <4>1, <5>1, EmptySeq
        <5> QED BY <5>2
      <4>2. CASE n # 0
        <5>1. headers # <<>>
          <6>1. n \in 1 .. n
            BY <2>2, <4>2
          <6>2. Len(headers) - 1 >= 1
            BY <2>1, <2>4, <6>1
          <6> QED BY <2>1, <6>2, EmptySeq
        <5>2. end[n] = Len(headers) - 1
          BY <2>1, <2>4, <5>1 DEF Whole
        <5>3. n + 1 # 1 /\ (n + 1) - 1 = n
          BY <2>2, <4>2
        <5> HIDE DEF end
        <5> QED BY <2>1, <5>2, <5>3
      <4> QED BY <4>1, <4>2
    <3> HIDE DEF s
    <3>2. FirstFrom(headers, ":", s) = 0
      <4>1. s .. Len(headers) = {}
        BY <2>1, <3>1
      <4> QED BY <4>1 DEF FirstFrom
    <3> QED BY <3>2, NextHeaderIs DEF s
  <2> QED BY <2>2, <2>5, <2>6
<1> QED BY <1>1, Invariance, ListInvariance, PTL

\* Whatever of the crate reads a buffer again finds in it what the caller gave.
THEOREM ReadBackIsTheSame == Spec => []ReadBackIsWhatWasGiven
<1>1. HyperH1CarriesTheSame /\ HyperH2CarriesTheSame /\ IteratorYieldsWhatWasGiven
        => ReadBackIsWhatWasGiven
  BY Zenon DEF ReadBackIsWhatWasGiven
<1> QED BY <1>1, HyperH1IsTheSame, HyperH2IsTheSame, IteratorIsRight, PTL
=============================================================================
