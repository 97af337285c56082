----------------------- MODULE RegisteredStreamProofs -----------------------
(***************************************************************************)
(* Proofs about RegisteredStream: for any script of either thread, any     *)
(* interval, any failures and interruptions, and a clock of any length.    *)
(***************************************************************************)
EXTENDS RegisteredStream, FiniteSetTheorems, SequenceTheorems, TLAPS

\* What the streams are made of
Marks == Texts \cup {Newline}

\* A write that the real stream has and the copy has not
Owing == {"flag", "observe"}
Places == {"write", "copied", "feeding", "beating"} \cup Owing

Typed ==
    /\ todo \in [Threads -> Seq(Texts)]
    /\ part \in [Threads -> {"text", "newline"}]
    /\ at \in [Threads -> Places]
    /\ real \in Seq(Marks) /\ lost \in Seq(Marks) /\ copy \in Seq(Marks)
    /\ midLine \in BOOLEAN /\ copyOpen \in BOOLEAN

\* Who is in the middle of a print has it still at the head of its list, and the list
\* in whose place the marker is put is empty
Orderly ==
    /\ \A t \in Threads : at[t] # "write" \/ part[t] # "text" => todo[t] # <<>>
    /\ ending = "stopped" => todo["main"] = <<>>

Owed(t, x) == IF at[t] \in Owing THEN Count(Pieces(t), x) ELSE 0

\* The real stream has of each piece what the copy has, what exceptions have cut off,
\* and what the writes in progress owe the copy
Balanced ==
    copyOpen => \A x \in Marks :
        Count(copy, x) + Count(lost, x) + Owed("main", x) + Owed("ray", x) = Count(real, x)

StreamInv == Typed /\ Orderly /\ Balanced

-----------------------------------------------------------------------------
(* The lemmas about counting. *)

LEMMA CountIsNat ==
    ASSUME NEW S, NEW s \in Seq(S), NEW x
    PROVE  Count(s, x) \in Nat
<1>1. DOMAIN s = 1..Len(s) /\ Len(s) \in Nat
  BY LenProperties
<1>2. IsFiniteSet(1..Len(s))
  BY <1>1, FS_Interval
<1>3. {i \in DOMAIN s : s[i] = x} \in SUBSET (1..Len(s))
  BY <1>1
<1> QED BY <1>2, <1>3, FS_Subset, FS_CardinalityType DEF Count

LEMMA CountOfConcat ==
    ASSUME NEW S, NEW s \in Seq(S), NEW u \in Seq(S), NEW x
    PROVE  Count(s \o u, x) = Count(s, x) + Count(u, x)
<1> DEFINE A == {i \in DOMAIN s : s[i] = x}
           B == {i \in DOMAIN u : u[i] = x}
           D == {Len(s) + i : i \in B}
           f == [i \in B |-> Len(s) + i]
<1>1. /\ DOMAIN s = 1..Len(s) /\ Len(s) \in Nat
      /\ DOMAIN u = 1..Len(u) /\ Len(u) \in Nat
  BY LenProperties
<1>2. /\ s \o u \in Seq(S)
      /\ Len(s \o u) = Len(s) + Len(u)
      /\ \A i \in 1..(Len(s) + Len(u)) :
            (s \o u)[i] = IF i <= Len(s) THEN s[i] ELSE u[i - Len(s)]
  BY ConcatProperties
<1>3. {i \in DOMAIN (s \o u) : (s \o u)[i] = x} = A \cup D
  <2>1. DOMAIN (s \o u) = 1..(Len(s) + Len(u))
    BY <1>2, LenProperties
  <2>2. ASSUME NEW i \in DOMAIN (s \o u), (s \o u)[i] = x PROVE i \in A \cup D
    <3>1. CASE i <= Len(s)
      BY <1>1, <1>2, <2>1, <2>2, <3>1
    <3>2. CASE ~(i <= Len(s))
      <4>1. i - Len(s) \in B
        BY <1>1, <1>2, <2>1, <2>2, <3>2
      <4>2. i = Len(s) + (i - Len(s))
        BY <1>1, <2>1
      <4> QED BY <4>1, <4>2
    <3> QED BY <3>1, <3>2
  <2>3. ASSUME NEW i \in A PROVE i \in DOMAIN (s \o u) /\ (s \o u)[i] = x
    BY <1>1, <1>2, <2>1
  <2>4. ASSUME NEW j \in B PROVE Len(s) + j \in DOMAIN (s \o u) /\ (s \o u)[Len(s) + j] = x
    <3>1. j \in 1..Len(u) /\ u[j] = x
      BY <1>1
    <3>2. Len(s) + j \in 1..(Len(s) + Len(u)) /\ ~(Len(s) + j <= Len(s)) /\ (Len(s) + j) - Len(s) = j
      BY <1>1, <3>1
    <3> HIDE DEF B
    <3> QED BY <1>2, <2>1, <3>1, <3>2
  <2> HIDE DEF A, B
  <2> QED BY <2>2, <2>3, <2>4
<1>4. IsFiniteSet(A) /\ IsFiniteSet(B)
  <2>1. IsFiniteSet(1..Len(s)) /\ IsFiniteSet(1..Len(u))
    BY <1>1, FS_Interval
  <2>2. A \in SUBSET (1..Len(s)) /\ B \in SUBSET (1..Len(u))
    BY <1>1
  <2> HIDE DEF A, B
  <2> QED BY <2>1, <2>2, FS_Subset
<1>5. f \in Bijection(B, D)
  <2>1. B \subseteq Nat
    BY <1>1
  <2> HIDE DEF B
  <2>2. f \in Injection(B, D)
    BY <1>1, <2>1 DEF Injection, IsInjective
  <2>3. f \in Surjection(B, D)
    BY <1>1, <2>1 DEF Surjection
  <2> QED BY <2>2, <2>3 DEF Bijection
<1>6. IsFiniteSet(D) /\ Cardinality(D) = Cardinality(B)
  <2>1. ExistsBijection(B, D)
    BY <1>5 DEF ExistsBijection
  <2> HIDE DEF B, D
  <2> QED BY <1>4, <2>1, FS_Bijection
<1>7. A \cap D = {}
  BY <1>1
<1>8. Cardinality(A \cup D) = Cardinality(A) + Cardinality(D)
  <2> HIDE DEF A, D
  <2>1. Cardinality(A) \in Nat /\ Cardinality(D) \in Nat
    BY <1>4, <1>6, FS_CardinalityType
  <2>2. Cardinality(A \cup D) = Cardinality(A) + Cardinality(D) - Cardinality(A \cap D)
    BY <1>4, <1>6, FS_Union
  <2>3. Cardinality(A \cap D) = 0
    BY <1>7, FS_EmptySet
  <2> QED BY <2>1, <2>2, <2>3
<1> QED BY <1>3, <1>6, <1>8 DEF Count

LEMMA CountOfNothing == \A x : Count(<<>>, x) = 0
<1>1. \A x : {i \in DOMAIN <<>> : <<>>[i] = x} = {}
  BY EmptySeq
<1> QED BY <1>1, FS_EmptySet DEF Count

-----------------------------------------------------------------------------
(* The steps. *)

LEMMA PiecesAreMarks ==
    ASSUME Typed, NEW t \in Threads, todo[t] # <<>>
    PROVE  Pieces(t) \in Seq(Marks)
<1>1. Head(todo[t]) \in Texts
  BY HeadTailProperties DEF Typed
<1>2. Newline \in Marks /\ Head(todo[t]) \in Marks
  BY <1>1 DEF Marks
<1>3. \A a, b \in Marks : <<a>> \in Seq(Marks) /\ <<a, b>> \in Seq(Marks)
  OBVIOUS
<1> QED BY <1>2, <1>3 DEF Pieces

LEMMA OwedIsNat ==
    ASSUME Typed, Orderly, NEW t \in Threads, NEW x
    PROVE  Owed(t, x) \in Nat
<1>1. CASE at[t] \in Owing
  BY <1>1, PiecesAreMarks, CountIsNat DEF Owed, Orderly, Owing
<1>2. CASE at[t] \notin Owing
  BY <1>2 DEF Owed
<1> QED BY <1>1, <1>2

\* A step of one thread that gives the copy, the losses and its own debt together what
\* it gives the real stream
LEMMA BalanceKeeps ==
    ASSUME Typed, Orderly, Balanced, Typed', Orderly', NEW t \in Threads,
           \A u \in Threads \ {t} : at'[u] = at[u] /\ part'[u] = part[u] /\ todo'[u] = todo[u],
           copyOpen' => /\ copyOpen
                        /\ \A x \in Marks :
                              Count(copy', x) + Count(lost', x) + Owed(t, x)' + Count(real, x)
                            = Count(copy, x) + Count(lost, x) + Owed(t, x) + Count(real', x)
    PROVE  Balanced'
<1> SUFFICES ASSUME copyOpen', NEW x \in Marks
    PROVE  Count(copy', x) + Count(lost', x) + Owed("main", x)' + Owed("ray", x)' = Count(real', x)
  BY DEF Balanced
<1>1. Count(copy, x) + Count(lost, x) + Owed("main", x) + Owed("ray", x) = Count(real, x)
  BY DEF Balanced
<1>2. /\ Count(copy, x) \in Nat /\ Count(lost, x) \in Nat /\ Count(real, x) \in Nat
      /\ Count(copy', x) \in Nat /\ Count(lost', x) \in Nat /\ Count(real', x) \in Nat
  BY CountIsNat DEF Typed
<1>3. \A u \in Threads : Owed(u, x) \in Nat
  BY OwedIsNat
<1>4. \A u \in Threads : Owed(u, x)' \in Nat
  <2>1. \A u \in Threads : at'[u] \in Owing => (Pieces(u) \in Seq(Marks))'
    <3> SUFFICES ASSUME NEW u \in Threads, at'[u] \in Owing PROVE (Pieces(u) \in Seq(Marks))'
      OBVIOUS
    <3>1. todo'[u] # <<>>
      BY DEF Orderly, Owing
    <3>2. Head(todo'[u]) \in Texts
      BY <3>1, HeadTailProperties DEF Typed
    <3>3. Newline \in Marks /\ Head(todo'[u]) \in Marks
      BY <3>2 DEF Marks
    <3>4. \A a, b \in Marks : <<a>> \in Seq(Marks) /\ <<a, b>> \in Seq(Marks)
      OBVIOUS
    <3> QED BY <3>3, <3>4 DEF Pieces
  <2> QED BY <2>1, CountIsNat DEF Owed
<1>5. \A u \in Threads \ {t} : Owed(u, x)' = Owed(u, x)
  BY DEF Owed, Pieces
<1>6. Count(copy', x) + Count(lost', x) + Owed(t, x)' + Count(real, x)
        = Count(copy, x) + Count(lost, x) + Owed(t, x) + Count(real', x)
  OBVIOUS
<1>7. Threads = {"main", "ray"}
  BY DEF Threads
<1>8. CASE t = "main"
  <2>1. Owed("ray", x)' = Owed("ray", x)
    BY <1>5, <1>7, <1>8
  <2>2. /\ Owed("main", x) \in Nat /\ Owed("ray", x) \in Nat /\ Owed("main", x)' \in Nat
    BY <1>3, <1>4, <1>7
  <2>3. Count(copy', x) + Count(lost', x) + Owed("main", x)' + Count(real, x)
          = Count(copy, x) + Count(lost, x) + Owed("main", x) + Count(real', x)
    BY <1>6, <1>8
  <2> QED BY <1>1, <1>2, <2>1, <2>2, <2>3
<1>9. CASE t = "ray"
  <2>1. Owed("main", x)' = Owed("main", x)
    BY <1>5, <1>7, <1>9
  <2>2. /\ Owed("main", x) \in Nat /\ Owed("ray", x) \in Nat /\ Owed("ray", x)' \in Nat
    BY <1>3, <1>4, <1>7
  <2>3. Count(copy', x) + Count(lost', x) + Owed("ray", x)' + Count(real, x)
          = Count(copy, x) + Count(lost, x) + Owed("ray", x) + Count(real', x)
    BY <1>6, <1>9
  <2> QED BY <1>1, <1>2, <2>1, <2>2, <2>3
<1> QED BY <1>7, <1>8, <1>9

\* A step of a thread that owes nothing before and after it and leaves the streams alone
LEMMA NoDebtKeeps ==
    ASSUME StreamInv, NEW t \in Threads, UNCHANGED streams, Typed', Orderly',
           \A u \in Threads \ {t} : at'[u] = at[u] /\ part'[u] = part[u] /\ todo'[u] = todo[u],
           at[t] \notin Owing, at'[t] \notin Owing
    PROVE  StreamInv'
<1>1. \A x : Owed(t, x) = 0 /\ Owed(t, x)' = 0
  BY DEF Owed
<1>2. copyOpen' = copyOpen /\ real' = real /\ lost' = lost /\ copy' = copy
  BY DEF streams
<1>3. \A x \in Marks : Count(copy', x) + Count(lost', x) + Owed(t, x)' + Count(real, x)
        = Count(copy, x) + Count(lost, x) + Owed(t, x) + Count(real', x)
  BY <1>1, <1>2
<1>4. Balanced'
  BY <1>2, <1>3, BalanceKeeps DEF StreamInv
<1> QED BY <1>4 DEF StreamInv

\* How the ends of a write and of a print move a thread
LEMMA MoveKeeps ==
    ASSUME StreamInv, NEW t \in Threads, NEW q \in Places, Move(t, q), at[t] # "write" \/ todo[t] # <<>>
    PROVE  /\ todo' \in [Threads -> Seq(Texts)] /\ part' \in [Threads -> {"text", "newline"}]
           /\ at' \in [Threads -> Places]
           /\ \A u \in Threads : at'[u] # "write" \/ part'[u] # "text" => todo'[u] # <<>>
           /\ todo' = todo /\ part' = part /\ at'[t] = q
           /\ \A u \in Threads \ {t} : at'[u] = at[u] /\ part'[u] = part[u] /\ todo'[u] = todo[u]
BY DEF Move, StreamInv, Typed, Orderly

LEMMA ReturnKeeps ==
    ASSUME StreamInv, NEW t \in Threads, Return(t), at[t] # "write"
    PROVE  /\ todo' \in [Threads -> Seq(Texts)] /\ part' \in [Threads -> {"text", "newline"}]
           /\ at' \in [Threads -> Places]
           /\ \A u \in Threads : at'[u] # "write" \/ part'[u] # "text" => todo'[u] # <<>>
           /\ at'[t] = "write"
           /\ \A u \in Threads \ {t} : at'[u] = at[u] /\ part'[u] = part[u] /\ todo'[u] = todo[u]
<1>1. todo[t] # <<>> /\ Tail(todo[t]) \in Seq(Texts)
  BY HeadTailProperties DEF StreamInv, Typed, Orderly
<1>2. /\ at' = [at EXCEPT ![t] = "write"]
      /\ \/ part[t] = "text" /\ part' = [part EXCEPT ![t] = "newline"] /\ todo' = todo
         \/ /\ part[t] = "newline" /\ part' = [part EXCEPT ![t] = "text"]
            /\ todo' = [todo EXCEPT ![t] = Tail(todo[t])]
  <2>1. part[t] \in {"text", "newline"}
    BY DEF StreamInv, Typed
  <2>2. [todo EXCEPT ![t] = todo[t]] = todo
    BY DEF StreamInv, Typed
  <2> QED BY <2>1, <2>2 DEF Return
<1> QED BY <1>1, <1>2 DEF StreamInv, Typed, Orderly, Places

LEMMA AbandonKeeps ==
    ASSUME StreamInv, NEW t \in Threads, Abandon(t), todo[t] # <<>>
    PROVE  /\ todo' \in [Threads -> Seq(Texts)] /\ part' \in [Threads -> {"text", "newline"}]
           /\ at' \in [Threads -> Places]
           /\ \A u \in Threads : at'[u] # "write" \/ part'[u] # "text" => todo'[u] # <<>>
           /\ at'[t] = "write" /\ (t = "main" => todo'[t] = <<>>)
           /\ \A u \in Threads \ {t} : at'[u] = at[u] /\ part'[u] = part[u] /\ todo'[u] = todo[u]
<1>1. Tail(todo[t]) \in Seq(Texts) /\ <<>> \in Seq(Texts)
  BY HeadTailProperties, EmptySeq DEF StreamInv, Typed
<1> QED BY <1>1 DEF Abandon, StreamInv, Typed, Orderly, Places

\* A write of which the real stream has more is owed to the copy
LEMMA RealWriteKeeps ==
    ASSUME StreamInv, NEW t \in Threads, RealWrite(t)
    PROVE  StreamInv'
<1>1. /\ at[t] = "write" /\ todo[t] # <<>> /\ copy' = copy /\ copyOpen' = copyOpen /\ lost' = lost
      /\ ending' = ending /\ midLine' = midLine /\ real' = real \o Pieces(t) /\ Move(t, "flag")
  BY DEF RealWrite
<1>2. Pieces(t) \in Seq(Marks)
  BY <1>1, PiecesAreMarks DEF StreamInv
<1>3. "flag" \in Places /\ "flag" \in Owing
  BY DEF Places, Owing
<1>4. /\ todo' = todo /\ part' = part /\ at'[t] = "flag"
      /\ \A u \in Threads \ {t} : at'[u] = at[u] /\ part'[u] = part[u] /\ todo'[u] = todo[u]
  BY <1>1, <1>3, MoveKeeps
<1>5. Typed'
  BY <1>1, <1>2, <1>3, MoveKeeps, ConcatProperties DEF StreamInv, Typed
<1>6. Orderly'
  BY <1>1, <1>3, <1>4, MoveKeeps DEF StreamInv, Orderly
<1>7. \A x \in Marks : Count(real', x) = Count(real, x) + Count(Pieces(t), x)
  BY <1>1, <1>2, CountOfConcat DEF StreamInv, Typed
<1>8. \A x : Owed(t, x) = 0 /\ Owed(t, x)' = Count(Pieces(t), x)
  BY <1>1, <1>3, <1>4 DEF Owed, Owing, Pieces
<1>9. \A x \in Marks : Count(copy', x) + Count(lost', x) + Owed(t, x)' + Count(real, x)
        = Count(copy, x) + Count(lost, x) + Owed(t, x) + Count(real', x)
  <2> SUFFICES ASSUME NEW x \in Marks
      PROVE  Count(copy', x) + Count(lost', x) + Owed(t, x)' + Count(real, x)
               = Count(copy, x) + Count(lost, x) + Owed(t, x) + Count(real', x)
    OBVIOUS
  <2>1. /\ Count(copy, x) \in Nat /\ Count(lost, x) \in Nat /\ Count(real, x) \in Nat
        /\ Count(Pieces(t), x) \in Nat
    BY <1>2, CountIsNat DEF StreamInv, Typed
  <2> QED BY <1>1, <1>7, <1>8, <2>1
<1>10. Balanced'
  BY <1>1, <1>4, <1>5, <1>6, <1>9, BalanceKeeps DEF StreamInv
<1> QED BY <1>5, <1>6, <1>10 DEF StreamInv

\* What the stream took before it raised is lost to the copy
LEMMA RealWriteRaisesKeeps ==
    ASSUME StreamInv, NEW t \in Threads, RealWriteRaises(t)
    PROVE  StreamInv'
<1>1. /\ at[t] = "write" /\ todo[t] # <<>> /\ copy' = copy /\ copyOpen' = copyOpen
      /\ ending' = ending /\ midLine' = midLine /\ Abandon(t)
      /\ \/ real' = real /\ lost' = lost
         \/ real' = real \o Pieces(t) /\ lost' = lost \o Pieces(t)
  BY DEF RealWriteRaises
<1>2. Pieces(t) \in Seq(Marks)
  BY <1>1, PiecesAreMarks DEF StreamInv
<1>3. /\ at'[t] = "write" /\ (t = "main" => todo'[t] = <<>>)
      /\ \A u \in Threads \ {t} : at'[u] = at[u] /\ part'[u] = part[u] /\ todo'[u] = todo[u]
  BY <1>1, AbandonKeeps
<1>4. real' \in Seq(Marks) /\ lost' \in Seq(Marks)
  BY <1>1, <1>2, ConcatProperties DEF StreamInv, Typed
<1>5. Typed'
  BY <1>1, <1>4, AbandonKeeps DEF StreamInv, Typed
<1>6. Orderly'
  BY <1>1, <1>3, AbandonKeeps DEF StreamInv, Orderly, Threads
<1>7. \A x : Owed(t, x) = 0 /\ Owed(t, x)' = 0
  BY <1>1, <1>3 DEF Owed, Owing
<1>8. \A x \in Marks : Count(copy', x) + Count(lost', x) + Owed(t, x)' + Count(real, x)
        = Count(copy, x) + Count(lost, x) + Owed(t, x) + Count(real', x)
  <2> SUFFICES ASSUME NEW x \in Marks
      PROVE  Count(copy', x) + Count(lost', x) + Owed(t, x)' + Count(real, x)
               = Count(copy, x) + Count(lost, x) + Owed(t, x) + Count(real', x)
    OBVIOUS
  <2>1. /\ Count(copy, x) \in Nat /\ Count(lost, x) \in Nat /\ Count(real, x) \in Nat
        /\ Count(Pieces(t), x) \in Nat
    BY <1>2, CountIsNat DEF StreamInv, Typed
  <2>2. /\ Count(real \o Pieces(t), x) = Count(real, x) + Count(Pieces(t), x)
        /\ Count(lost \o Pieces(t), x) = Count(lost, x) + Count(Pieces(t), x)
    BY <1>2, CountOfConcat DEF StreamInv, Typed
  <2>3. CASE real' = real /\ lost' = lost
    BY <1>1, <1>7, <2>3
  <2>4. CASE real' = real \o Pieces(t) /\ lost' = lost \o Pieces(t)
    <3>1. /\ Count(real', x) = Count(real, x) + Count(Pieces(t), x)
          /\ Count(lost', x) = Count(lost, x) + Count(Pieces(t), x)
          /\ Count(copy', x) = Count(copy, x) /\ Owed(t, x) = 0 /\ Owed(t, x)' = 0
      BY <1>1, <1>7, <2>2, <2>4
    <3> QED BY <2>1, <3>1
  <2> QED BY <1>1, <2>3, <2>4
<1>9. Balanced'
  BY <1>1, <1>3, <1>5, <1>6, <1>8, BalanceKeeps DEF StreamInv
<1> QED BY <1>5, <1>6, <1>9 DEF StreamInv

LEMMA SetMidLineKeeps ==
    ASSUME StreamInv, NEW t \in Threads, SetMidLine(t)
    PROVE  StreamInv'
<1>1. /\ at[t] = "flag" /\ copy' = copy /\ copyOpen' = copyOpen /\ real' = real /\ lost' = lost
      /\ ending' = ending /\ midLine' \in BOOLEAN /\ Move(t, "observe")
  BY DEF SetMidLine
<1>2. "observe" \in Places /\ "flag" \in Owing /\ "observe" \in Owing
  BY DEF Places, Owing
<1>3. /\ todo' = todo /\ part' = part /\ at'[t] = "observe"
      /\ \A u \in Threads \ {t} : at'[u] = at[u] /\ part'[u] = part[u] /\ todo'[u] = todo[u]
  BY <1>1, <1>2, MoveKeeps
<1>4. Typed' /\ Orderly'
  BY <1>1, <1>2, <1>3, MoveKeeps DEF StreamInv, Typed, Orderly
<1>5. \A x : Owed(t, x)' = Owed(t, x)
  BY <1>1, <1>2, <1>3 DEF Owed, Pieces
<1>6. \A x \in Marks : Count(copy', x) + Count(lost', x) + Owed(t, x)' + Count(real, x)
        = Count(copy, x) + Count(lost, x) + Owed(t, x) + Count(real', x)
  BY <1>1, <1>5
<1>7. Balanced'
  BY <1>1, <1>3, <1>4, <1>6, BalanceKeeps DEF StreamInv
<1> QED BY <1>4, <1>7 DEF StreamInv

\* The copy gets what it was owed, unless it fails and is dropped
LEMMA ObserveKeeps ==
    ASSUME StreamInv, NEW t \in Threads, Observe(t)
    PROVE  StreamInv'
<1>1. /\ at[t] = "observe" /\ real' = real /\ lost' = lost /\ midLine' = midLine /\ ending' = ending
      /\ Copy(t) /\ (Move(t, "copied") \/ Return(t))
  BY DEF Observe
<1>2. todo[t] # <<>> /\ "copied" \in Places /\ "observe" \in Owing
  BY <1>1 DEF StreamInv, Orderly, Places, Owing
<1>3. /\ todo' \in [Threads -> Seq(Texts)] /\ part' \in [Threads -> {"text", "newline"}]
      /\ at' \in [Threads -> Places]
      /\ \A u \in Threads : at'[u] # "write" \/ part'[u] # "text" => todo'[u] # <<>>
      /\ at'[t] \in {"copied", "write"}
      /\ \A u \in Threads \ {t} : at'[u] = at[u] /\ part'[u] = part[u] /\ todo'[u] = todo[u]
  <2>1. CASE Move(t, "copied")
    BY <1>1, <1>2, <2>1, MoveKeeps
  <2>2. CASE Return(t)
    BY <1>1, <2>2, ReturnKeeps
  <2> QED BY <1>1, <2>1, <2>2
<1>4. Pieces(t) \in Seq(Marks)
  BY <1>2, PiecesAreMarks DEF StreamInv
<1>5. \/ copyOpen /\ copyOpen' = copyOpen /\ copy' = copy \o Pieces(t)
      \/ ~copyOpen /\ copyOpen' = copyOpen /\ copy' = copy
      \/ copyOpen' = FALSE /\ copy' = copy
  <2>1. CASE copyOpen
    BY <1>1, <2>1, Zenon DEF Copy
  <2>2. CASE ~copyOpen
    BY <1>1, <2>2, Zenon DEF Copy
  <2> QED BY <2>1, <2>2
<1>6. Typed'
  <2>1. copy' \in Seq(Marks)
    <3>1. copy \in Seq(Marks) /\ copy \o Pieces(t) \in Seq(Marks)
      BY <1>4, ConcatProperties DEF StreamInv, Typed
    <3> QED BY <1>5, <3>1
  <2>2. copyOpen' \in BOOLEAN
    BY <1>5 DEF StreamInv, Typed
  <2> QED BY <1>1, <1>3, <2>1, <2>2 DEF StreamInv, Typed
<1>7. Orderly'
  <2>1. ending = "stopped" => t # "main"
    BY <1>2 DEF StreamInv, Orderly
  <2> QED BY <1>1, <1>3, <2>1 DEF StreamInv, Orderly, Threads
<1>8. \A x : Owed(t, x) = Count(Pieces(t), x) /\ Owed(t, x)' = 0
  BY <1>1, <1>2, <1>3 DEF Owed, Owing
<1>9. copyOpen' => /\ copyOpen
                   /\ \A x \in Marks :
                         Count(copy', x) + Count(lost', x) + Owed(t, x)' + Count(real, x)
                       = Count(copy, x) + Count(lost, x) + Owed(t, x) + Count(real', x)
  <2> SUFFICES ASSUME copyOpen', NEW x \in Marks
      PROVE  /\ copyOpen
             /\ Count(copy', x) + Count(lost', x) + Owed(t, x)' + Count(real, x)
                  = Count(copy, x) + Count(lost, x) + Owed(t, x) + Count(real', x)
    BY <1>5
  <2>1. copyOpen /\ copy' = copy \o Pieces(t)
    BY <1>5
  <2>2. /\ Count(copy, x) \in Nat /\ Count(lost, x) \in Nat /\ Count(real, x) \in Nat
        /\ Count(Pieces(t), x) \in Nat
    BY <1>4, CountIsNat DEF StreamInv, Typed
  <2>3. Count(copy \o Pieces(t), x) = Count(copy, x) + Count(Pieces(t), x)
    BY <1>4, CountOfConcat DEF StreamInv, Typed
  <2> QED BY <1>1, <1>8, <2>1, <2>2, <2>3
<1>10. Balanced'
  BY <1>3, <1>6, <1>7, <1>9, BalanceKeeps DEF StreamInv
<1> QED BY <1>6, <1>7, <1>10 DEF StreamInv

\* The rest of _observe is done when nothing is owed any more
LEMMA BookkeepingKeeps ==
    ASSUME StreamInv, NEW t \in Threads,
           TakeLines(t) \/ FeedLine(t) \/ Throttle(t) \/ Heartbeat(t)
    PROVE  StreamInv'
<1>1. /\ at[t] \in {"copied", "feeding", "beating"} /\ UNCHANGED streams /\ ending' = ending
      /\ (\E q \in {"feeding", "beating"} : Move(t, q)) \/ Return(t) \/ UNCHANGED program
  BY DEF TakeLines, FeedLine, Throttle, Heartbeat
<1>2. /\ todo' \in [Threads -> Seq(Texts)] /\ part' \in [Threads -> {"text", "newline"}]
      /\ at' \in [Threads -> Places]
      /\ \A u \in Threads : at'[u] # "write" \/ part'[u] # "text" => todo'[u] # <<>>
      /\ at'[t] \in {"copied", "feeding", "beating", "write"}
      /\ \A u \in Threads \ {t} : at'[u] = at[u] /\ part'[u] = part[u] /\ todo'[u] = todo[u]
  <2>1. ASSUME NEW q \in {"feeding", "beating"}, Move(t, q)
        PROVE  /\ todo' \in [Threads -> Seq(Texts)] /\ part' \in [Threads -> {"text", "newline"}]
               /\ at' \in [Threads -> Places]
               /\ \A u \in Threads : at'[u] # "write" \/ part'[u] # "text" => todo'[u] # <<>>
               /\ at'[t] \in {"copied", "feeding", "beating", "write"}
               /\ \A u \in Threads \ {t} : at'[u] = at[u] /\ part'[u] = part[u] /\ todo'[u] = todo[u]
    <3>1. q \in Places /\ at[t] # "write"
      BY <1>1 DEF Places
    <3> QED BY <2>1, <3>1, MoveKeeps
  <2>2. CASE Return(t)
    BY <1>1, <2>2, ReturnKeeps
  <2>3. CASE UNCHANGED program
    BY <1>1, <2>3 DEF program, StreamInv, Typed, Orderly
  <2> QED BY <1>1, <2>1, <2>2, <2>3
<1>3. Typed'
  BY <1>1, <1>2 DEF streams, StreamInv, Typed
<1>4. Orderly'
  <2>1. ending = "stopped" => t # "main"
    BY <1>1 DEF StreamInv, Orderly
  <2> QED BY <1>1, <1>2, <2>1 DEF StreamInv, Orderly, Threads
<1>5. at[t] \notin Owing /\ at'[t] \notin Owing
  BY <1>1, <1>2 DEF Owing
<1> QED BY <1>1, <1>2, <1>3, <1>4, <1>5, NoDebtKeeps

\* What the main thread owed when the handler raised is lost to the copy
LEMMA InterruptKeeps == StreamInv /\ Interrupt => StreamInv'
<1> SUFFICES ASSUME StreamInv, Interrupt PROVE StreamInv'
  OBVIOUS
<1>0. "main" \in Threads
  BY DEF Threads
<1>1. /\ todo["main"] # <<>> /\ Abandon("main")
      /\ real' = real /\ midLine' = midLine /\ copy' = copy /\ copyOpen' = copyOpen
      /\ ending' = ending
      /\ lost' = IF at["main"] \in Owing THEN lost \o Pieces("main") ELSE lost
  BY DEF Interrupt, Owing
<1>2. Pieces("main") \in Seq(Marks)
  BY <1>0, <1>1, PiecesAreMarks DEF StreamInv
<1>3. /\ at'["main"] = "write" /\ todo'["main"] = <<>>
      /\ \A u \in Threads \ {"main"} : at'[u] = at[u] /\ part'[u] = part[u] /\ todo'[u] = todo[u]
  BY <1>0, <1>1, AbandonKeeps
<1>4. lost' \in Seq(Marks)
  BY <1>1, <1>2, ConcatProperties DEF StreamInv, Typed
<1>5. Typed' /\ Orderly'
  BY <1>0, <1>1, <1>3, <1>4, AbandonKeeps DEF StreamInv, Typed, Orderly
<1>6. \A x \in Marks : Count(copy', x) + Count(lost', x) + Owed("main", x)' + Count(real, x)
        = Count(copy, x) + Count(lost, x) + Owed("main", x) + Count(real', x)
  <2> SUFFICES ASSUME NEW x \in Marks
      PROVE  Count(copy', x) + Count(lost', x) + Owed("main", x)' + Count(real, x)
               = Count(copy, x) + Count(lost, x) + Owed("main", x) + Count(real', x)
    OBVIOUS
  <2>1. /\ Count(copy, x) \in Nat /\ Count(lost, x) \in Nat /\ Count(real, x) \in Nat
        /\ Count(Pieces("main"), x) \in Nat
    BY <1>2, CountIsNat DEF StreamInv, Typed
  <2>2. Count(lost \o Pieces("main"), x) = Count(lost, x) + Count(Pieces("main"), x)
    BY <1>2, CountOfConcat DEF StreamInv, Typed
  <2>3. Owed("main", x)' = 0
    BY <1>3 DEF Owed, Owing
  <2> QED BY <1>1, <2>1, <2>2, <2>3 DEF Owed
<1>7. Balanced'
  BY <1>0, <1>1, <1>3, <1>5, <1>6, BalanceKeeps DEF StreamInv
<1> QED BY <1>5, <1>7 DEF StreamInv

\* The marker is put in the place of an empty list: nothing that was printed is lost
LEMMA PrintMarkerKeeps == StreamInv /\ PrintMarker => StreamInv'
<1> SUFFICES ASSUME StreamInv, PrintMarker PROVE StreamInv'
  OBVIOUS
<1> DEFINE marker == [ExitMarker EXCEPT !.newlineFirst = midLine]
<1>0. "main" \in Threads
  BY DEF Threads
<1>1. /\ todo["main"] = <<>> /\ at' = at /\ part' = part /\ ending' = "marker"
      /\ todo' = [todo EXCEPT !["main"] = <<marker>>] /\ UNCHANGED streams
  BY DEF PrintMarker, StreamInv, Orderly
<1>2. marker \in Texts
  BY DEF ExitMarker, Texts, Kinds, StreamInv, Typed
<1> HIDE DEF marker
<1>3. <<marker>> \in Seq(Texts) /\ <<marker>> # <<>>
  BY <1>2
<1>4. Typed'
  BY <1>0, <1>1, <1>3 DEF streams, StreamInv, Typed
<1>5. Orderly'
  BY <1>0, <1>1, <1>3 DEF StreamInv, Typed, Orderly
<1>6. at["main"] \notin Owing /\ at'["main"] \notin Owing
  BY <1>0, <1>1 DEF StreamInv, Orderly, Owing
<1>7. \A u \in Threads \ {"main"} : at'[u] = at[u] /\ part'[u] = part[u] /\ todo'[u] = todo[u]
  BY <1>1 DEF StreamInv, Typed
<1> QED BY <1>0, <1>1, <1>4, <1>5, <1>6, <1>7, NoDebtKeeps

\* The other steps print nothing
LEMMA QuietStepsKeep ==
    ASSUME StreamInv, StopBeating \/ CloseCopy \/ Tick \/ UNCHANGED vars
    PROVE  StreamInv'
<1>1. /\ todo' = todo /\ part' = part /\ at' = at /\ real' = real /\ lost' = lost /\ copy' = copy
      /\ midLine' = midLine
      /\ copyOpen' = copyOpen \/ copyOpen' = FALSE
      /\ ending' = "stopped" => todo["main"] = <<>>
  BY DEF StopBeating, CloseCopy, Tick, vars, program, streams, StreamInv, Orderly
<1>2. Typed' /\ Orderly'
  BY <1>1 DEF StreamInv, Typed, Orderly
<1>3. \A t \in Threads : \A x : Owed(t, x)' = Owed(t, x)
  BY <1>1 DEF Owed, Pieces
<1>4. Balanced'
  BY <1>1, <1>3 DEF StreamInv, Balanced, Threads
<1> QED BY <1>2, <1>4 DEF StreamInv

LEMMA StreamInvariant == Spec => []StreamInv
<1>1. Init => StreamInv
  <2> SUFFICES ASSUME Init PROVE StreamInv
    OBVIOUS
  <2>1. Typed /\ Orderly
    BY StreamAssumption, EmptySeq DEF Init, Typed, Orderly, Places, Threads
  <2>2. \A t \in Threads : \A x : Owed(t, x) = 0
    BY DEF Init, Owed, Owing
  <2>3. Balanced
    BY <2>2, CountOfNothing DEF Init, Balanced, Threads
  <2> QED BY <2>1, <2>3 DEF StreamInv
<1>2. StreamInv /\ [Next]_vars => StreamInv'
  BY RealWriteKeeps, RealWriteRaisesKeeps, SetMidLineKeeps, ObserveKeeps, BookkeepingKeeps,
     InterruptKeeps, PrintMarkerKeeps, QuietStepsKeep DEF Next, Write
<1> QED BY <1>1, <1>2, PTL DEF Spec

(***************************************************************************)
(* A copy that never failed lacks, when nobody is printing, what an        *)
(* exception cut off after the real write, and nothing else, for any two   *)
(* scripts, any interleaving of the writes and any point at which a        *)
(* handler raises: what is in one stream and not in the other is always    *)
(* what the two threads are in the middle of, or what was cut off.         *)
(***************************************************************************)
THEOREM CopyIsAlwaysComplete == Spec => []CopyIsComplete
<1>1. StreamInv => CopyIsComplete
  <2> SUFFICES ASSUME StreamInv, Quiet, copyOpen, NEW x,
                      x \in {real[i] : i \in DOMAIN real} \cup {copy[i] : i \in DOMAIN copy}
      PROVE  Count(copy, x) + Count(lost, x) = Count(real, x)
    BY DEF CopyIsComplete
  <2>1. x \in Marks
    BY ElementOfSeq, LenProperties DEF StreamInv, Typed
  <2>2. \A t \in Threads : Owed(t, x) = 0
    BY DEF Owed, Quiet, Owing, StreamInv, Orderly
  <2>3. Count(copy, x) + Count(lost, x) + 0 + 0 = Count(real, x)
    BY <2>1, <2>2 DEF StreamInv, Balanced, Threads
  <2> QED BY <2>3, CountIsNat DEF StreamInv, Typed
<1> QED BY <1>1, StreamInvariant, PTL

-----------------------------------------------------------------------------
(* The heartbeat. *)

\* Only one thread at a time is past the copy
Exclusive == \A t, u \in Locked : t = u

\* What the throttle compares with is the time that is in status.json, and the stage that
\* was written last is the one that the tracker has, or is known to have changed
Fresh ==
    /\ at \in [Threads -> Places]
    /\ now \in Nat /\ lastBeat \in Nat /\ lastLine \in Nat /\ status.at \in Nat
    /\ lastBeat <= now
    /\ lastLine - lastBeat < Interval
    /\ ~missed =>
          /\ (\A t \in Threads : at[t] # "beating") => lastBeat <= status.at
          /\ \/ status.stage = stage
             \/ changed /\ \E t \in Threads : at[t] = "feeding"
             \/ \E t \in Threads : at[t] = "beating"

HeartInv == Exclusive /\ Fresh

\* The lock: who takes it finds nobody in it
LEMMA ExclusiveKeeps == HeartInv /\ [Next]_vars => Exclusive'
<1> SUFFICES ASSUME HeartInv, [Next]_vars PROVE Exclusive'
  OBVIOUS
<1>1. ASSUME NEW t \in Threads, Observe(t) PROVE Exclusive'
  <2>1. Locked = {} /\ (at' = [at EXCEPT ![t] = "copied"] \/ at' = [at EXCEPT ![t] = "write"])
    BY <1>1 DEF Observe, Move, Return
  <2>2. \A u \in Threads \ {t} : at'[u] = at[u]
    BY <2>1 DEF HeartInv, Fresh
  <2> QED BY <2>1, <2>2 DEF Exclusive, Locked
<1>2. ASSUME NEW t \in Threads,
             TakeLines(t) \/ FeedLine(t) \/ Throttle(t) \/ Heartbeat(t) \/ RealWrite(t)
               \/ RealWriteRaises(t) \/ SetMidLine(t)
      PROVE  Exclusive'
  <2>1. \/ at' = at
        \/ t \in Locked /\ \E q : at' = [at EXCEPT ![t] = q]
        \/ \E q \in {"flag", "observe", "write"} : at' = [at EXCEPT ![t] = q]
    BY <1>2 DEF TakeLines, FeedLine, Throttle, Heartbeat, RealWrite, RealWriteRaises, SetMidLine,
                Move, Return, Abandon, program, Locked
  <2>2. Locked' \subseteq Locked
    <3>1. CASE at' = at
      BY <3>1 DEF Locked
    <3>2. ASSUME t \in Locked, NEW q, at' = [at EXCEPT ![t] = q] PROVE Locked' \subseteq Locked
      BY <3>2 DEF Locked, HeartInv, Fresh
    <3>3. ASSUME NEW q \in {"flag", "observe", "write"}, at' = [at EXCEPT ![t] = q]
          PROVE  Locked' \subseteq Locked
      BY <3>3 DEF Locked, HeartInv, Fresh
    <3> QED BY <2>1, <3>1, <3>2, <3>3
  <2> QED BY <2>2 DEF HeartInv, Exclusive
<1>3. CASE Interrupt
  <2>1. at' = [at EXCEPT !["main"] = "write"]
    BY <1>3 DEF Interrupt, Abandon
  <2>2. Locked' \subseteq Locked
    BY <2>1 DEF Locked, HeartInv, Fresh
  <2> QED BY <2>2 DEF HeartInv, Exclusive
<1>4. CASE StopBeating \/ PrintMarker \/ CloseCopy \/ Tick \/ UNCHANGED vars
  <2>1. at' = at
    BY <1>4 DEF StopBeating, PrintMarker, CloseCopy, Tick, vars, program
  <2> QED BY <2>1 DEF HeartInv, Exclusive, Locked
<1> QED BY <1>1, <1>2, <1>3, <1>4 DEF Next, Write

\* A step that changes neither the heart nor the clock nor the stage, and leaves whoever
\* is feeding or beating where it is
LEMMA BesidesTheHeart ==
    ASSUME HeartInv, UNCHANGED <<heart, stage, changed>>, now' \in Nat, now <= now',
           at' \in [Threads -> Places],
           \A t \in Threads : \/ at'[t] = at[t]
                              \/ at[t] \notin {"feeding", "beating"} /\ at'[t] # "beating"
    PROVE  Fresh'
<1>1. UNCHANGED <<lastBeat, status, lastLine, missed>>
  BY DEF heart
<1>2. /\ \A t \in Threads : at[t] = "feeding" => at'[t] = "feeding"
      /\ \A t \in Threads : at[t] = "beating" <=> at'[t] = "beating"
  OBVIOUS
<1> QED BY <1>1, <1>2, StreamAssumption DEF HeartInv, Fresh

LEMMA WritesKeepFresh ==
    ASSUME HeartInv, NEW t \in Threads,
           RealWrite(t) \/ RealWriteRaises(t) \/ SetMidLine(t) \/ Observe(t)
    PROVE  Fresh'
<1>1. /\ UNCHANGED <<heart, stage, changed>> /\ now' = now
      /\ at[t] \in {"write", "flag", "observe"}
      /\ \E q \in {"flag", "observe", "copied", "write"} : at' = [at EXCEPT ![t] = q]
  BY DEF RealWrite, RealWriteRaises, SetMidLine, Observe, Move, Return, Abandon, reading
<1>2. /\ at' \in [Threads -> Places]
      /\ \A u \in Threads : \/ at'[u] = at[u]
                            \/ at[u] \notin {"feeding", "beating"} /\ at'[u] # "beating"
  BY <1>1 DEF HeartInv, Fresh, Places, Owing
<1> QED BY <1>1, <1>2, BesidesTheHeart DEF HeartInv, Fresh

\* Nobody was feeding or beating but this thread: the stage is the one in the status
LEMMA TakeLinesKeepsFresh ==
    ASSUME HeartInv, NEW t \in Threads, TakeLines(t)
    PROVE  Fresh'
<1>1. /\ at[t] = "copied" /\ UNCHANGED heart /\ stage' = stage /\ now' = now
      /\ at' = [at EXCEPT ![t] = "feeding"] \/ at' = [at EXCEPT ![t] = "write"]
  BY DEF TakeLines, Move, Return
<1>2. \A u \in Threads : at[u] \notin {"feeding", "beating"}
  BY <1>1 DEF HeartInv, Exclusive, Locked
<1>3. \A u \in Threads : at'[u] # "beating"
  BY <1>1, <1>2 DEF HeartInv, Fresh
<1>4. at' \in [Threads -> Places]
  BY <1>1 DEF HeartInv, Fresh, Places
<1>5. UNCHANGED <<lastBeat, status, lastLine, missed>>
  BY <1>1 DEF heart
<1> QED BY <1>1, <1>2, <1>3, <1>4, <1>5 DEF HeartInv, Fresh

LEMMA FeedLineKeepsFresh ==
    ASSUME HeartInv, NEW t \in Threads, FeedLine(t)
    PROVE  Fresh'
<1>1. /\ at[t] = "feeding" /\ UNCHANGED heart /\ now' = now /\ at' = at
      /\ changed' = (changed \/ stage' # stage)
  BY DEF FeedLine, program
<1>2. UNCHANGED <<lastBeat, status, lastLine, missed>>
  BY <1>1 DEF heart
<1>3. CASE stage' = stage
  BY <1>1, <1>2, <1>3 DEF HeartInv, Fresh
<1>4. CASE stage' # stage
  BY <1>1, <1>2, <1>4 DEF HeartInv, Fresh
<1> QED BY <1>3, <1>4

LEMMA ThrottleKeepsFresh ==
    ASSUME HeartInv, NEW t \in Threads, Throttle(t)
    PROVE  Fresh'
<1>1. /\ at[t] = "feeding" /\ lastLine' = now /\ now' = now
      /\ UNCHANGED <<stage, changed, status, missed>>
  BY DEF Throttle, reading
<1>2. \A u \in Threads : u # t => at[u] \notin {"feeding", "beating"}
  BY <1>1 DEF HeartInv, Exclusive, Locked
<1>3. CASE Due
  <2>1. lastBeat' = now /\ at' = [at EXCEPT ![t] = "beating"]
    BY <1>3 DEF Throttle, Move
  <2>2. at'[t] = "beating" /\ at' \in [Threads -> Places]
    BY <2>1 DEF HeartInv, Fresh, Places
  <2>3. now - now < Interval
    BY StreamAssumption DEF HeartInv, Fresh
  <2> QED BY <1>1, <2>1, <2>2, <2>3 DEF HeartInv, Fresh
<1>4. CASE ~Due
  <2>1. lastBeat' = lastBeat /\ at' = [at EXCEPT ![t] = "write"]
    BY <1>4 DEF Throttle, Return
  <2>2. at' \in [Threads -> Places] /\ \A u \in Threads : at'[u] \notin {"feeding", "beating"}
    BY <1>2, <2>1 DEF HeartInv, Fresh, Places
  <2>3. ~changed /\ now - lastBeat < Interval
    BY <1>4, StreamAssumption DEF Due, HeartInv, Fresh
  <2>4. \A u \in Threads : at[u] # "beating"
    BY <1>1, <1>2
  <2>5. ~missed => lastBeat <= status.at /\ status.stage = stage
    BY <2>3, <2>4 DEF HeartInv, Fresh
  <2> QED BY <1>1, <2>1, <2>2, <2>3, <2>5 DEF HeartInv, Fresh
<1> QED BY <1>3, <1>4

LEMMA HeartbeatKeepsFresh ==
    ASSUME HeartInv, NEW t \in Threads, Heartbeat(t)
    PROVE  Fresh'
<1>1. /\ at[t] = "beating" /\ at' = [at EXCEPT ![t] = "write"] /\ now' = now
      /\ UNCHANGED <<stage, changed, lastBeat, lastLine>>
      /\ \/ status' = [stage |-> stage, at |-> now]
         \/ missed' = TRUE /\ status' = status
  BY DEF Heartbeat, Return, reading
<1>2. at' \in [Threads -> Places]
  BY <1>1 DEF HeartInv, Fresh, Places
<1>3. CASE status' = [stage |-> stage, at |-> now]
  BY <1>1, <1>2, <1>3 DEF HeartInv, Fresh
<1>4. CASE missed' = TRUE /\ status' = status
  BY <1>1, <1>2, <1>4 DEF HeartInv, Fresh
<1> QED BY <1>1, <1>3, <1>4

\* A heartbeat that the exception keeps from status.json counts as missed
LEMMA InterruptKeepsFresh == HeartInv /\ Interrupt => Fresh'
<1> SUFFICES ASSUME HeartInv, Interrupt PROVE Fresh'
  OBVIOUS
<1>1. /\ at' = [at EXCEPT !["main"] = "write"] /\ now' = now
      /\ UNCHANGED <<stage, changed, lastBeat, lastLine, status>>
      /\ missed' = (missed \/ at["main"] = "beating" \/ (at["main"] = "feeding" /\ changed))
  BY DEF Interrupt, Abandon
<1>2. at' \in [Threads -> Places] /\ "main" \in Threads
  BY <1>1 DEF HeartInv, Fresh, Places, Threads
<1>3. CASE missed'
  BY <1>1, <1>2, <1>3 DEF HeartInv, Fresh
<1>4. CASE ~missed'
  <2>1. ~missed /\ at["main"] # "beating" /\ ~(at["main"] = "feeding" /\ changed)
    BY <1>1, <1>4
  <2>2. \A u \in Threads : at[u] = "beating" <=> at'[u] = "beating"
    BY <1>1, <2>1 DEF HeartInv, Fresh
  <2>3. changed => \A u \in Threads : at[u] = "feeding" => at'[u] = "feeding"
    BY <1>1, <2>1 DEF HeartInv, Fresh
  <2> QED BY <1>1, <1>2, <2>1, <2>2, <2>3 DEF HeartInv, Fresh
<1> QED BY <1>3, <1>4

LEMMA RestKeepsFresh ==
    HeartInv /\ (StopBeating \/ PrintMarker \/ CloseCopy \/ Tick \/ UNCHANGED vars) => Fresh'
<1> SUFFICES ASSUME HeartInv, StopBeating \/ PrintMarker \/ CloseCopy \/ Tick \/ UNCHANGED vars
    PROVE  Fresh'
  OBVIOUS
<1>1. UNCHANGED <<heart, stage, changed>> /\ at' = at /\ (now' = now \/ now' = now + 1)
  BY DEF StopBeating, PrintMarker, CloseCopy, Tick, vars, program, reading
<1>2. now' \in Nat /\ now <= now'
  BY <1>1 DEF HeartInv, Fresh
<1>3. at' \in [Threads -> Places]
  BY <1>1 DEF HeartInv, Fresh
<1> QED BY <1>1, <1>2, <1>3, BesidesTheHeart

LEMMA HeartInvariant == Spec => []HeartInv
<1>1. Init => HeartInv
  BY StreamAssumption DEF Init, HeartInv, Exclusive, Locked, Fresh, Places, Threads
<1>2. HeartInv /\ [Next]_vars => HeartInv'
  <2> SUFFICES ASSUME HeartInv, [Next]_vars PROVE HeartInv'
    OBVIOUS
  <2>1. Fresh'
    BY WritesKeepFresh, TakeLinesKeepsFresh, FeedLineKeepsFresh, ThrottleKeepsFresh,
       HeartbeatKeepsFresh, InterruptKeepsFresh, RestKeepsFresh DEF Next, Write
  <2> QED BY <2>1, ExclusiveKeeps DEF HeartInv
<1> QED BY <1>1, <1>2, PTL DEF Spec

(***************************************************************************)
(* Between writes, status.json is less than the interval behind the last   *)
(* line that was read, and has the tracker's stage, for any interval and   *)
(* any scripts, until a heartbeat fails or is cut off: the throttle keeps  *)
(* back no heartbeat that is due, and no change of the stage.              *)
(***************************************************************************)
THEOREM HeartbeatIsAlwaysFresh == Spec => []HeartbeatIsFresh
<1>1. HeartInv => HeartbeatIsFresh
  BY StreamAssumption DEF HeartInv, Fresh, HeartbeatIsFresh
<1> QED BY <1>1, HeartInvariant, PTL

=============================================================================
