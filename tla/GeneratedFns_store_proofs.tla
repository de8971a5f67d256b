--------------------- MODULE GeneratedFns_store_proofs ---------------------
(***************************************************************************)
(* With none of the features the functions in waiting keep their store,    *)
(* for every value of the constants: the marks of those that wait and of   *)
(* the calls in progress are where each unmark and each drop expects them, *)
(* and no function has a piece above the level that is given back. With    *)
(* any features only an unmark that undoes pending marks can damage one.   *)
(***************************************************************************)
EXTENDS GeneratedFns_proofs

----------------------------------------------------------------------------
(* Which call of the parser makes which.                                   *)

WithFn == {"fn", "build", "cg"}

\* A call that compile_statements makes.
Alone(q) == q.k \in {"fn", "cg", "decl"} /\ q.mark = 0

\* A call q that the call r makes.
Makes(r, q) ==
  /\ r.k # "cg" /\ q.k # "decl"
  /\ r.k = "loop" => q.k \in {"fn", "cg"} /\ q.mark = 0
  /\ r.k # "loop" /\ q.k \in {"fn", "cg"} => q.mark # 0 /\ r.k \in {"fn", "decl", "build"}
  /\ r.k = "build" => "build" \in features
  /\ q.k = "build" => r.k = "class" \/ (r.k = "fn" /\ "core" \in features)
  /\ q.k = "class" /\ q.how = "local" => r.k = "fn"
  /\ q.k = "class" /\ q.how \notin {"local", "instance"} => r.k \in {"class", "decl"}

Nested(c) ==
  /\ \A i \in 1 .. Len(c) - 1 : Makes(c[i], c[i + 1])
  /\ c # <<>> => Alone(c[1])

LEMMA PushNested ==
  ASSUME NEW c \in Seq(FrameType), NEW d \in Seq(FrameType), Nested(c), Pushed(c, d),
         c = <<>> => Alone(On(d)), c # <<>> => Makes(On(c), On(d))
  PROVE  Nested(d)
<1>1. Len(c) \in Nat /\ Len(d) = Len(c) + 1 /\ \A i \in 1 .. Len(c) : d[i] = c[i]
  BY LenProperties DEF Pushed
<1>2. CASE c = <<>>
  <2>1. Len(c) = 0
    BY <1>2
  <2>2. Len(d) = 1 /\ On(d) = d[1]
    BY <1>1, <2>1 DEF On
  <2>3. \A i \in 1 .. 0 : FALSE
    OBVIOUS
  <2> QED BY <1>2, <2>2, <2>3 DEF Nested
<1>3. CASE c # <<>>
  <2>1. Len(c) >= 1
    BY <1>1, <1>3, EmptySeq
  <2>2. d[1] = c[1] /\ d[Len(c)] = On(c) /\ d[Len(c) + 1] = On(d)
    BY <1>1, <2>1 DEF On
  <2>3. ASSUME NEW i \in 1 .. Len(d) - 1 PROVE Makes(d[i], d[i + 1])
    <3>1. CASE i = Len(c)
      BY <1>3, <2>2, <3>1
    <3>2. CASE i # Len(c)
      <4>1. i \in 1 .. Len(c) - 1 /\ d[i] = c[i] /\ d[i + 1] = c[i + 1]
        BY <1>1, <3>2
      <4> QED BY <4>1 DEF Nested
    <3> QED BY <3>1, <3>2
  <2> QED BY <1>3, <2>2, <2>3 DEF Nested
<1> QED BY <1>2, <1>3

LEMMA PopNested ==
  ASSUME NEW c \in Seq(FrameType), NEW d \in Seq(FrameType), Nested(c), Popped(c, d)
  PROVE  Nested(d)
<1>1. Len(c) \in Nat /\ Len(d) \in Nat /\ Len(d) = Len(c) - 1 /\ \A i \in 1 .. Len(d) : d[i] = c[i]
  BY LenProperties DEF Popped
<1>2. ASSUME NEW i \in 1 .. Len(d) - 1 PROVE Makes(d[i], d[i + 1])
  <2>1. i \in 1 .. Len(c) - 1 /\ d[i] = c[i] /\ d[i + 1] = c[i + 1]
    BY <1>1
  <2> QED BY <2>1 DEF Nested
<1>3. ASSUME d # <<>> PROVE Alone(d[1])
  <2>1. Len(d) >= 1
    BY <1>1, <1>3, EmptySeq
  <2>2. d[1] = c[1] /\ c # <<>>
    BY <1>1, <2>1 DEF Popped
  <2> QED BY <2>2 DEF Nested
<1> QED BY <1>2, <1>3 DEF Nested

\* The call on top is replaced by one that whoever made it may make.
Follows(q, p) == (Alone(q) => Alone(p)) /\ \A r : Makes(r, q) => Makes(r, p)

LEMMA RetopNested ==
  ASSUME NEW c \in Seq(FrameType), NEW d \in Seq(FrameType), Nested(c), Retopped(c, d),
         Follows(On(c), On(d))
  PROVE  Nested(d)
<1>1. /\ Len(c) \in Nat /\ Len(d) = Len(c) /\ \A i \in 1 .. Len(c) - 1 : d[i] = c[i]
      /\ c # <<>>
  BY LenProperties DEF Retopped
<1>2. Len(c) >= 1
  BY <1>1, EmptySeq
<1>3. c[Len(c)] = On(c) /\ d[Len(c)] = On(d)
  BY <1>1 DEF On
<1>4. ASSUME NEW i \in 1 .. Len(d) - 1 PROVE Makes(d[i], d[i + 1])
  <2>1. d[i] = c[i] /\ Makes(c[i], c[i + 1])
    BY <1>1, <1>4 DEF Nested
  <2>2. CASE i + 1 = Len(c)
    BY <1>3, <2>1, <2>2 DEF Follows
  <2>3. CASE i + 1 # Len(c)
    <3>1. d[i + 1] = c[i + 1]
      BY <1>1, <2>3
    <3> QED BY <2>1, <3>1
  <2> QED BY <2>2, <2>3
<1>5. Alone(d[1])
  <2>1. Alone(c[1])
    BY <1>1 DEF Nested
  <2>2. CASE Len(c) = 1
    BY <1>3, <2>1, <2>2 DEF Follows
  <2>3. CASE Len(c) # 1
    <3>1. d[1] = c[1]
      BY <1>1, <1>2, <2>3
    <3> QED BY <2>1, <3>1
  <2> QED BY <2>2, <2>3
<1> QED BY <1>4, <1>5 DEF Nested

LEMMA StepNested ==
  ASSUME NEW s, NEW c, NEW t, NEW d, TypeInv(s, c), TypeInv(t, d), KnownInv(s, c), Nested(c),
         Steps(s, c, t, d)
  PROVE  Nested(d)
<1>1. c \in Seq(FrameType) /\ d \in Seq(FrameType)
  BY DEF TypeInv
<1>2. CASE \E f : /\ CallingOf(s, c) /\ Pushed(c, d)
                  /\ FrameIs(On(d), "cg", f, 0, <<>>, "top") \/ FrameIs(On(d), "fn", f, 0, <<>>, "top")
  <2>1. On(d).k \in {"fn", "cg"} /\ On(d).mark = 0 /\ Pushed(c, d)
    BY <1>2 DEF FrameIs
  <2>2. c # <<>> => On(c).k = "loop"
    BY <1>2 DEF CallingOf
  <2>3. c = <<>> => Alone(On(d))
    BY <2>1 DEF Alone
  <2>4. c # <<>> => Makes(On(c), On(d))
    BY <2>1, <2>2 DEF Makes
  <2> QED BY <1>1, <2>1, <2>3, <2>4, PushNested
<1>3. CASE SourceOf(s, c, t, d)
  <2>1. c = <<>> /\ Pushed(c, d) /\ On(d).k \in {"fn", "decl"} /\ On(d).mark = 0
    BY <1>3 DEF SourceOf, FrameIs
  <2> QED BY <1>1, <2>1, PushNested DEF Alone
<1>4. CASE d = c
  BY <1>4
<1>5. CASE Popped(c, d)
  BY <1>1, <1>5, PopNested
<1>6. CASE \E b : /\ b \in Seq(FrameType) /\ Retopped(c, b) /\ On(c).k = "fn" /\ On(b).k \in {"fn", "cg"}
                  /\ On(b).mark = On(c).mark /\ b # <<>>
                  /\ \/ d = b
                     \/ "core" \in features /\ Pushed(b, d) /\ On(b).k = "fn" /\ On(d).k = "build"
  <2>1. PICK b : /\ b \in Seq(FrameType) /\ Retopped(c, b) /\ On(c).k = "fn" /\ On(b).k \in {"fn", "cg"}
                 /\ On(b).mark = On(c).mark /\ b # <<>>
                 /\ \/ d = b
                    \/ "core" \in features /\ Pushed(b, d) /\ On(b).k = "fn" /\ On(d).k = "build"
    BY <1>6
  <2>2. Follows(On(c), On(b))
    BY <2>1 DEF Follows, Alone, Makes
  <2>3. Nested(b)
    BY <1>1, <2>1, <2>2, RetopNested
  <2>4. CASE Pushed(b, d) /\ "core" \in features /\ On(b).k = "fn" /\ On(d).k = "build"
    <3>1. Makes(On(b), On(d))
      BY <2>4 DEF Makes
    <3> QED BY <1>1, <2>1, <2>3, <2>4, <3>1, PushNested
  <2> QED BY <2>1, <2>3, <2>4
<1>7. CASE InstanceFnOf(s, c, t, d)
  <2>1. PICK m : /\ StOK(m) /\ MarkOf(s, m)
                 /\ FrameIs(On(d), "fn", Len(s.fns) + 1, m.marks[Len(m.marks)].blk, <<>>, "top")
    BY <1>7 DEF InstanceFnOf
  <2>2. StOK(s)
    BY DEF TypeInv
  <2>3. On(d).k = "fn" /\ On(d).mark # 0
    BY <2>1, <2>2, TopMarkFacts DEF FrameIs
  <2>4. Pushed(c, d) /\ c # <<>> /\ On(c).k \in {"fn", "decl", "build"}
        /\ (On(c).k = "build" => "build" \in features)
    BY <1>7 DEF InstanceFnOf, UsingOf
  <2>5. Makes(On(c), On(d))
    BY <2>3, <2>4 DEF Makes
  <2> QED BY <1>1, <2>4, <2>5, PushNested
<1>8. CASE \/ InstanceClassOf(s, c, t, d) \/ LocalClassOf(s, c, t, d) \/ TopClassOf(s, c, t, d)
           \/ NestedClassOf(s, c, t, d)
  <2>1. /\ Pushed(c, d) /\ c # <<>> /\ On(d).k = "class"
        /\ On(c).k \in {"fn", "decl", "build", "class"}
        /\ (On(c).k = "build" => "build" \in features)
        /\ (On(d).how = "local" => On(c).k = "fn")
        /\ (On(d).how \notin {"local", "instance"} => On(c).k \in {"class", "decl"})
    BY <1>8 DEF InstanceClassOf, UsingOf, LocalClassOf, TopClassOf, NestedClassOf, FrameIs
  <2>2. Makes(On(c), On(d))
    BY <2>1 DEF Makes
  <2> QED BY <1>1, <2>1, <2>2, PushNested
<1>9. CASE GenerateFnOf(s, c, t, d)
  <2>1. PICK b : /\ Retopped(c, b) /\ FrameIs(On(b), "class", On(c).fn, On(c).mark, On(c).saved, On(c).how)
                 /\ b \in Seq(FrameType) /\ b # <<>>
                 /\ Pushed(b, d) /\ FrameIs(On(d), "build", Len(s.fns) + 1, 0, <<>>, "top")
    BY <1>9 DEF GenerateFnOf
  <2>2. On(c).k = "class" /\ On(b).k = "class" /\ On(b).mark = On(c).mark /\ On(b).how = On(c).how
        /\ On(d).k = "build"
    BY <1>9, <2>1 DEF GenerateFnOf, FrameIs
  <2>3. Follows(On(c), On(b)) /\ Makes(On(b), On(d))
    BY <2>2 DEF Follows, Alone, Makes
  <2> QED BY <1>1, <2>1, <2>3, RetopNested, PushNested
<1>10. CASE Retopped(c, d) /\ On(c).k = "class" /\ On(d).k = "loop"
  <2>1. Follows(On(c), On(d))
    BY <1>10 DEF Follows, Alone, Makes
  <2> QED BY <1>1, <1>10, <2>1, RetopNested
<1>11. CASE HeadOf(s, c, t, d) \/ EndFnOf(s, c, t, d)
  <2>1. CASE HeadOf(s, c, t, d)
    BY <1>1, <1>6, <2>1 DEF HeadOf, FrameIs, Retopped
  <2>2. CASE EndFnOf(s, c, t, d) /\ ~Popped(c, d)
    <3>1. Retopped(c, d) /\ On(c).k = "fn" /\ On(d).k = "cg" /\ On(d).mark = On(c).mark
      BY <2>2 DEF EndFnOf, FrameIs
    <3>2. Follows(On(c), On(d))
      BY <3>1 DEF Follows, Alone, Makes
    <3> QED BY <1>1, <3>1, <3>2, RetopNested
  <2> QED BY <1>5, <1>11, <2>1, <2>2
<1>12. CASE MembersOf(s, c, t, d)
  BY <1>1, <1>6, <1>12 DEF MembersOf, FrameIs
<1>13. CASE EndClassOf(s, c, t, d)
  BY <1>5, <1>10, <1>13 DEF EndClassOf, FrameIs
<1>14. CASE GeneratedOf(s, c, t, d) \/ PendingOf(s, c, t, d)
  BY <1>2, <1>14 DEF GeneratedOf, PendingOf
<1>15. CASE \/ EndOfFileOf(s, c, t, d) \/ ReadOf(s, c, t, d) \/ DescribeOf(s, c, t, d)
            \/ MemberFnOf(s, c, t, d)
  BY <1>4, <1>15 DEF EndOfFileOf, ReadOf, DescribeOf, MemberFnOf
<1>16. CASE \/ NotedOf(s, c, t, d) \/ CompiledOf(s, c, t, d) \/ EndLoopOf(s, c, t, d)
            \/ EndDeclOf(s, c, t, d)
  BY <1>5, <1>16 DEF NotedOf, CompiledOf, EndLoopOf, EndDeclOf
<1> QED BY <1>3, <1>7, <1>8, <1>9, <1>11, <1>12, <1>13, <1>14, <1>15, <1>16 DEF Steps

----------------------------------------------------------------------------
(* Where the marks of the calls in progress are.                           *)

\* H[i] is the place of the latest mark that the first i calls set.
Heights(M, c, H) ==
  /\ H[0] = 1
  /\ \A i \in 0 .. Len(c) : H[i] \in 1 .. Len(M) /\ ~M[H[i]].unmarked
  /\ \A i \in 1 .. Len(c) : /\ c[i].mark = 0 => H[i] = H[i - 1]
                            /\ c[i].mark # 0 => M[H[i]].blk = c[i].mark
  /\ \A i, j \in 0 .. Len(c) : i < j => H[i] <= H[j] /\ (c[j].mark # 0 => H[i] < H[j])

\* A pending mark is under the mark of a call, with no generated function between.
Covered(M, g, c, H) ==
  \A p \in 1 .. Len(M) : M[p].unmarked =>
    \E j \in 0 .. Len(c) :
      p < H[j] /\ \A q \in p + 1 .. H[j], i \in 1 .. Len(g) : M[q].blk # g[i].mark

\* The function that waits first was noted last.
NotesUp(M, g) ==
  \A i, j \in 1 .. Len(g), p, q \in 1 .. Len(M) :
    i < j /\ M[p].blk = g[i].mark /\ M[q].blk = g[j].mark => q < p

\* Nothing waits between a function and the instance that is read in the middle of it.
Close(c, H) ==
  \A i \in 2 .. Len(c) :
    c[i].mark # 0 /\ c[i].k \in {"fn", "cg"} /\ c[i - 1].k = "fn" => H[i] = H[i - 1] + 1

\* What is read or compiled goes above the top mark, which is the call's or that of one below it.
Reads(c) ==
  c # <<>> /\ (On(c).k \in {"fn", "loop"} \/ (On(c).k = "cg" /\ Len(c) # 1))

Reached(M, c, H) == Reads(c) => H[Len(c)] = Len(M)

Laid(M, g, c, H) == Heights(M, c, H) /\ Covered(M, g, c, H) /\ NotesUp(M, g) /\ Close(c, H)

\* Without debug tables each mark that is not pending has an owner, who finds it.
Owning(M, g, c) ==
  /\ \A q \in 2 .. Len(M) :
       M[q].unmarked \/ (\E i \in 1 .. Len(g) : g[i].mark = M[q].blk)
                     \/ \E i \in 1 .. Len(c) : c[i].mark = M[q].blk /\ c[i].mark # 0
  /\ \A i \in 1 .. Len(g) : \E p \in 2 .. Len(M) : M[p].blk = g[i].mark /\ ~M[p].unmarked
  /\ \A i \in 1 .. Len(g), j \in 1 .. Len(c) : g[i].mark # c[j].mark
  /\ \A i, j \in 1 .. Len(g) : g[i].mark = g[j].mark => i = j

LEMMA OwnedOwning ==
  ASSUME NEW s, NEW c, Owned(s, c), "debug" \notin features, Len(s.marks) \in Nat
  PROVE  Owning(s.marks, s.gen, c)
<1>1. PICK O : OwnersOf(s.gen, c, O) /\ MarksKept(s.marks, O)
  BY DEF Owned
<1>2. O = GenMarks(s.gen) \cup CtlMarks(c) /\ OneOwner(s.gen, c)
  BY <1>1 DEF OwnersOf
<1>3. /\ \A b \in O : Held(s.marks, O, b)
      /\ \A q \in 2 .. Len(s.marks) : ~Lost(s.marks, O, q)
  BY <1>1 DEF MarksKept
<1>4. ASSUME NEW q \in 2 .. Len(s.marks), ~s.marks[q].unmarked
      PROVE  \/ \E i \in 1 .. Len(s.gen) : s.gen[i].mark = s.marks[q].blk
             \/ \E i \in 1 .. Len(c) : c[i].mark = s.marks[q].blk /\ c[i].mark # 0
  <2>1. s.marks[q].blk \in O
    BY <1>3, <1>4 DEF Lost
  <2> QED BY <1>2, <2>1 DEF GenMarks, CtlMarks
<1>5. ASSUME NEW i \in 1 .. Len(s.gen)
      PROVE  \E p \in 2 .. Len(s.marks) : s.marks[p].blk = s.gen[i].mark /\ ~s.marks[p].unmarked
  <2>1. s.gen[i].mark \in O
    BY <1>2 DEF GenMarks
  <2>2. PICK p \in 2 .. Len(s.marks) :
          /\ s.marks[p].blk = s.gen[i].mark
          /\ ~s.marks[p].unmarked \/ \E q \in p + 1 .. Len(s.marks) : Lost(s.marks, O, q)
    BY <1>3, <2>1 DEF Held
  <2>3. \A q \in p + 1 .. Len(s.marks) : q \in 2 .. Len(s.marks)
    OBVIOUS
  <2> QED BY <1>3, <2>2, <2>3
<1> QED BY <1>2, <1>4, <1>5 DEF Owning, OneOwner

\* A mark is at one place.
LEMMA OnePlace ==
  ASSUME NEW s, StOK(s), NEW p \in 1 .. Len(s.marks), NEW q \in 1 .. Len(s.marks),
         s.marks[p].blk = s.marks[q].blk
  PROVE  p = q
BY DEF StOK, BlocksApart, Apart

LEMMA StackLen ==
  ASSUME NEW c \in Seq(FrameType)
  PROVE  Len(c) \in Nat /\ (c # <<>> => Len(c) >= 1) /\ (c = <<>> => Len(c) = 0)
BY LenProperties, EmptySeq

\* When no generated function waits, the top mark is one of the calls'.
LEMMA AllReached ==
  ASSUME NEW s, NEW c \in Seq(FrameType), StOK(s), Owning(s.marks, s.gen, c), s.gen = <<>>,
         NEW H, Heights(s.marks, c, H)
  PROVE  H[Len(c)] = Len(s.marks)
<1>1. PICK M : M = s.marks
  OBVIOUS
<1>2. PICK n \in Nat : n = Len(c)
  BY StackLen
<1>3. PICK m \in Nat : m = Len(M) /\ m >= 1
  BY <1>1, TopFacts
<1>4. ~M[m].unmarked
  BY <1>1, <1>3 DEF StOK, TopLive
<1>5. H[n] \in 1 .. m
  BY <1>1, <1>2, <1>3 DEF Heights
<1>6. CASE m = 1
  BY <1>1, <1>2, <1>3, <1>5, <1>6
<1>7. CASE m # 1
  <2>1. m \in 2 .. m /\ Len(s.gen) = 0
    BY <1>3, <1>7
  <2>2. PICK i \in 1 .. n : c[i].mark = M[m].blk /\ c[i].mark # 0
    BY <1>1, <1>2, <1>3, <1>4, <2>1 DEF Owning
  <2>3. H[i] \in 1 .. m /\ M[H[i]].blk = M[m].blk
    BY <1>1, <1>2, <1>3, <2>2 DEF Heights
  <2>4. H[i] = m
    <3>1. m \in 1 .. m
      BY <1>3
    <3> QED BY <1>1, <1>3, <2>3, <3>1, OnePlace
  <2>5. i < n => H[i] <= H[n]
    BY <1>1, <1>2 DEF Heights
  <2>6. H[n] = m
    BY <1>5, <2>2, <2>4, <2>5
  <2> QED BY <1>1, <1>2, <1>3, <2>6
<1> QED BY <1>6, <1>7

\* The heights of one call more.
Higher(H, I, n, h) == I[n + 1] = h /\ \A i \in 0 .. n : I[i] = H[i]

LEMMA HigherIs ==
  ASSUME NEW H, NEW n \in Nat, NEW h
  PROVE  \E I : Higher(H, I, n, h)
<1>1. PICK I : I = [i \in 0 .. n + 1 |-> IF i = n + 1 THEN h ELSE H[i]]
  OBVIOUS
<1>2. Higher(H, I, n, h)
  BY <1>1 DEF Higher
<1> QED BY <1>2

LEMMA HeightsPush ==
  ASSUME NEW M, NEW c, NEW d, NEW H, NEW I, NEW h, Len(M) \in Nat, Len(c) \in Nat,
         Heights(M, c, H), Pushed(c, d), Higher(H, I, Len(c), h),
         \/ On(d).mark = 0 /\ h = H[Len(c)]
         \/ /\ On(d).mark # 0 /\ h \in 1 .. Len(M) /\ H[Len(c)] < h
            /\ M[h].blk = On(d).mark /\ ~M[h].unmarked
  PROVE  Heights(M, d, I)
<1>1. PICK n \in Nat : n = Len(c)
  OBVIOUS
<1>2. PICK m \in Nat : m = Len(M)
  OBVIOUS
<1>3. Len(d) = n + 1 /\ (\A i \in 1 .. n : d[i] = c[i]) /\ On(d) = d[n + 1]
  BY <1>1 DEF Pushed, On
<1>4. I[n + 1] = h /\ \A i \in 0 .. n : I[i] = H[i]
  BY <1>1 DEF Higher
<1>5. /\ \A i \in 0 .. n : H[i] \in 1 .. m /\ ~M[H[i]].unmarked
      /\ H[0] = 1
  BY <1>1, <1>2 DEF Heights
<1>6. h \in 1 .. m /\ ~M[h].unmarked
  BY <1>1, <1>2, <1>5
<1>7. ASSUME NEW i \in 0 .. n + 1 PROVE I[i] \in 1 .. m /\ ~M[I[i]].unmarked
  <2>1. i = n + 1 \/ i \in 0 .. n
    OBVIOUS
  <2> QED BY <1>4, <1>5, <1>6, <2>1
<1>8. ASSUME NEW i \in 1 .. n + 1
      PROVE  (d[i].mark = 0 => I[i] = I[i - 1]) /\ (d[i].mark # 0 => M[I[i]].blk = d[i].mark)
  <2>1. CASE i = n + 1
    BY <1>1, <1>3, <1>4, <2>1
  <2>2. CASE i # n + 1
    <3>1. i \in 1 .. n /\ i - 1 \in 0 .. n /\ i \in 0 .. n
      BY <2>2
    <3>2. (c[i].mark = 0 => H[i] = H[i - 1]) /\ (c[i].mark # 0 => M[H[i]].blk = c[i].mark)
      BY <1>1, <3>1 DEF Heights
    <3> QED BY <1>3, <1>4, <3>1, <3>2
  <2> QED BY <2>1, <2>2
<1>9. ASSUME NEW i \in 0 .. n + 1, NEW j \in 0 .. n + 1, i < j
      PROVE  I[i] <= I[j] /\ (d[j].mark # 0 => I[i] < I[j])
  <2>1. i \in 0 .. n
    BY <1>9
  <2>2. CASE j = n + 1
    <3>1. I[i] = H[i] /\ I[j] = h /\ d[j] = On(d)
      BY <1>3, <1>4, <2>1, <2>2
    <3>2. H[i] <= H[n]
      <4>1. i < n => H[i] <= H[n]
        BY <1>1, <2>1 DEF Heights
      <4> QED BY <1>5, <2>1, <4>1
    <3> QED BY <1>1, <1>5, <1>6, <2>1, <3>1, <3>2
  <2>3. CASE j # n + 1
    <3>1. j \in 1 .. n /\ j \in 0 .. n
      BY <1>9, <2>3
    <3>2. H[i] <= H[j] /\ (c[j].mark # 0 => H[i] < H[j])
      BY <1>1, <1>9, <2>1, <3>1 DEF Heights
    <3> QED BY <1>3, <1>4, <2>1, <3>1, <3>2
  <2> QED BY <2>2, <2>3
<1>10. I[0] = 1
  BY <1>4, <1>5
<1> QED BY <1>2, <1>3, <1>7, <1>8, <1>9, <1>10 DEF Heights

LEMMA HeightsPop ==
  ASSUME NEW M, NEW c \in Seq(FrameType), NEW d \in Seq(FrameType), NEW H, Heights(M, c, H),
         Popped(c, d)
  PROVE  Heights(M, d, H)
<1>1. PICK n \in Nat : n = Len(c)
  BY StackLen
<1>2. PICK l \in Nat : l = Len(d)
  BY StackLen
<1>3. l = n - 1 /\ \A i \in 1 .. l : d[i] = c[i]
  BY <1>1, <1>2 DEF Popped
<1>4. \A i \in 0 .. l : i \in 0 .. n /\ (i # 0 => i \in 1 .. n /\ i \in 1 .. l)
  BY <1>3
<1>5. \A i \in 0 .. l : H[i] \in 1 .. Len(M) /\ ~M[H[i]].unmarked
  BY <1>1, <1>4 DEF Heights
<1>6. ASSUME NEW i \in 1 .. l
      PROVE  /\ d[i].mark = 0 => H[i] = H[i - 1]
             /\ d[i].mark # 0 => M[H[i]].blk = d[i].mark
  <2>1. i \in 1 .. n /\ d[i] = c[i]
    BY <1>3
  <2> QED BY <1>1, <2>1 DEF Heights
<1>7. ASSUME NEW i \in 0 .. l, NEW j \in 0 .. l, i < j
      PROVE  H[i] <= H[j] /\ (d[j].mark # 0 => H[i] < H[j])
  <2>1. i \in 0 .. n /\ j \in 0 .. n /\ d[j] = c[j]
    BY <1>3, <1>7
  <2> QED BY <1>1, <1>7, <2>1 DEF Heights
<1>8. H[0] = 1
  BY DEF Heights
<1> QED BY <1>2, <1>5, <1>6, <1>7, <1>8 DEF Heights

\* The call on top is replaced by one with the same mark.
LEMMA HeightsRetop ==
  ASSUME NEW M, NEW c \in Seq(FrameType), NEW d \in Seq(FrameType), NEW H, Heights(M, c, H),
         Retopped(c, d), On(d).mark = On(c).mark
  PROVE  Heights(M, d, H)
<1>1. PICK n \in Nat : n = Len(c) /\ n >= 1
  BY StackLen DEF Retopped
<1>2. Len(d) = n /\ \A i \in 1 .. n - 1 : d[i] = c[i]
  BY <1>1 DEF Retopped
<1>3. \A i \in 1 .. n : d[i].mark = c[i].mark
  BY <1>1, <1>2 DEF On
<1>4. H[0] = 1 /\ \A i \in 0 .. n : H[i] \in 1 .. Len(M) /\ ~M[H[i]].unmarked
  BY <1>1 DEF Heights
<1>5. ASSUME NEW i \in 1 .. n
      PROVE  (d[i].mark = 0 => H[i] = H[i - 1]) /\ (d[i].mark # 0 => M[H[i]].blk = d[i].mark)
  BY <1>1, <1>3 DEF Heights
<1>6. ASSUME NEW i \in 0 .. n, NEW j \in 0 .. n, i < j
      PROVE  H[i] <= H[j] /\ (d[j].mark # 0 => H[i] < H[j])
  <2>1. j \in 1 .. n
    BY <1>6
  <2>2. d[j].mark = c[j].mark
    BY <1>3, <2>1
  <2> QED BY <1>1, <1>6, <2>2 DEF Heights
<1> QED BY <1>2, <1>4, <1>5, <1>6 DEF Heights

LEMMA HeightsMarks ==
  ASSUME NEW M, NEW N, NEW c, NEW H, Len(M) \in Nat, Len(N) \in Nat, Len(c) \in Nat,
         Heights(M, c, H),
         \A i \in 0 .. Len(c) : /\ H[i] <= Len(N) /\ ~N[H[i]].unmarked
                                /\ N[H[i]].blk = M[H[i]].blk
  PROVE  Heights(N, c, H)
<1>1. \A i \in 0 .. Len(c) : H[i] \in 1 .. Len(M) /\ H[i] \in 1 .. Len(N)
  BY DEF Heights
<1>2. \A i \in 1 .. Len(c) : i \in 0 .. Len(c)
  OBVIOUS
<1> QED BY <1>1, <1>2 DEF Heights

LEMMA HasLeast ==
  ASSUME NEW S \in SUBSET Nat, S # {}
  PROVE  \E k \in S : \A j \in S : k <= j
<1> DEFINE R == OpToRel(<, Nat)
<1>1. IsWellFoundedOn(R, Nat)
  BY NatLessThanWellFounded
<1>2. \A x, y \in Nat : y < x => <<y, x>> \in R
  BY DEF OpToRel
<1> HIDE DEF R
<1>3. PICK k \in S : \A j \in S : ~(<<j, k>> \in R)
  BY <1>1, WFMin
<1>4. ASSUME NEW j \in S PROVE k <= j
  <2>1. k \in Nat /\ j \in Nat /\ ~(j < k)
    BY <1>2, <1>3
  <2> QED BY <2>1
<1> QED BY <1>4

\* A height is that of some call's mark, or the base.
LEMMA HeightOwned ==
  ASSUME NEW M, NEW c, NEW H, Len(c) \in Nat, Heights(M, c, H), NEW i \in 0 .. Len(c), H[i] # 1
  PROVE  \E j \in 1 .. Len(c) : c[j].mark # 0 /\ c[j].mark = M[H[i]].blk
<1>1. PICK n \in Nat : n = Len(c)
  OBVIOUS
<1>2. PICK S : S = {k \in 0 .. n : /\ H[k] # 1
                                   /\ \A j \in 1 .. n : c[j].mark # 0 => c[j].mark # M[H[k]].blk}
  OBVIOUS
<1>3. S = {}
  <2>1. SUFFICES ASSUME S # {} PROVE FALSE
    OBVIOUS
  <2>2. S \in SUBSET Nat
    BY <1>2
  <2>3. PICK k \in S : \A j \in S : k <= j
    BY <2>1, <2>2, HasLeast
  <2>4. /\ k \in 0 .. n /\ H[k] # 1
        /\ \A j \in 1 .. n : c[j].mark # 0 => c[j].mark # M[H[k]].blk
    BY <1>2, <2>3
  <2>5. k \in 1 .. n /\ k - 1 \in 0 .. n
    <3>1. H[0] = 1
      BY DEF Heights
    <3> QED BY <2>4, <3>1
  <2>6. c[k].mark = 0
    BY <1>1, <2>4, <2>5 DEF Heights
  <2>7. H[k - 1] = H[k]
    BY <1>1, <2>5, <2>6 DEF Heights
  <2>8. k - 1 \in S
    BY <1>2, <2>4, <2>5, <2>7
  <2>9. k <= k - 1
    BY <2>3, <2>8
  <2> QED BY <2>5, <2>9
<1> QED BY <1>1, <1>2, <1>3

\* A mark is set; one under the top mark is noted; the top one is undone.
LEMMA HeightsAppend ==
  ASSUME NEW M, NEW N, NEW c, NEW H, Len(M) \in Nat, Len(c) \in Nat, Heights(M, c, H),
         Appended(M, N)
  PROVE  Heights(N, c, H)
<1>1. Len(N) = Len(M) + 1 /\ \A i \in 1 .. Len(M) : N[i] = M[i]
  BY DEF Appended
<1>2. Len(N) \in Nat
  BY <1>1
<1>3. ASSUME NEW i \in 0 .. Len(c)
      PROVE  H[i] <= Len(N) /\ ~N[H[i]].unmarked /\ N[H[i]].blk = M[H[i]].blk
  <2>1. H[i] \in 1 .. Len(M) /\ ~M[H[i]].unmarked
    BY DEF Heights
  <2> QED BY <1>1, <2>1
<1> QED BY <1>2, <1>3, HeightsMarks

LEMMA HeightsFlag ==
  ASSUME NEW M, NEW N, NEW c, NEW H, Len(M) \in Nat, Len(c) \in Nat, Heights(M, c, H),
         NEW b, Flagged(M, N, b), \A j \in 1 .. Len(c) : c[j].mark # b
  PROVE  Heights(N, c, H)
<1>1. Len(N) = Len(M)
  BY DEF Flagged
<1>2. ASSUME NEW i \in 0 .. Len(c)
      PROVE  H[i] <= Len(N) /\ ~N[H[i]].unmarked /\ N[H[i]].blk = M[H[i]].blk
  <2>1. H[i] \in 1 .. Len(M) /\ ~M[H[i]].unmarked
    BY DEF Heights
  <2>2. H[i] = 1 \/ M[H[i]].blk # b
    BY HeightOwned
  <2> QED BY <1>1, <2>1, <2>2 DEF Flagged
<1> QED BY <1>1, <1>2, HeightsMarks

LEMMA HeightsCut ==
  ASSUME NEW M, NEW N, NEW c \in Seq(FrameType), NEW d \in Seq(FrameType), NEW H,
         Len(M) \in Nat, Heights(M, c, H), Cut(M, N), Popped(c, d), On(c).mark # 0,
         H[Len(c)] = Len(M)
  PROVE  /\ Heights(N, d, H) /\ Len(N) \in 1 .. Len(M) - 1
         /\ \A i \in 0 .. Len(d) : H[i] <= Len(N) /\ i < Len(c)
<1>1. PICK n \in Nat : n = Len(c) /\ n >= 1
  BY StackLen DEF Popped
<1>2. PICK l \in Nat : l = Len(d) /\ l = n - 1
  BY <1>1, StackLen DEF Popped
<1>3. PICK m \in Nat : m = Len(M)
  OBVIOUS
<1>4. PICK k \in 1 .. m - 1 : k = Len(N)
  BY <1>3 DEF Cut
<1>5. /\ \A i \in 1 .. k : N[i] = M[i]
      /\ \A i \in k + 1 .. m - 1 : M[i].unmarked
  BY <1>3, <1>4 DEF Cut
<1>6. Heights(M, d, H)
  BY HeightsPop
<1>7. ASSUME NEW i \in 0 .. l
      PROVE  H[i] \in 1 .. k /\ i < n /\ ~N[H[i]].unmarked /\ N[H[i]] = M[H[i]]
  <2>1. H[i] \in 1 .. m /\ ~M[H[i]].unmarked
    BY <1>2, <1>3, <1>6 DEF Heights
  <2>2. i \in 0 .. n /\ n \in 0 .. n /\ i < n /\ On(c) = c[n]
    BY <1>1, <1>2 DEF On
  <2>3. H[i] < H[n]
    BY <1>1, <2>2 DEF Heights
  <2>4. H[i] <= m - 1
    BY <1>1, <1>3, <2>1, <2>3
  <2>5. H[i] \in 1 .. k
    BY <1>5, <2>1, <2>4
  <2> QED BY <1>5, <2>1, <2>2, <2>5
<1>8. \A i \in 0 .. Len(d) : H[i] <= Len(N) /\ ~N[H[i]].unmarked /\ N[H[i]].blk = M[H[i]].blk
  BY <1>2, <1>4, <1>7
<1>9. Heights(N, d, H)
  <2>1. Len(N) \in Nat /\ Len(d) \in Nat
    BY <1>2, <1>4
  <2> QED BY <1>6, <1>8, <2>1, HeightsMarks
<1> QED BY <1>1, <1>2, <1>3, <1>4, <1>7, <1>9

\* What waits after a step waited before, or has the mark b.
From(g, h, b) ==
  \A i \in 1 .. Len(h) : h[i].mark = b \/ \E k \in 1 .. Len(g) : h[i].mark = g[k].mark

LEMMA CoveredPush ==
  ASSUME NEW M, NEW g, NEW c, NEW d, NEW H, NEW I, NEW h, Len(c) \in Nat, Covered(M, g, c, H),
         Pushed(c, d), Higher(H, I, Len(c), h)
  PROVE  Covered(M, g, d, I)
<1>1. SUFFICES ASSUME NEW p \in 1 .. Len(M), M[p].unmarked
               PROVE  \E j \in 0 .. Len(d) :
                        p < I[j] /\ \A q \in p + 1 .. I[j], i \in 1 .. Len(g) : M[q].blk # g[i].mark
  BY DEF Covered
<1>2. PICK j \in 0 .. Len(c) :
        p < H[j] /\ \A q \in p + 1 .. H[j], i \in 1 .. Len(g) : M[q].blk # g[i].mark
  BY <1>1 DEF Covered
<1>3. j \in 0 .. Len(d) /\ I[j] = H[j]
  BY DEF Pushed, Higher
<1> QED BY <1>2, <1>3

LEMMA CoveredPop ==
  ASSUME NEW M, NEW g, NEW c \in Seq(FrameType), NEW d \in Seq(FrameType), NEW H,
         Heights(M, c, H), Covered(M, g, c, H), Popped(c, d), On(c).mark = 0
  PROVE  Covered(M, g, d, H) /\ H[Len(d)] = H[Len(c)]
<1>1. PICK n \in Nat : n = Len(c) /\ n >= 1
  BY StackLen DEF Popped
<1>2. PICK l \in Nat : l = Len(d) /\ l = n - 1
  BY <1>1, StackLen DEF Popped
<1>3. H[n] = H[l]
  <2>1. n \in 1 .. n /\ c[n].mark = 0
    BY <1>1 DEF On
  <2>2. H[n] = H[n - 1]
    BY <1>1, <2>1 DEF Heights
  <2> QED BY <1>2, <2>2
<1>4. ASSUME NEW p \in 1 .. Len(M), M[p].unmarked
      PROVE  \E j \in 0 .. l :
               p < H[j] /\ \A q \in p + 1 .. H[j], i \in 1 .. Len(g) : M[q].blk # g[i].mark
  <2>1. PICK j \in 0 .. n :
          p < H[j] /\ \A q \in p + 1 .. H[j], i \in 1 .. Len(g) : M[q].blk # g[i].mark
    BY <1>1, <1>4 DEF Covered
  <2>2. CASE j = n
    <3>1. l \in 0 .. l /\ H[j] = H[l]
      BY <1>3, <2>2
    <3> QED BY <2>1, <3>1
  <2>3. CASE j # n
    <3>1. j \in 0 .. l
      BY <1>2, <2>3
    <3> QED BY <2>1, <3>1
  <2> QED BY <2>2, <2>3
<1> QED BY <1>1, <1>2, <1>3, <1>4 DEF Covered

LEMMA CoveredRetop ==
  ASSUME NEW M, NEW g, NEW c, NEW d, NEW H, Covered(M, g, c, H), Retopped(c, d)
  PROVE  Covered(M, g, d, H)
BY DEF Covered, Retopped

\* A mark is set, for a generated function or for a call.
LEMMA CoveredAppend ==
  ASSUME NEW M, NEW N, NEW g, NEW h, NEW c, NEW H, Len(M) \in Nat, Len(c) \in Nat,
         Heights(M, c, H), Covered(M, g, c, H), Appended(M, N), From(g, h, N[Len(N)].blk)
  PROVE  Covered(N, h, c, H)
<1>1. PICK m \in Nat : m = Len(M)
  OBVIOUS
<1>2. PICK b : b = N[Len(N)].blk
  OBVIOUS
<1>3. /\ Len(N) = m + 1 /\ \A i \in 1 .. m : N[i] = M[i] /\ N[i].blk # b
      /\ ~N[m + 1].unmarked
  BY <1>1, <1>2 DEF Appended
<1>4. SUFFICES ASSUME NEW p \in 1 .. m + 1, N[p].unmarked
               PROVE  \E j \in 0 .. Len(c) :
                        p < H[j] /\ \A q \in p + 1 .. H[j], i \in 1 .. Len(h) : N[q].blk # h[i].mark
  BY <1>3 DEF Covered
<1>5. p \in 1 .. m
  BY <1>3, <1>4
<1>6. M[p].unmarked
  BY <1>3, <1>4, <1>5
<1>7. PICK j \in 0 .. Len(c) :
        p < H[j] /\ \A q \in p + 1 .. H[j], i \in 1 .. Len(g) : M[q].blk # g[i].mark
  BY <1>1, <1>5, <1>6 DEF Covered
<1>8. H[j] \in 1 .. m
  BY <1>1 DEF Heights
<1>9. ASSUME NEW q \in p + 1 .. H[j], NEW i \in 1 .. Len(h) PROVE N[q].blk # h[i].mark
  <2>1. q \in 1 .. m
    BY <1>5, <1>8
  <2>2. N[q].blk = M[q].blk /\ N[q].blk # b
    BY <1>3, <2>1
  <2>3. h[i].mark = b \/ \E k \in 1 .. Len(g) : h[i].mark = g[k].mark
    BY <1>2 DEF From
  <2> QED BY <1>7, <2>2, <2>3
<1> QED BY <1>7, <1>9

\* The function that waits first is taken, and its mark noted, under the top mark.
LEMMA CoveredFlag ==
  ASSUME NEW M, NEW N, NEW g, NEW h, NEW e, NEW c, NEW H, Len(M) \in Nat, Len(c) \in Nat,
         Len(g) \in Nat, Heights(M, c, H), Covered(M, h, c, H), NotesUp(M, h),
         H[Len(c)] = Len(M),
         Consed(g, h, e), Flagged(M, N, e.mark), M[Len(M)].blk # e.mark
  PROVE  Covered(N, g, c, H)
<1>1. PICK m \in Nat : m = Len(M)
  OBVIOUS
<1>2. Len(h) = Len(g) + 1 /\ h[1] = e /\ \A i \in 1 .. Len(g) : h[i + 1] = g[i]
  BY DEF Consed
<1>3. /\ Len(N) = m
      /\ \A i \in 1 .. m : /\ N[i].blk = M[i].blk
                           /\ N[i].unmarked <=> M[i].unmarked \/ (i # 1 /\ M[i].blk = e.mark)
  BY <1>1 DEF Flagged
<1>4. SUFFICES ASSUME NEW p \in 1 .. m, N[p].unmarked
               PROVE  \E j \in 0 .. Len(c) :
                        p < H[j] /\ \A q \in p + 1 .. H[j], i \in 1 .. Len(g) : N[q].blk # g[i].mark
  BY <1>3 DEF Covered
<1>5. CASE M[p].unmarked
  <2>1. PICK j \in 0 .. Len(c) :
          p < H[j] /\ \A q \in p + 1 .. H[j], i \in 1 .. Len(h) : M[q].blk # h[i].mark
    BY <1>1, <1>5 DEF Covered
  <2>2. H[j] \in 1 .. m
    BY <1>1 DEF Heights
  <2>3. ASSUME NEW q \in p + 1 .. H[j], NEW i \in 1 .. Len(g) PROVE N[q].blk # g[i].mark
    <3>1. q \in 1 .. m
      BY <2>2
    <3>2. i + 1 \in 1 .. Len(h) /\ h[i + 1] = g[i] /\ N[q].blk = M[q].blk
      BY <1>2, <1>3, <3>1
    <3> QED BY <2>1, <3>2
  <2> QED BY <2>1, <2>3
<1>6. CASE M[p].blk = e.mark
  <2>1. p # m /\ p < m
    BY <1>1, <1>6
  <2>2. ASSUME NEW q \in p + 1 .. m, NEW i \in 1 .. Len(g) PROVE N[q].blk # g[i].mark
    <3>1. q \in 1 .. m /\ p < q /\ N[q].blk = M[q].blk
      BY <1>3
    <3>2. 1 \in 1 .. Len(h) /\ i + 1 \in 1 .. Len(h) /\ 1 < i + 1 /\ h[i + 1] = g[i] /\ h[1] = e
      BY <1>2
    <3>3. M[q].blk = h[i + 1].mark => q < p
      BY <1>1, <1>6, <3>1, <3>2 DEF NotesUp
    <3> QED BY <3>1, <3>2, <3>3
  <2>3. Len(c) \in 0 .. Len(c)
    OBVIOUS
  <2> QED BY <1>1, <2>1, <2>2, <2>3
<1> QED BY <1>3, <1>4, <1>5, <1>6

\* The call on top undoes its mark, and ends.
LEMMA CoveredCut ==
  ASSUME NEW s, NEW N, NEW c \in Seq(FrameType), NEW d \in Seq(FrameType), NEW H, StOK(s),
         Owning(s.marks, s.gen, c), Heights(s.marks, c, H), Covered(s.marks, s.gen, c, H),
         Cut(s.marks, N), Popped(c, d), On(c).mark # 0, H[Len(c)] = Len(s.marks)
  PROVE  Covered(N, s.gen, d, H)
<1>0. PICK M : M = s.marks
  OBVIOUS
<1>1. PICK g : g = s.gen
  OBVIOUS
<1>2. PICK m \in Nat : m = Len(M) /\ m >= 1
  BY <1>0, TopFacts
<1>3. PICK n \in Nat : n = Len(c) /\ n >= 1
  BY StackLen DEF Popped
<1>4. PICK l \in Nat : l = Len(d) /\ l = n - 1
  BY <1>3, StackLen DEF Popped
<1>5. PICK k \in 1 .. m - 1 : k = Len(N)
  BY <1>0, <1>2 DEF Cut
<1>6. /\ \A i \in 1 .. k : N[i] = M[i]
      /\ ~N[k].unmarked
  BY <1>0, <1>2, <1>5 DEF Cut
<1>7. \A i \in 0 .. l : H[i] <= k
  BY <1>0, <1>2, <1>4, <1>5, HeightsCut
<1>8. SUFFICES ASSUME NEW p \in 1 .. k, N[p].unmarked
               PROVE  \E j \in 0 .. l :
                        p < H[j] /\ \A q \in p + 1 .. H[j], i \in 1 .. Len(g) : N[q].blk # g[i].mark
  BY <1>1, <1>4, <1>5 DEF Covered
<1>9. p \in 1 .. m /\ M[p].unmarked /\ p < k
  <2>1. N[p] = M[p] /\ p # k
    BY <1>6, <1>8
  <2> QED BY <1>8, <2>1
<1>10. PICK j \in 0 .. n :
         p < H[j] /\ \A q \in p + 1 .. H[j], i \in 1 .. Len(g) : M[q].blk # g[i].mark
  BY <1>0, <1>1, <1>2, <1>3, <1>9 DEF Covered
<1>11. CASE j # n
  <2>1. j \in 0 .. l /\ H[j] <= k
    BY <1>4, <1>7, <1>11
  <2>2. H[j] \in 1 .. m
    BY <1>0, <1>2, <1>3 DEF Heights
  <2>3. ASSUME NEW q \in p + 1 .. H[j] PROVE N[q] = M[q]
    <3>1. q \in 1 .. k
      BY <1>9, <2>1, <2>2
    <3> QED BY <1>6, <3>1
  <2> QED BY <1>10, <2>1, <2>3
<1>12. CASE j = n
  <2>1. H[j] = m
    BY <1>0, <1>2, <1>3, <1>12
  <2>2. k \in 2 .. m /\ ~M[k].unmarked /\ k \in p + 1 .. m
    <3>1. M[k] = N[k] /\ ~N[k].unmarked
      BY <1>6
    <3> QED BY <1>9, <3>1
  <2>3. PICK i \in 1 .. n : c[i].mark = M[k].blk /\ c[i].mark # 0
    <3>1. ASSUME NEW a \in 1 .. Len(g), g[a].mark = M[k].blk PROVE FALSE
      BY <1>10, <2>1, <2>2, <3>1
    <3> QED BY <1>0, <1>1, <1>2, <1>3, <2>2, <3>1 DEF Owning
  <2>4. H[i] = k
    <3>1. H[i] \in 1 .. m /\ M[H[i]].blk = M[k].blk
      BY <1>0, <1>2, <1>3, <2>3 DEF Heights
    <3>2. k \in 1 .. m
      BY <2>2
    <3> QED BY <1>0, <1>2, <3>1, <3>2, OnePlace
  <2>5. i \in 0 .. l
    <3>1. i # n
      BY <1>12, <2>1, <2>4
    <3> QED BY <1>4, <3>1
  <2>6. ASSUME NEW q \in p + 1 .. H[i] PROVE q \in p + 1 .. H[j] /\ N[q] = M[q]
    <3>1. q \in 1 .. k /\ q \in p + 1 .. m
      BY <1>9, <2>4
    <3> QED BY <1>6, <2>1, <3>1
  <2>7. p < H[i]
    BY <1>9, <2>4
  <2> QED BY <1>10, <2>5, <2>6, <2>7
<1> QED BY <1>11, <1>12

\* At the top level none is pending.
LEMMA NonePending ==
  ASSUME NEW M, NEW g, NEW H, Len(M) \in Nat, Heights(M, <<>>, H), Covered(M, g, <<>>, H),
         NEW p \in 1 .. Len(M)
  PROVE  ~M[p].unmarked
<1>1. SUFFICES ASSUME M[p].unmarked PROVE FALSE
  OBVIOUS
<1>2. Len(<<>>) = 0
  OBVIOUS
<1>3. H[0] = 1
  BY DEF Heights
<1>4. PICK j \in 0 .. 0 : p < H[j]
  BY <1>1, <1>2 DEF Covered
<1> QED BY <1>3, <1>4

\* The order of the functions that wait is kept.
LEMMA NotesUpAppend ==
  ASSUME NEW M, NEW N, NEW g, NEW c, Len(M) \in Nat, Len(g) \in Nat, NotesUp(M, g), Owning(M, g, c),
         Appended(M, N)
  PROVE  /\ NotesUp(N, g)
         /\ \A h, e : Consed(g, h, e) /\ e.mark = N[Len(N)].blk => NotesUp(N, h)
<1>1. PICK m \in Nat : m = Len(M)
  OBVIOUS
<1>2. PICK b : b = N[Len(N)].blk
  OBVIOUS
<1>3. Len(N) = m + 1 /\ \A i \in 1 .. m : N[i] = M[i] /\ N[i].blk # b
  BY <1>1, <1>2 DEF Appended
<1>4. ASSUME NEW i \in 1 .. Len(g), NEW p \in 1 .. m + 1, N[p].blk = g[i].mark
      PROVE  p \in 1 .. m /\ N[p] = M[p]
  <2>1. PICK a \in 2 .. m : M[a].blk = g[i].mark
    BY <1>1 DEF Owning
  <2>2. g[i].mark # b
    BY <1>3, <2>1
  <2>3. p # m + 1
    BY <1>2, <1>3, <1>4, <2>2
  <2>4. p \in 1 .. m
    BY <2>3
  <2> QED BY <1>3, <2>4
<1>5. NotesUp(N, g)
  <2>1. SUFFICES ASSUME NEW i \in 1 .. Len(g), NEW j \in 1 .. Len(g), NEW p \in 1 .. m + 1,
                        NEW q \in 1 .. m + 1, i < j, N[p].blk = g[i].mark, N[q].blk = g[j].mark
                 PROVE  q < p
    BY <1>3 DEF NotesUp
  <2>2. p \in 1 .. m /\ N[p] = M[p] /\ q \in 1 .. m /\ N[q] = M[q]
    BY <1>4, <2>1
  <2> QED BY <1>1, <2>1, <2>2 DEF NotesUp
<1>6. ASSUME NEW h, NEW e, Consed(g, h, e), e.mark = b PROVE NotesUp(N, h)
  <2>1. SUFFICES ASSUME NEW i \in 1 .. Len(h), NEW j \in 1 .. Len(h), NEW p \in 1 .. m + 1,
                        NEW q \in 1 .. m + 1, i < j, N[p].blk = h[i].mark, N[q].blk = h[j].mark
                 PROVE  q < p
    BY <1>3 DEF NotesUp
  <2>2. j # 1
    BY <2>1
  <2>3. j - 1 \in 1 .. Len(g) /\ h[j] = g[j - 1]
    BY <1>6, <2>2, ConsParts
  <2>4. q \in 1 .. m /\ N[q].blk = g[j - 1].mark
    BY <1>4, <2>1, <2>3
  <2>5. CASE i = 1
    <3>1. h[1].mark = b
      BY <1>6, ConsParts
    <3>2. p = m + 1
      <4>1. p \notin 1 .. m
        BY <1>3, <2>1, <2>5, <3>1
      <4> QED BY <4>1
    <3> QED BY <2>4, <3>2
  <2>6. CASE i # 1
    <3>1. i - 1 \in 1 .. Len(g) /\ h[i] = g[i - 1]
      BY <1>6, <2>6, ConsParts
    <3>2. N[p].blk = g[i - 1].mark /\ i - 1 < j - 1
      BY <2>1, <3>1
    <3> QED BY <1>3, <1>5, <2>3, <2>4, <3>1, <3>2 DEF NotesUp
  <2> QED BY <2>5, <2>6
<1> QED BY <1>2, <1>5, <1>6

LEMMA NotesUpFewer ==
  ASSUME NEW M, NEW g, NEW h, NEW e, Len(g) \in Nat, NotesUp(M, h), Consed(g, h, e)
  PROVE  NotesUp(M, g)
<1>1. SUFFICES ASSUME NEW i \in 1 .. Len(g), NEW j \in 1 .. Len(g), NEW p \in 1 .. Len(M),
                      NEW q \in 1 .. Len(M), i < j, M[p].blk = g[i].mark, M[q].blk = g[j].mark
               PROVE  q < p
  BY DEF NotesUp
<1>2. /\ i + 1 \in 1 .. Len(h) /\ h[i + 1] = g[i]
      /\ j + 1 \in 1 .. Len(h) /\ h[j + 1] = g[j] /\ i + 1 < j + 1
  BY <1>1, ConsParts
<1> QED BY <1>1, <1>2 DEF NotesUp

LEMMA NotesUpMarks ==
  ASSUME NEW M, NEW N, NEW g, NotesUp(M, g), Len(M) \in Nat, Len(N) \in Nat, Len(N) <= Len(M),
         \A i \in 1 .. Len(N) : N[i].blk = M[i].blk
  PROVE  NotesUp(N, g)
<1>1. \A p \in 1 .. Len(N) : p \in 1 .. Len(M)
  OBVIOUS
<1> QED BY <1>1 DEF NotesUp

----------------------------------------------------------------------------
(* The marks of the calls, and of the functions that wait, go together.    *)

\* A call is made, ends, or is replaced, with no mark set or undone.
LEMMA LaidPush ==
  ASSUME NEW M, NEW g, NEW c \in Seq(FrameType), NEW d, NEW H, NEW I, Len(M) \in Nat,
         Laid(M, g, c, H), Pushed(c, d), On(d).mark = 0, Higher(H, I, Len(c), H[Len(c)])
  PROVE  Laid(M, g, d, I)
<1>1. PICK n \in Nat : n = Len(c)
  BY StackLen
<1>2. Heights(M, d, I) /\ Covered(M, g, d, I)
  BY <1>1, HeightsPush, CoveredPush DEF Laid
<1>3. Close(d, I)
  <2>1. SUFFICES ASSUME NEW i \in 2 .. n + 1, d[i].mark # 0, d[i].k \in {"fn", "cg"},
                        d[i - 1].k = "fn"
                 PROVE  I[i] = I[i - 1] + 1
    BY <1>1 DEF Close, Pushed
  <2>2. i # n + 1
    BY <1>1, <2>1 DEF Pushed, On
  <2>3. i \in 2 .. n /\ i - 1 \in 1 .. n /\ i \in 1 .. n /\ i \in 0 .. n /\ i - 1 \in 0 .. n
    BY <2>1, <2>2
  <2>4. d[i] = c[i] /\ d[i - 1] = c[i - 1] /\ I[i] = H[i] /\ I[i - 1] = H[i - 1]
    BY <1>1, <2>3 DEF Pushed, Higher
  <2> QED BY <1>1, <2>1, <2>3, <2>4 DEF Laid, Close
<1> QED BY <1>2, <1>3 DEF Laid

LEMMA ClosePop ==
  ASSUME NEW c \in Seq(FrameType), NEW d \in Seq(FrameType), NEW H, Close(c, H), Popped(c, d)
  PROVE  Close(d, H)
<1>1. PICK n \in Nat : n = Len(c)
  BY StackLen
<1>2. PICK l \in Nat : l = Len(d) /\ l = n - 1 /\ \A i \in 1 .. l : d[i] = c[i]
  BY <1>1, StackLen DEF Popped
<1>3. \A i \in 2 .. l : i \in 2 .. n /\ d[i] = c[i] /\ d[i - 1] = c[i - 1]
  BY <1>2
<1> QED BY <1>1, <1>2, <1>3 DEF Close

LEMMA LaidPop ==
  ASSUME NEW M, NEW g, NEW c \in Seq(FrameType), NEW d \in Seq(FrameType), NEW H,
         Laid(M, g, c, H), Popped(c, d), On(c).mark = 0
  PROVE  Laid(M, g, d, H) /\ H[Len(d)] = H[Len(c)]
BY HeightsPop, CoveredPop, ClosePop DEF Laid

LEMMA LaidRetop ==
  ASSUME NEW M, NEW g, NEW c \in Seq(FrameType), NEW d \in Seq(FrameType), NEW H,
         Laid(M, g, c, H), Retopped(c, d), On(d).mark = On(c).mark,
         On(d).k \in {"fn", "cg"} => On(c).k \in {"fn", "cg"}
  PROVE  Laid(M, g, d, H)
<1>1. Heights(M, d, H) /\ Covered(M, g, d, H)
  BY HeightsRetop, CoveredRetop DEF Laid
<1>2. PICK n \in Nat : n = Len(c)
  BY StackLen
<1>3. Close(d, H)
  <2>1. Len(d) = n /\ \A i \in 1 .. n - 1 : d[i] = c[i]
    BY <1>2 DEF Retopped
  <2>2. SUFFICES ASSUME NEW i \in 2 .. n, d[i].mark # 0, d[i].k \in {"fn", "cg"},
                        d[i - 1].k = "fn"
                 PROVE  H[i] = H[i - 1] + 1
    BY <2>1 DEF Close
  <2>3. i - 1 \in 1 .. n - 1
    OBVIOUS
  <2>4. d[i - 1] = c[i - 1]
    BY <2>1, <2>3
  <2>5. c[i].mark # 0 /\ c[i].k \in {"fn", "cg"}
    <3>1. CASE i = n
      BY <1>2, <2>1, <2>2, <3>1 DEF On
    <3>2. CASE i # n
      <4>1. i \in 1 .. n - 1
        BY <3>2
      <4> QED BY <2>1, <2>2, <4>1
    <3> QED BY <3>1, <3>2
  <2> QED BY <1>2, <2>2, <2>4, <2>5 DEF Laid, Close
<1> QED BY <1>1, <1>3 DEF Laid

\* A generated function is noted.
LEMMA LaidNoted ==
  ASSUME NEW M, NEW N, NEW g, NEW h, NEW e, NEW c, NEW H, Len(M) \in Nat, Len(g) \in Nat,
         Len(c) \in Nat, Laid(M, g, c, H), Owning(M, g, c), Appended(M, N), Consed(g, h, e),
         e.mark = N[Len(N)].blk
  PROVE  Laid(N, h, c, H)
<1>1. From(g, h, N[Len(N)].blk)
  <2>1. SUFFICES ASSUME NEW i \in 1 .. Len(h)
                 PROVE  h[i].mark = e.mark \/ \E k \in 1 .. Len(g) : h[i].mark = g[k].mark
    BY DEF From
  <2>2. h[1] = e /\ (i = 1 \/ (i - 1 \in 1 .. Len(g) /\ h[i] = g[i - 1]))
    BY ConsParts
  <2> QED BY <2>2
<1>2. Heights(N, c, H) /\ Covered(N, h, c, H)
  BY <1>1, HeightsAppend, CoveredAppend DEF Laid
<1>3. NotesUp(N, h)
  BY NotesUpAppend DEF Laid
<1> QED BY <1>2, <1>3 DEF Laid

\* A call sets a mark.
LEMMA LaidMark ==
  ASSUME NEW M, NEW N, NEW g, NEW c \in Seq(FrameType), NEW d, NEW H, NEW I, Len(M) \in Nat,
         Len(g) \in Nat, Laid(M, g, c, H), Owning(M, g, c), Appended(M, N), Pushed(c, d),
         On(d).mark = N[Len(N)].blk, On(d).mark # 0, Higher(H, I, Len(c), Len(N)),
         On(d).k \in {"fn", "cg"} /\ c # <<>> /\ On(c).k = "fn" => H[Len(c)] = Len(M)
  PROVE  Laid(N, g, d, I) /\ I[Len(d)] = Len(N)
<1>1. PICK n \in Nat : n = Len(c)
  BY StackLen
<1>2. PICK m \in Nat : m = Len(M)
  OBVIOUS
<1>3. Len(N) = m + 1 /\ ~N[m + 1].unmarked
  BY <1>2 DEF Appended
<1>4. From(g, g, N[Len(N)].blk)
  BY DEF From
<1>5. Heights(N, c, H) /\ Covered(N, g, c, H) /\ NotesUp(N, g)
  BY <1>1, <1>4, HeightsAppend, CoveredAppend, NotesUpAppend DEF Laid
<1>6. H[n] \in 1 .. m
  BY <1>1, <1>2 DEF Laid, Heights
<1>7. Heights(N, d, I)
  <2>1. Len(N) \in 1 .. Len(N) /\ H[Len(c)] < Len(N) /\ Len(N) \in Nat
    BY <1>1, <1>3, <1>6
  <2>2. N[Len(N)].blk = On(d).mark /\ ~N[Len(N)].unmarked
    BY <1>3
  <2> QED BY <1>1, <1>5, <2>1, <2>2, HeightsPush
<1>8. Covered(N, g, d, I)
  BY <1>1, <1>5, CoveredPush
<1>9. Len(d) = n + 1 /\ (\A i \in 1 .. n : d[i] = c[i]) /\ d[n + 1] = On(d)
  BY <1>1 DEF Pushed, On
<1>10. I[n + 1] = m + 1 /\ \A i \in 0 .. n : I[i] = H[i]
  BY <1>1, <1>3 DEF Higher
<1>11. Close(d, I)
  <2>1. SUFFICES ASSUME NEW i \in 2 .. n + 1, d[i].mark # 0, d[i].k \in {"fn", "cg"},
                        d[i - 1].k = "fn"
                 PROVE  I[i] = I[i - 1] + 1
    BY <1>9 DEF Close
  <2>2. CASE i = n + 1
    <3>1. n >= 1 /\ n \in 0 .. n /\ d[n] = c[n] /\ c # <<>>
      BY <1>1, <1>9, <2>2, StackLen
    <3>2. H[n] = m
      BY <1>1, <1>2, <1>9, <2>1, <2>2, <3>1 DEF On
    <3> QED BY <1>10, <2>2, <3>1, <3>2
  <2>3. CASE i # n + 1
    <3>1. i \in 2 .. n /\ i - 1 \in 1 .. n /\ i \in 1 .. n /\ i \in 0 .. n /\ i - 1 \in 0 .. n
      BY <2>3
    <3>2. d[i] = c[i] /\ d[i - 1] = c[i - 1] /\ I[i] = H[i] /\ I[i - 1] = H[i - 1]
      BY <1>9, <1>10, <3>1
    <3> QED BY <1>1, <2>1, <3>1, <3>2 DEF Laid, Close
  <2> QED BY <2>2, <2>3
<1> QED BY <1>3, <1>5, <1>7, <1>8, <1>9, <1>10, <1>11 DEF Laid

\* The call on top undoes its mark.
LEMMA LaidCut ==
  ASSUME NEW s, NEW N, NEW c \in Seq(FrameType), NEW d \in Seq(FrameType), NEW H, StOK(s),
         Owning(s.marks, s.gen, c), Laid(s.marks, s.gen, c, H), Cut(s.marks, N), Popped(c, d),
         On(c).mark # 0, H[Len(c)] = Len(s.marks)
  PROVE  Laid(N, s.gen, d, H)
<1>1. Len(s.marks) \in Nat
  BY TopFacts
<1>2. Heights(N, d, H) /\ Len(N) \in 1 .. Len(s.marks) - 1
  BY <1>1, HeightsCut DEF Laid
<1>3. Covered(N, s.gen, d, H)
  BY CoveredCut DEF Laid
<1>4. NotesUp(N, s.gen)
  <2>1. Len(N) \in Nat /\ Len(N) <= Len(s.marks) /\ \A i \in 1 .. Len(N) : N[i].blk = s.marks[i].blk
    BY <1>1, <1>2 DEF Cut
  <2> QED BY <1>1, <2>1, NotesUpMarks DEF Laid
<1>5. Close(d, H)
  BY ClosePop DEF Laid
<1> QED BY <1>2, <1>3, <1>4, <1>5 DEF Laid

\* In a loop the function that waits first is taken, and its mark noted.
LEMMA LaidFlag ==
  ASSUME NEW M, NEW N, NEW g, NEW h, NEW e, NEW c, NEW H, Len(M) \in Nat, Len(c) \in Nat,
         Len(g) \in Nat, Laid(M, h, c, H), H[Len(c)] = Len(M), Consed(g, h, e), Owning(M, h, c),
         Flagged(M, N, e.mark), M[Len(M)].blk # e.mark
  PROVE  Laid(N, g, c, H)
<1>1. \A j \in 1 .. Len(c) : c[j].mark # e.mark
  BY ConsParts DEF Owning
<1>2. Heights(N, c, H) /\ Covered(N, g, c, H)
  BY <1>1, HeightsFlag, CoveredFlag DEF Laid
<1>3. NotesUp(N, g)
  <2>1. NotesUp(M, g)
    BY NotesUpFewer DEF Laid
  <2>2. Len(N) = Len(M) /\ \A i \in 1 .. Len(N) : N[i].blk = M[i].blk
    BY DEF Flagged
  <2> QED BY <2>1, <2>2, NotesUpMarks
<1> QED BY <1>2, <1>3 DEF Laid

\* At the top level its mark is the top one, and no other goes with it.
LEMMA TopIsFirst ==
  ASSUME NEW s, StOK(s), NEW H, Laid(s.marks, s.gen, <<>>, H), Owning(s.marks, s.gen, <<>>),
         NEW g, NEW e, Consed(g, s.gen, e), Len(g) \in Nat
  PROVE  /\ Top(s).blk = e.mark /\ Len(s.marks) >= 2
         /\ \A N : Cut(s.marks, N) => Len(N) = Len(s.marks) - 1 /\ Laid(N, g, <<>>, H)
<1>1. PICK M : M = s.marks
  OBVIOUS
<1>2. PICK m \in Nat : m = Len(M) /\ m >= 1
  BY <1>1, TopFacts
<1>3. Top(s) = M[m] /\ ~M[m].unmarked
  BY <1>1, <1>2, TopFacts DEF StOK, TopLive
<1>4. 1 \in 1 .. Len(s.gen) /\ s.gen[1] = e
  BY ConsParts
<1>5. PICK p \in 2 .. m : M[p].blk = e.mark
  BY <1>1, <1>2, <1>4 DEF Owning
<1>6. m \in 2 .. m /\ m \in 1 .. m /\ p \in 1 .. m /\ Len(<<>>) = 0
  BY <1>5
<1>7. PICK i \in 1 .. Len(s.gen) : s.gen[i].mark = M[m].blk
  BY <1>1, <1>2, <1>3, <1>6 DEF Owning
<1>8. M[m].blk = e.mark
  <2>1. i # 1 => m < p
    BY <1>1, <1>2, <1>4, <1>5, <1>6, <1>7 DEF Laid, NotesUp
  <2> QED BY <1>4, <1>5, <1>7, <2>1
<1>9. \A q \in 1 .. m : ~M[q].unmarked
  BY <1>1, <1>2, NonePending DEF Laid
<1>10. ASSUME NEW N, Cut(M, N)
       PROVE  Len(N) = m - 1 /\ Laid(N, g, <<>>, H)
  <2>1. PICK k \in 1 .. m - 1 : k = Len(N)
    BY <1>2, <1>10 DEF Cut
  <2>2. /\ \A j \in 1 .. k : N[j] = M[j]
        /\ \A j \in k + 1 .. m - 1 : M[j].unmarked
    BY <1>2, <1>10, <2>1 DEF Cut
  <2>3. k = m - 1
    <3>1. ASSUME k # m - 1 PROVE FALSE
      <4>1. m - 1 \in k + 1 .. m - 1 /\ m - 1 \in 1 .. m
        BY <3>1
      <4> QED BY <1>9, <2>2, <4>1
    <3> QED BY <3>1
  <2>4. H[0] = 1
    BY DEF Laid, Heights
  <2>5. Heights(N, <<>>, H)
    <3>1. \A j \in 0 .. 0 : H[j] = 1
      BY <2>4
    <3>2. 1 \in 1 .. k /\ ~N[1].unmarked /\ N[1] = M[1] /\ Heights(M, <<>>, H)
      BY <1>1, <1>2, <1>9, <2>2 DEF Laid
    <3>3. \A j \in 0 .. Len(<<>>) : /\ H[j] <= Len(N) /\ ~N[H[j]].unmarked
                                    /\ N[H[j]].blk = M[H[j]].blk
      BY <1>6, <2>1, <3>1, <3>2
    <3>4. Len(N) \in Nat /\ Len(M) \in Nat /\ Len(<<>>) \in Nat
      BY <1>2, <1>6, <2>1
    <3> QED BY <3>2, <3>3, <3>4, HeightsMarks
  <2>6. Covered(N, g, <<>>, H)
    <3>1. \A j \in 1 .. k : ~N[j].unmarked
      BY <1>9, <2>2
    <3> QED BY <2>1, <3>1 DEF Covered
  <2>7. NotesUp(N, g)
    <3>1. NotesUp(M, g)
      BY <1>1, NotesUpFewer DEF Laid
    <3>2. Len(N) \in Nat /\ Len(N) <= Len(M) /\ \A j \in 1 .. Len(N) : N[j].blk = M[j].blk
      BY <1>2, <2>1, <2>2
    <3> QED BY <1>2, <3>1, <3>2, NotesUpMarks
  <2>8. Close(<<>>, H)
    BY DEF Laid
  <2> QED BY <2>1, <2>3, <2>5, <2>6, <2>7, <2>8 DEF Laid
<1> QED BY <1>1, <1>2, <1>3, <1>6, <1>8, <1>10

----------------------------------------------------------------------------
(* Where the pieces of the functions are.                                  *)

AllWhole(G) == \A f \in 1 .. Len(G) : G[f].whole

\* No piece is above level n.
Low(G, n) == \A f \in 1 .. Len(G) : \A l \in G[f].store : l <= n

\* A function that waits is under its mark; one that is read is not above the marks of
\* the calls up to its own; no other has pieces, but what is built or compiled.
NotesLow(G, M, g) ==
  \A i \in 1 .. Len(g), p \in 1 .. Len(M) :
    M[p].blk = g[i].mark => \A l \in G[g[i].fn].store : l < p

CallsLow(G, c, H) ==
  \A i \in 1 .. Len(c) :
    c[i].k = "fn" /\ c[i].fn \in 1 .. Len(G) => \A l \in G[c[i].fn].store : l <= H[i]

Waits(g, f)  == \E i \in 1 .. Len(g) : g[i].fn = f
InCall(c, f) == \E i \in 1 .. Len(c) : c[i].k \in WithFn /\ c[i].fn = f

Homes(G, g, c) == \A f \in 1 .. Len(G) : G[f].store = {} \/ Waits(g, f) \/ InCall(c, f)

Safe(G, M, g, c, H) ==
  /\ AllWhole(G) /\ Low(G, Len(M)) /\ NotesLow(G, M, g) /\ CallsLow(G, c, H) /\ Homes(G, g, c)
  /\ GenKnown(g, G)

SameStore(G, K) ==
  /\ Len(K) = Len(G)
  /\ \A f \in 1 .. Len(G) : K[f].store = G[f].store /\ (K[f].whole <=> G[f].whole)

\* What is given back above all pieces is nobody's.
LEMMA Spared ==
  ASSUME NEW G, NEW K, NEW n, Given(G, K, n), Low(G, n)
  PROVE  SameStore(G, K)
<1>1. ASSUME NEW f \in 1 .. Len(G)
      PROVE  K[f].store = G[f].store /\ (K[f].whole <=> G[f].whole)
  <2>1. \A l \in G[f].store : l <= n
    BY DEF Low
  <2> QED BY <2>1 DEF Given
<1> QED BY <1>1 DEF SameStore, Given

LEMMA SafeSame ==
  ASSUME NEW G, NEW K, NEW M, NEW g, NEW c, NEW H, Safe(G, M, g, c, H), SameStore(G, K)
  PROVE  Safe(K, M, g, c, H)
<1>1. Len(K) = Len(G) /\ GenKnown(g, K)
  BY DEF Safe, SameStore, GenKnown
<1>2. AllWhole(K) /\ Low(K, Len(M))
  BY <1>1 DEF Safe, SameStore, AllWhole, Low
<1>3. NotesLow(K, M, g)
  BY DEF Safe, SameStore, NotesLow, GenKnown
<1>4. CallsLow(K, c, H)
  BY DEF Safe, SameStore, CallsLow
<1>5. Homes(K, g, c)
  BY DEF Safe, SameStore, Homes
<1> QED BY <1>1, <1>2, <1>3, <1>4, <1>5 DEF Safe

\* Pieces come to a function that is read or built; all of one that is made go.
LEMMA SafePieced ==
  ASSUME NEW G \in Seq(FnType), NEW K, NEW M, NEW g, NEW c, NEW H, NEW f, NEW m, m = Len(M),
         m \in Nat, Safe(G, M, g, c, H), Pieced(G, K, f, m), ~Waits(g, f), InCall(c, f),
         \A i \in 1 .. Len(c) : c[i].k = "fn" /\ c[i].fn = f => H[i] = m
  PROVE  Safe(K, M, g, c, H)
<1>1. /\ Len(K) = Len(G)
      /\ \A x \in 1 .. Len(G) : /\ K[x].whole = G[x].whole
                                /\ x # f => K[x].store = G[x].store
                                /\ x = f => K[x].store = G[x].store \cup {m}
  BY DEF Pieced
<1>2. GenKnown(g, K) /\ AllWhole(K)
  BY <1>1 DEF Safe, GenKnown, AllWhole
<1>3. Low(K, Len(M))
  <2>1. SUFFICES ASSUME NEW x \in 1 .. Len(G), NEW l \in K[x].store PROVE l <= m
    BY <1>1 DEF Low
  <2>2. l = m \/ l \in G[x].store
    BY <1>1
  <2>3. \A k \in G[x].store : k <= m
    BY DEF Safe, Low
  <2>4. m <= m
    OBVIOUS
  <2> QED BY <2>2, <2>3, <2>4
<1>4. NotesLow(K, M, g)
  <2>1. SUFFICES ASSUME NEW i \in 1 .. Len(g), NEW p \in 1 .. Len(M), M[p].blk = g[i].mark
                 PROVE  \A l \in K[g[i].fn].store : l < p
    BY DEF NotesLow
  <2>2. g[i].fn # f /\ g[i].fn \in 1 .. Len(G)
    BY DEF Waits, Safe, GenKnown
  <2>3. K[g[i].fn].store = G[g[i].fn].store
    BY <1>1, <2>2
  <2> QED BY <2>1, <2>3 DEF Safe, NotesLow
<1>5. CallsLow(K, c, H)
  <2>1. SUFFICES ASSUME NEW i \in 1 .. Len(c), c[i].k = "fn", c[i].fn \in 1 .. Len(G),
                        NEW l \in K[c[i].fn].store
                 PROVE  l <= H[i]
    BY <1>1 DEF CallsLow
  <2>2. \A k \in G[c[i].fn].store : k <= H[i]
    BY <2>1 DEF Safe, CallsLow
  <2>3. CASE c[i].fn = f
    <3>1. H[i] = m /\ m <= m
      BY <2>1, <2>3
    <3>2. l = m \/ l \in G[c[i].fn].store
      BY <1>1, <2>1, <2>3
    <3> QED BY <2>2, <3>1, <3>2
  <2>4. CASE c[i].fn # f
    BY <1>1, <2>1, <2>2, <2>4
  <2> QED BY <2>3, <2>4
<1>6. Homes(K, g, c)
  BY <1>1 DEF Safe, Homes
<1> QED BY <1>2, <1>3, <1>4, <1>5, <1>6 DEF Safe

LEMMA SafeMade ==
  ASSUME NEW G, NEW K, NEW M, NEW g, NEW c, NEW H, NEW f, Safe(G, M, g, c, H), OneMade(G, K, f)
  PROVE  Safe(K, M, g, c, H)
<1>1. /\ Len(K) = Len(G)
      /\ \A x \in 1 .. Len(G) : /\ K[x].whole = G[x].whole
                                /\ K[x].store = G[x].store \/ K[x].store = {}
  BY DEF OneMade
<1>2. GenKnown(g, K) /\ AllWhole(K)
  BY <1>1 DEF Safe, GenKnown, AllWhole
<1>3. Low(K, Len(M))
  BY <1>1 DEF Safe, Low
<1>4. NotesLow(K, M, g)
  BY <1>1 DEF Safe, NotesLow, GenKnown
<1>5. CallsLow(K, c, H)
  BY <1>1 DEF Safe, CallsLow
<1>6. Homes(K, g, c)
  BY <1>1 DEF Safe, Homes
<1> QED BY <1>2, <1>3, <1>4, <1>5, <1>6 DEF Safe

\* A function more, with no pieces, or one at the present level when a call reads it.
LEMMA SafeGrown ==
  ASSUME NEW G, NEW K, NEW M, NEW g, NEW c, NEW H, NEW S, NEW o, Len(G) \in Nat, Len(M) \in Nat,
         Safe(G, M, g, c, H), GrownBy(G, K, S, o),
         \/ S = {}
         \/ S = {Len(M)} /\ InCall(c, Len(G) + 1)
            /\ \A i \in 1 .. Len(c) : c[i].k = "fn" /\ c[i].fn = Len(G) + 1 => H[i] = Len(M)
  PROVE  Safe(K, M, g, c, H)
<1>1. /\ Len(K) = Len(G) + 1
      /\ \A x \in 1 .. Len(G) : K[x].store = G[x].store /\ K[x].whole = G[x].whole
      /\ K[Len(G) + 1].store = S /\ K[Len(G) + 1].whole
  BY DEF GrownBy, Alike
<1>2. \A x \in 1 .. Len(K) : x \in 1 .. Len(G) \/ x = Len(G) + 1
  BY <1>1
<1>3. GenKnown(g, K)
  BY <1>1 DEF Safe, GenKnown
<1>4. AllWhole(K)
  BY <1>1, <1>2 DEF Safe, AllWhole
<1>5. Low(K, Len(M))
  <2>1. \A l \in S : l <= Len(M)
    OBVIOUS
  <2> QED BY <1>1, <1>2, <2>1 DEF Safe, Low
<1>6. NotesLow(K, M, g)
  BY <1>1 DEF Safe, NotesLow, GenKnown
<1>7. CallsLow(K, c, H)
  <2>1. SUFFICES ASSUME NEW i \in 1 .. Len(c), c[i].k = "fn", c[i].fn \in 1 .. Len(K),
                        NEW l \in K[c[i].fn].store
                 PROVE  l <= H[i]
    BY DEF CallsLow
  <2>2. CASE c[i].fn = Len(G) + 1
    <3>1. l \in S
      BY <1>1, <2>1, <2>2
    <3>2. S = {Len(M)} /\ H[i] = Len(M)
      BY <2>1, <2>2, <3>1
    <3> QED BY <3>1, <3>2
  <2>3. CASE c[i].fn \in 1 .. Len(G)
    <3>1. l \in G[c[i].fn].store
      BY <1>1, <2>1, <2>3
    <3> QED BY <2>1, <2>3, <3>1 DEF Safe, CallsLow
  <2> QED BY <1>2, <2>1, <2>2, <2>3
<1>8. Homes(K, g, c)
  BY <1>1, <1>2 DEF Safe, Homes
<1> QED BY <1>3, <1>4, <1>5, <1>6, <1>7, <1>8 DEF Safe

LEMMA SafePush ==
  ASSUME NEW G, NEW M, NEW g, NEW c, NEW d, NEW H, NEW I, NEW h, Len(c) \in Nat,
         Safe(G, M, g, c, H), Pushed(c, d), Higher(H, I, Len(c), h),
         On(d).k = "fn" /\ On(d).fn \in 1 .. Len(G) => \A l \in G[On(d).fn].store : l <= h
  PROVE  Safe(G, M, g, d, I)
<1>1. /\ Len(d) = Len(c) + 1 /\ \A i \in 1 .. Len(c) : d[i] = c[i]
      /\ d[Len(c) + 1] = On(d)
  BY DEF Pushed, On
<1>2. I[Len(c) + 1] = h /\ \A i \in 1 .. Len(c) : I[i] = H[i]
  BY DEF Higher
<1>3. CallsLow(G, d, I)
  <2>1. SUFFICES ASSUME NEW i \in 1 .. Len(d), d[i].k = "fn", d[i].fn \in 1 .. Len(G)
                 PROVE  \A l \in G[d[i].fn].store : l <= I[i]
    BY DEF CallsLow
  <2>2. CASE i = Len(c) + 1
    BY <1>1, <1>2, <2>1, <2>2
  <2>3. CASE i # Len(c) + 1
    <3>1. i \in 1 .. Len(c)
      BY <1>1, <2>3
    <3> QED BY <1>1, <1>2, <2>1, <3>1 DEF Safe, CallsLow
  <2> QED BY <2>2, <2>3
<1>4. \A f : InCall(c, f) => InCall(d, f)
  <2>1. \A i \in 1 .. Len(c) : i \in 1 .. Len(d)
    BY <1>1
  <2> QED BY <1>1, <2>1 DEF InCall
<1> QED BY <1>3, <1>4 DEF Safe, Homes

LEMMA SafePop ==
  ASSUME NEW G, NEW M, NEW g, NEW c \in Seq(FrameType), NEW d \in Seq(FrameType), NEW H,
         Safe(G, M, g, c, H), Popped(c, d),
         \/ On(c).k \notin WithFn
         \/ On(c).fn \in 1 .. Len(G) => G[On(c).fn].store = {}
         \/ Waits(g, On(c).fn)
  PROVE  Safe(G, M, g, d, H)
<1>1. PICK n \in Nat : n = Len(c)
  BY StackLen
<1>2. PICK l \in Nat : l = Len(d) /\ l = n - 1 /\ \A i \in 1 .. l : d[i] = c[i]
  BY <1>1, StackLen DEF Popped
<1>3. \A i \in 1 .. l : i \in 1 .. n
  BY <1>2
<1>4. CallsLow(G, d, H)
  BY <1>1, <1>2, <1>3 DEF Safe, CallsLow
<1>5. Homes(G, g, d)
  <2>1. SUFFICES ASSUME NEW f \in 1 .. Len(G), G[f].store # {}, ~Waits(g, f)
                 PROVE  InCall(d, f)
    BY DEF Homes
  <2>2. PICK i \in 1 .. n : c[i].k \in WithFn /\ c[i].fn = f
    BY <1>1, <2>1 DEF Safe, Homes, InCall
  <2>3. i # n
    BY <1>1, <2>1, <2>2 DEF On
  <2>4. i \in 1 .. l
    BY <1>2, <2>3
  <2> QED BY <1>2, <2>2, <2>4 DEF InCall
<1> QED BY <1>4, <1>5 DEF Safe

LEMMA SafeRetop ==
  ASSUME NEW G, NEW M, NEW g, NEW c \in Seq(FrameType), NEW d \in Seq(FrameType), NEW H,
         Safe(G, M, g, c, H), Retopped(c, d),
         On(d).k = "fn" => On(c).k = "fn" /\ On(d).fn = On(c).fn,
         On(c).k \in WithFn => On(d).k \in WithFn /\ On(d).fn = On(c).fn
  PROVE  Safe(G, M, g, d, H)
<1>1. PICK n \in Nat : n = Len(c) /\ Len(d) = n /\ \A i \in 1 .. n - 1 : d[i] = c[i]
  BY StackLen DEF Retopped
<1>2. ASSUME NEW i \in 1 .. n
      PROVE  /\ d[i].k = "fn" => c[i].k = "fn" /\ d[i].fn = c[i].fn
             /\ c[i].k \in WithFn => d[i].k \in WithFn /\ d[i].fn = c[i].fn
  <2>1. CASE i = n
    BY <1>1, <2>1 DEF On
  <2>2. CASE i # n
    <3>1. i \in 1 .. n - 1
      BY <2>2
    <3> QED BY <1>1, <3>1
  <2> QED BY <2>1, <2>2
<1>3. CallsLow(G, d, H)
  BY <1>1, <1>2 DEF Safe, CallsLow
<1>4. Homes(G, g, d)
  BY <1>1, <1>2 DEF Safe, Homes, InCall
<1> QED BY <1>3, <1>4 DEF Safe

\* Marks come, are noted, or go with no pieces above them.
LEMMA SafeMarks ==
  ASSUME NEW G \in Seq(FnType), NEW M, NEW N, NEW g, NEW c, NEW H, Len(M) \in Nat, Len(N) \in Nat,
         Safe(G, M, g, c, H), Low(G, Len(N)),
         \A p \in 1 .. Len(N) : p <= Len(M) => N[p].blk = M[p].blk
  PROVE  Safe(G, N, g, c, H)
<1>1. NotesLow(G, N, g)
  <2>1. SUFFICES ASSUME NEW i \in 1 .. Len(g), NEW p \in 1 .. Len(N), N[p].blk = g[i].mark,
                        NEW l \in G[g[i].fn].store
                 PROVE  l < p
    BY DEF NotesLow
  <2>2. CASE p <= Len(M)
    <3>1. p \in 1 .. Len(M) /\ M[p].blk = g[i].mark
      BY <2>1, <2>2
    <3> QED BY <2>1, <3>1 DEF Safe, NotesLow
  <2>3. CASE p > Len(M)
    <3>1. g[i].fn \in 1 .. Len(G)
      BY DEF Safe, GenKnown
    <3>2. l <= Len(M)
      BY <2>1, <3>1 DEF Safe, Low
    <3>3. l \in Nat
      BY <2>1, <3>1, FnFields
    <3> QED BY <2>3, <3>2, <3>3
  <2> QED BY <2>2, <2>3
<1> QED BY <1>1 DEF Safe

\* A function waits; the first one is taken.
LEMMA SafeNoted ==
  ASSUME NEW G, NEW M, NEW g, NEW h, NEW e, NEW c, NEW H, Len(g) \in Nat, Safe(G, M, g, c, H),
         Consed(g, h, e), e.fn \in 1 .. Len(G),
         \A p \in 1 .. Len(M) : M[p].blk = e.mark => \A l \in G[e.fn].store : l < p
  PROVE  Safe(G, M, h, c, H) /\ Waits(h, e.fn)
<1>1. /\ 1 \in 1 .. Len(h) /\ h[1] = e
      /\ \A i \in 1 .. Len(h) : i = 1 \/ (i - 1 \in 1 .. Len(g) /\ h[i] = g[i - 1])
      /\ \A i \in 1 .. Len(g) : i + 1 \in 1 .. Len(h) /\ h[i + 1] = g[i]
  BY ConsParts
<1>2. GenKnown(h, G)
  BY <1>1 DEF Safe, GenKnown
<1>3. NotesLow(G, M, h)
  <2>1. SUFFICES ASSUME NEW i \in 1 .. Len(h), NEW p \in 1 .. Len(M), M[p].blk = h[i].mark
                 PROVE  \A l \in G[h[i].fn].store : l < p
    BY DEF NotesLow
  <2>2. CASE i = 1
    BY <1>1, <2>1, <2>2
  <2>3. CASE i # 1
    <3>1. i - 1 \in 1 .. Len(g) /\ h[i] = g[i - 1]
      BY <1>1, <2>3
    <3> QED BY <2>1, <3>1 DEF Safe, NotesLow
  <2> QED BY <2>2, <2>3
<1>4. \A f : Waits(g, f) => Waits(h, f)
  BY <1>1 DEF Waits
<1>5. Homes(G, h, c)
  BY <1>4 DEF Safe, Homes
<1> QED BY <1>1, <1>2, <1>3, <1>5 DEF Safe, Waits

LEMMA SafeTaken ==
  ASSUME NEW G, NEW M, NEW g, NEW h, NEW e, NEW c, NEW H, Len(g) \in Nat, Safe(G, M, h, c, H),
         Consed(g, h, e), InCall(c, e.fn)
  PROVE  Safe(G, M, g, c, H)
<1>1. /\ h[1] = e
      /\ \A i \in 1 .. Len(h) : i = 1 \/ (i - 1 \in 1 .. Len(g) /\ h[i] = g[i - 1])
      /\ \A i \in 1 .. Len(g) : i + 1 \in 1 .. Len(h) /\ h[i + 1] = g[i]
  BY ConsParts
<1>2. GenKnown(g, G)
  BY <1>1 DEF Safe, GenKnown
<1>3. NotesLow(G, M, g)
  BY <1>1 DEF Safe, NotesLow
<1>4. \A f : Waits(h, f) => Waits(g, f) \/ f = e.fn
  BY <1>1 DEF Waits
<1>5. Homes(G, g, c)
  BY <1>4 DEF Safe, Homes
<1> QED BY <1>2, <1>3, <1>5 DEF Safe

\* How low all pieces are: the functions that wait are under their marks.
LEMMA LowFrom ==
  ASSUME NEW G \in Seq(FnType), NEW M, NEW g, NEW c, NEW H, NEW b, b \in Nat,
         Safe(G, M, g, c, H), \A i \in 1 .. Len(c) : c[i].k \in WithFn => c[i].k = "fn" /\ H[i] \in 0 .. b,
         \A i \in 1 .. Len(g) : \E p \in 1 .. Len(M) : M[p].blk = g[i].mark /\ p <= b + 1
  PROVE  Low(G, b)
<1>1. SUFFICES ASSUME NEW f \in 1 .. Len(G), NEW l \in G[f].store PROVE l <= b
  BY DEF Low
<1>2. l \in Nat
  BY <1>1, FnFields
<1>3. CASE Waits(g, f)
  <2>1. PICK i \in 1 .. Len(g) : g[i].fn = f
    BY <1>3 DEF Waits
  <2>2. PICK p \in 1 .. Len(M) : M[p].blk = g[i].mark /\ p <= b + 1
    OBVIOUS
  <2>3. l < p
    BY <1>1, <2>1, <2>2 DEF Safe, NotesLow
  <2>4. p \in Int
    BY <2>2
  <2> QED BY <1>2, <2>2, <2>3, <2>4
<1>4. CASE InCall(c, f)
  <2>1. PICK i \in 1 .. Len(c) : c[i].k \in WithFn /\ c[i].fn = f
    BY <1>4 DEF InCall
  <2>2. c[i].k = "fn" /\ H[i] \in 0 .. b
    BY <2>1
  <2>3. l <= H[i]
    BY <1>1, <2>1, <2>2 DEF Safe, CallsLow
  <2> QED BY <1>2, <2>2, <2>3
<1> QED BY <1>1, <1>3, <1>4 DEF Safe, Homes

----------------------------------------------------------------------------
(* In a loop only functions to be compiled are read.                       *)

LEMMA Under ==
  ASSUME NEW c \in Seq(FrameType), NEW d \in Seq(FrameType), Nested(c), Popped(c, d)
  PROVE  (d # <<>> => Makes(On(d), On(c))) /\ (d = <<>> => Alone(On(c)) /\ Len(c) = 1)
<1>1. PICK n \in Nat : n = Len(c)
  BY StackLen
<1>2. PICK l \in Nat : l = Len(d) /\ l = n - 1 /\ \A i \in 1 .. l : d[i] = c[i]
  BY <1>1, StackLen DEF Popped
<1>3. c # <<>> /\ n >= 1 /\ On(c) = c[n]
  BY <1>1, StackLen DEF Popped, On
<1>4. ASSUME d # <<>> PROVE Makes(On(d), On(c))
  <2>1. l >= 1
    BY <1>2, <1>4, StackLen
  <2>2. l \in 1 .. n - 1 /\ l + 1 = n /\ On(d) = c[l]
    BY <1>2, <2>1 DEF On
  <2>3. Makes(c[l], c[l + 1])
    BY <1>1, <2>2 DEF Nested
  <2> QED BY <1>3, <2>2, <2>3
<1>5. ASSUME d = <<>> PROVE Alone(On(c)) /\ n = 1
  <2>1. l = 0
    BY <1>2, <1>5, StackLen
  <2>2. n = 1
    BY <1>2, <2>1
  <2> QED BY <1>3, <2>2 DEF Nested
<1> QED BY <1>1, <1>4, <1>5

LEMMA RetopParts ==
  ASSUME NEW c \in Seq(FrameType), NEW d \in Seq(FrameType), Retopped(c, d)
  PROVE  \E b \in Seq(FrameType) : Popped(c, b) /\ Pushed(b, d)
<1>1. c # <<>>
  BY DEF Retopped
<1>2. PICK b : b = Front(c)
  OBVIOUS
<1>3. b \in Seq(FrameType) /\ Popped(c, b)
  BY <1>1, <1>2, PopFacts
<1>4. PICK n \in Nat : n = Len(c) /\ Len(d) = n /\ \A i \in 1 .. n - 1 : d[i] = c[i]
  BY StackLen DEF Retopped
<1>5. Len(b) = n - 1 /\ \A i \in 1 .. n - 1 : b[i] = c[i]
  BY <1>3, <1>4 DEF Popped
<1>6. Len(d) = Len(b) + 1 /\ \A i \in 1 .. Len(b) : d[i] = b[i]
  BY <1>4, <1>5
<1> QED BY <1>3, <1>6 DEF Pushed

\* The functions go on in each step.
LEMMA StepOn ==
  ASSUME NEW s, NEW c, NEW t, NEW d, TypeInv(s, c), TypeInv(t, d), Steps(s, c, t, d)
  PROVE  FnsOn(s.fns, t.fns)
<1>1. StOK(s) /\ StOK(t) /\ s.fns \in Seq(FnType) /\ t.fns \in Seq(FnType)
  BY StFields DEF TypeInv, StOK
<1>2. CASE \/ InstanceClassOf(s, c, t, d) \/ LocalClassOf(s, c, t, d) \/ TopClassOf(s, c, t, d)
           \/ NestedClassOf(s, c, t, d) \/ EndDeclOf(s, c, t, d) \/ EndClassOf(s, c, t, d)
  <2>1. t.fns = s.fns
    BY <1>2 DEF InstanceClassOf, LocalClassOf, TopClassOf, NestedClassOf, EndDeclOf, EndClassOf,
       PendIs, MarkOf
  <2> QED BY <1>1, <2>1, FnsOnFacts
<1>3. CASE \/ ReadOf(s, c, t, d) \/ NotedOf(s, c, t, d)
  <2>1. Pieced(s.fns, t.fns, On(c).fn, Len(s.marks))
    BY <1>3 DEF ReadOf, NotedOf, NoteOf
  <2> QED BY <1>1, <2>1, FnsOnFacts
<1>4. CASE \/ DescribeOf(s, c, t, d) \/ HeadOf(s, c, t, d) \/ MembersOf(s, c, t, d)
           \/ MemberFnOf(s, c, t, d) \/ GenerateFnOf(s, c, t, d)
  <2>1. t.fns = s.fns \/ \E S, o : GrownBy(s.fns, t.fns, S, o)
    BY <1>4 DEF DescribeOf, HeadOf, MembersOf, MemberFnOf, GenerateFnOf, DescribedOf, Extra
  <2> QED BY <1>1, <2>1, FnsOnFacts
<1>5. CASE InstanceFnOf(s, c, t, d)
  <2>1. \E m : m.fns = s.fns /\ GrownBy(m.fns, t.fns, {Len(m.marks)}, FALSE)
    BY <1>5 DEF InstanceFnOf, MarkOf
  <2>2. \E S, o : GrownBy(s.fns, t.fns, S, o)
    BY <2>1
  <2> QED BY <1>1, <2>2, FnsOnFacts
<1>6. CASE EndFnOf(s, c, t, d)
  <2>1. t.fns = s.fns \/ OneMade(s.fns, t.fns, On(c).fn)
    BY <1>6 DEF EndFnOf
  <2> QED BY <1>1, <2>1, FnsOnFacts
<1>7. ASSUME NEW u, NEW v, NEW b, StOK(u), StOK(v), UnmarkOf(u, v, b) PROVE FnsOn(u.fns, v.fns)
  BY <1>7, Onwards DEF Onward
<1>8. ASSUME NEW u, NEW v, StOK(u), StOK(v), DropOf(u, v) PROVE FnsOn(u.fns, v.fns)
  BY <1>8, Onwards DEF Onward
<1>9. ASSUME NEW u, StOK(u) PROVE u.fns \in Seq(FnType)
  BY <1>9, StFields DEF StOK
<1>10. CASE EndLoopOf(s, c, t, d)
  <2>1. PICK u : StOK(u) /\ UnmarkOf(s, u, On(c).mark) /\ t.fns = u.fns
    BY <1>10 DEF EndLoopOf, PendIs
  <2> QED BY <1>1, <1>7, <2>1
<1>11. CASE PendingOf(s, c, t, d)
  <2>1. PICK e, x : /\ EntryOf(s, c, e) /\ x.fns = e.fns
                    /\ Pieced(x.fns, t.fns, s.pend[1], Len(x.marks))
    BY <1>11 DEF PendingOf, PendIs
  <2>2. StOK(e) /\ FnsOn(s.fns, e.fns)
    BY <1>1, <2>1, EntryOnward DEF Onward
  <2>3. FnsOn(e.fns, t.fns)
    BY <1>1, <1>9, <2>1, <2>2, FnsOnFacts
  <2> QED BY <1>1, <1>9, <2>2, <2>3, FnsOnTwice
<1>12. CASE SourceOf(s, c, t, d) \/ EndOfFileOf(s, c, t, d)
  <2>1. PICK e : /\ StOK(e) /\ DropOf(s, e)
                 /\ t.fns = e.fns \/ \E S, o : GrownBy(e.fns, t.fns, S, o)
    BY <1>12 DEF SourceOf, EndOfFileOf
  <2>2. FnsOn(s.fns, e.fns) /\ FnsOn(e.fns, t.fns) /\ e.fns \in Seq(FnType)
    BY <1>1, <1>8, <1>9, <2>1, FnsOnFacts
  <2> QED BY <1>1, <2>2, FnsOnTwice
<1>13. CASE GeneratedOf(s, c, t, d)
  <2>1. PICK e, x, y : /\ EntryOf(s, c, e) /\ DescribedOf(e, x) /\ StOK(y) /\ y.fns = x.fns
                       /\ UnmarkOf(y, t, s.gen[1].mark)
    BY <1>13 DEF GeneratedOf, GenTaken
  <2>2. StOK(e) /\ FnsOn(s.fns, e.fns) /\ StOK(x) /\ FnsOn(e.fns, x.fns) /\ FnsOn(y.fns, t.fns)
    BY <1>1, <1>7, <2>1, EntryOnward, DescribedOnward DEF Onward
  <2>3. FnsOn(s.fns, x.fns)
    BY <1>1, <1>9, <2>2, FnsOnTwice
  <2> QED BY <1>1, <1>9, <2>1, <2>2, <2>3, FnsOnTwice
<1>14. CASE CompiledOf(s, c, t, d)
  <2>1. PICK x, y, z :
          /\ DescribedOf(s, x) /\ StOK(y) /\ OneMade(x.fns, y.fns, On(c).fn)
          /\ StOK(z) /\ DropOf(y, z)
          /\ t = z \/ \E w : StOK(w) /\ DropOf(z, w) /\ UnmarkOf(w, t, On(c).mark)
    BY <1>14 DEF CompiledOf
  <2>2. StOK(x) /\ FnsOn(s.fns, x.fns)
    BY <1>1, <2>1, DescribedOnward DEF Onward
  <2>3. FnsOn(x.fns, y.fns)
    <3>1. OneMade(x.fns, y.fns, On(c).fn) /\ x.fns \in Seq(FnType) /\ y.fns \in Seq(FnType)
      BY <1>9, <2>1, <2>2
    <3> QED BY <3>1, FnsOnFacts
  <2>4. FnsOn(s.fns, y.fns)
    BY <1>1, <1>9, <2>1, <2>2, <2>3, FnsOnTwice
  <2>5. FnsOn(s.fns, z.fns)
    BY <1>1, <1>8, <1>9, <2>1, <2>4, FnsOnTwice
  <2>6. ASSUME NEW w, StOK(w), DropOf(z, w), UnmarkOf(w, t, On(c).mark) PROVE FnsOn(s.fns, t.fns)
    <3>1. FnsOn(z.fns, w.fns) /\ FnsOn(w.fns, t.fns)
      BY <1>1, <1>7, <1>8, <2>1, <2>6
    <3>2. FnsOn(s.fns, w.fns)
      BY <1>1, <1>9, <2>1, <2>5, <2>6, <3>1, FnsOnTwice
    <3> QED BY <1>1, <1>9, <2>6, <3>1, <3>2, FnsOnTwice
  <2> QED BY <2>1, <2>5, <2>6
<1> QED BY <1>2, <1>3, <1>4, <1>5, <1>6, <1>10, <1>11, <1>12, <1>13, <1>14 DEF Steps

\* Loops and local classes put aside what waits outside.
Keeper(r) == r.k = "loop" \/ (r.k = "class" /\ r.how = "local")

NoOnly(G, p) == \A a \in 1 .. Len(p) : ~G[p[a]].only

KeptNone(G, p, c) == \A i \in 1 .. Len(c) : Keeper(c[i]) => NoOnly(G, p)

Firm(G, p, c) ==
  /\ KeptNone(G, p, c)
  /\ \A i, j \in 1 .. Len(c) : i < j /\ Keeper(c[i]) /\ Keeper(c[j]) => NoOnly(G, c[j].saved)
  /\ \A i \in 2 .. Len(c) : c[i].k = "fn" /\ c[i - 1].k = "loop" => ~G[c[i].fn].only

LEMMA NoOnlyOn ==
  ASSUME NEW G, NEW K, FnsOn(G, K), NEW p, PendKnown(p, G)
  PROVE  NoOnly(G, p) => NoOnly(K, p)
BY DEF FnsOn, PendKnown, NoOnly

LEMMA FirmOn ==
  ASSUME NEW G, NEW K, FnsOn(G, K), NEW p, PendKnown(p, G), NEW c, AllSit(G, c), Firm(G, p, c)
  PROVE  Firm(K, p, c)
<1>1. KeptNone(K, p, c)
  BY NoOnlyOn DEF Firm, KeptNone
<1>2. ASSUME NEW i \in 1 .. Len(c), NEW j \in 1 .. Len(c), i < j, Keeper(c[i]), Keeper(c[j])
      PROVE  NoOnly(K, c[j].saved)
  <2>1. PendKnown(c[j].saved, G)
    BY DEF AllSit, Sits, PendKnown
  <2>2. NoOnly(G, c[j].saved)
    BY <1>2 DEF Firm
  <2> QED BY <2>1, <2>2, NoOnlyOn
<1>3. ASSUME NEW i \in 2 .. Len(c), c[i].k = "fn", c[i - 1].k = "loop"
      PROVE  ~K[c[i].fn].only
  <2>1. i \in 1 .. Len(c)
    OBVIOUS
  <2>2. c[i].fn \in 1 .. Len(G)
    BY <1>3, <2>1 DEF AllSit, Sits
  <2>3. K[c[i].fn].only = G[c[i].fn].only
    BY <2>2 DEF FnsOn
  <2> QED BY <1>3, <2>3 DEF Firm
<1> QED BY <1>1, <1>2, <1>3 DEF Firm

LEMMA FirmPend ==
  ASSUME NEW G, NEW p, NEW q, NEW c, Firm(G, p, c), KeptNone(G, q, c)
  PROVE  Firm(G, q, c)
BY DEF Firm

LEMMA FirmPush ==
  ASSUME NEW G, NEW p, NEW c \in Seq(FrameType), NEW d \in Seq(FrameType), Firm(G, p, c),
         Pushed(c, d),
         Keeper(On(d)) => NoOnly(G, p) /\ KeptNone(G, On(d).saved, c),
         On(d).k = "fn" /\ c # <<>> /\ On(c).k = "loop" => ~G[On(d).fn].only
  PROVE  Firm(G, p, d)
<1>1. PICK n \in Nat : n = Len(c)
  BY StackLen
<1>2. Len(d) = n + 1 /\ (\A i \in 1 .. n : d[i] = c[i]) /\ d[n + 1] = On(d)
  BY <1>1 DEF Pushed, On
<1>3. \A i \in 1 .. n + 1 : i = n + 1 \/ (i \in 1 .. n /\ d[i] = c[i])
  BY <1>2
<1>4. KeptNone(G, p, d)
  BY <1>1, <1>2, <1>3 DEF Firm, KeptNone
<1>5. ASSUME NEW i \in 1 .. n + 1, NEW j \in 1 .. n + 1, i < j, Keeper(d[i]), Keeper(d[j])
      PROVE  NoOnly(G, d[j].saved)
  <2>1. i \in 1 .. n /\ d[i] = c[i]
    BY <1>2, <1>5
  <2>2. CASE j = n + 1
    BY <1>1, <1>2, <1>5, <2>1, <2>2 DEF KeptNone
  <2>3. CASE j # n + 1
    <3>1. j \in 1 .. n /\ d[j] = c[j]
      BY <1>3, <2>3
    <3> QED BY <1>1, <1>5, <2>1, <3>1 DEF Firm
  <2> QED BY <2>2, <2>3
<1>6. ASSUME NEW i \in 2 .. n + 1, d[i].k = "fn", d[i - 1].k = "loop"
      PROVE  ~G[d[i].fn].only
  <2>1. i - 1 \in 1 .. n /\ d[i - 1] = c[i - 1]
    BY <1>2
  <2>2. CASE i = n + 1
    <3>1. n >= 1 /\ c # <<>> /\ On(c) = c[n] /\ i - 1 = n
      BY <1>1, <2>1, <2>2, StackLen DEF On
    <3> QED BY <1>2, <1>6, <2>1, <2>2, <3>1
  <2>3. CASE i # n + 1
    <3>1. i \in 2 .. n /\ d[i] = c[i]
      BY <1>2, <2>3
    <3> QED BY <1>1, <1>6, <2>1, <3>1 DEF Firm
  <2> QED BY <2>2, <2>3
<1> QED BY <1>2, <1>4, <1>5, <1>6 DEF Firm

LEMMA FirmPop ==
  ASSUME NEW G, NEW p, NEW c \in Seq(FrameType), NEW d \in Seq(FrameType), Firm(G, p, c),
         Popped(c, d)
  PROVE  Firm(G, p, d) /\ (Keeper(On(c)) => KeptNone(G, On(c).saved, d))
<1>1. PICK n \in Nat : n = Len(c)
  BY StackLen
<1>2. PICK l \in Nat : l = Len(d) /\ l = n - 1 /\ \A i \in 1 .. l : d[i] = c[i]
  BY <1>1, StackLen DEF Popped
<1>3. /\ \A i \in 1 .. l : i \in 1 .. n /\ i < n /\ n \in 1 .. n /\ d[i] = c[i]
      /\ \A i \in 2 .. l : i \in 2 .. n /\ i \in 1 .. l /\ i - 1 \in 1 .. l
  BY <1>2
<1>4. KeptNone(G, p, d)
  BY <1>1, <1>2, <1>3 DEF Firm, KeptNone
<1>5. \A i, j \in 1 .. l : i < j /\ Keeper(d[i]) /\ Keeper(d[j]) => NoOnly(G, d[j].saved)
  BY <1>1, <1>3 DEF Firm
<1>6. \A i \in 2 .. l : d[i].k = "fn" /\ d[i - 1].k = "loop" => ~G[d[i].fn].only
  BY <1>1, <1>3 DEF Firm
<1>7. ASSUME Keeper(On(c)) PROVE KeptNone(G, On(c).saved, d)
  <2>1. On(c) = c[n]
    BY <1>1 DEF On
  <2> QED BY <1>1, <1>2, <1>3, <1>7, <2>1 DEF Firm, KeptNone
<1> QED BY <1>2, <1>4, <1>5, <1>6, <1>7 DEF Firm

LEMMA FirmRetop ==
  ASSUME NEW G, NEW p, NEW c \in Seq(FrameType), NEW d \in Seq(FrameType), Firm(G, p, c),
         Retopped(c, d),
         Keeper(On(d)) => Keeper(On(c)) /\ On(d).saved = On(c).saved,
         On(d).k = "fn" => On(c).k = "fn" /\ On(d).fn = On(c).fn
  PROVE  Firm(G, p, d)
<1>1. PICK n \in Nat : n = Len(c) /\ Len(d) = n /\ \A i \in 1 .. n - 1 : d[i] = c[i]
  BY StackLen DEF Retopped
<1>2. ASSUME NEW i \in 1 .. n
      PROVE  /\ Keeper(d[i]) => Keeper(c[i]) /\ d[i].saved = c[i].saved
             /\ d[i].k = "fn" => c[i].k = "fn" /\ d[i].fn = c[i].fn
  <2>1. CASE i = n
    BY <1>1, <2>1 DEF On
  <2>2. CASE i # n
    <3>1. i \in 1 .. n - 1
      BY <2>2
    <3> QED BY <1>1, <3>1
  <2> QED BY <2>1, <2>2
<1>3. KeptNone(G, p, d)
  BY <1>1, <1>2 DEF Firm, KeptNone
<1>4. \A i, j \in 1 .. n : i < j /\ Keeper(d[i]) /\ Keeper(d[j]) => NoOnly(G, d[j].saved)
  BY <1>1, <1>2 DEF Firm
<1>5. ASSUME NEW i \in 2 .. n, d[i].k = "fn", d[i - 1].k = "loop" PROVE ~G[d[i].fn].only
  <2>1. i \in 1 .. n /\ i - 1 \in 1 .. n - 1
    OBVIOUS
  <2>2. d[i - 1] = c[i - 1]
    BY <1>1, <2>1
  <2>3. c[i].k = "fn" /\ d[i].fn = c[i].fn
    BY <1>2, <1>5, <2>1
  <2> QED BY <1>1, <1>5, <2>2, <2>3 DEF Firm
<1> QED BY <1>1, <1>3, <1>4, <1>5 DEF Firm

LEMMA PlainNot ==
  ASSUME Plain
  PROVE  /\ "core" \notin features /\ "build" \notin features /\ "debug" \notin features
         /\ "template" \notin features /\ Sound
BY DEF Plain, Sound

\* A loop or a local class is in the body of a function.
LEMMA KeeperInBody ==
  ASSUME NEW c \in Seq(FrameType), Nested(c), c # <<>>, On(c).k = "class", NEW i \in 1 .. Len(c),
         Keeper(c[i])
  PROVE  \E j \in 1 .. Len(c) : c[j].k \in {"fn", "build"}
<1>1. PICK n \in Nat : n = Len(c) /\ n >= 1
  BY StackLen
<1>2. i \in 1 .. n /\ c[n].k = "class"
  BY <1>1 DEF On
<1>3. \A j \in 1 .. n - 1 : Makes(c[j], c[j + 1])
  BY <1>1 DEF Nested
<1>4. CASE c[i].k = "class" /\ c[i].how = "local"
  <2>1. i # 1
    BY <1>4 DEF Nested, Alone
  <2>2. i - 1 \in 1 .. n - 1 /\ (i - 1) + 1 = i /\ i - 1 \in 1 .. n
    BY <1>2, <2>1
  <2>3. Makes(c[i - 1], c[i])
    BY <1>3, <2>2
  <2>4. c[i - 1].k = "fn"
    BY <1>4, <2>3 DEF Makes
  <2> QED BY <1>1, <2>2, <2>4
<1>5. CASE c[i].k = "loop"
  <2>1. i # n
    BY <1>2, <1>5
  <2>2. i \in 1 .. n - 1 /\ i + 1 \in 1 .. n
    BY <1>2, <2>1
  <2>3. c[i + 1].k \in {"fn", "cg"}
    BY <1>3, <1>5, <2>2 DEF Makes
  <2>4. c[i + 1].k # "cg"
    <3>1. SUFFICES ASSUME c[i + 1].k = "cg" PROVE FALSE
      OBVIOUS
    <3>2. i + 1 # n
      BY <1>2, <3>1
    <3>3. i + 1 \in 1 .. n - 1
      BY <2>2, <3>2
    <3>4. Makes(c[i + 1], c[(i + 1) + 1])
      BY <1>3, <3>3
    <3> QED BY <3>1, <3>4 DEF Makes
  <2> QED BY <1>1, <2>2, <2>3, <2>4
<1> QED BY <1>4, <1>5 DEF Keeper

\* None waits; fewer do; one more does.
LEMMA KeptNoneLists ==
  ASSUME NEW G, NEW p, NEW c
  PROVE  /\ KeptNone(G, <<>>, c)
         /\ \A q, e : Consed(q, p, e) /\ Len(q) \in Nat /\ KeptNone(G, p, c) =>
              /\ KeptNone(G, q, c)
              /\ \A i \in 1 .. Len(c) : Keeper(c[i]) => ~G[e].only
         /\ \A q, e : /\ Queued(p, q, e) /\ Len(p) \in Nat /\ KeptNone(G, p, c)
                      /\ \A i \in 1 .. Len(c) : Keeper(c[i]) => ~G[e].only
              => KeptNone(G, q, c)
<1>1. KeptNone(G, <<>>, c)
  <2>1. Len(<<>>) = 0 /\ \A i \in 1 .. 0 : FALSE
    OBVIOUS
  <2> QED BY <2>1 DEF KeptNone, NoOnly
<1>2. ASSUME NEW q, NEW e, Consed(q, p, e), Len(q) \in Nat, KeptNone(G, p, c)
      PROVE  /\ KeptNone(G, q, c)
             /\ \A i \in 1 .. Len(c) : Keeper(c[i]) => ~G[e].only
  <2>1. /\ 1 \in 1 .. Len(p) /\ p[1] = e
        /\ \A i \in 1 .. Len(q) : i + 1 \in 1 .. Len(p) /\ p[i + 1] = q[i]
    BY <1>2, ConsParts
  <2> QED BY <1>2, <2>1 DEF KeptNone, NoOnly
<1>3. ASSUME NEW q, NEW e, Queued(p, q, e), Len(p) \in Nat, KeptNone(G, p, c),
             \A i \in 1 .. Len(c) : Keeper(c[i]) => ~G[e].only
      PROVE  KeptNone(G, q, c)
  <2>1. \A a \in 1 .. Len(q) : q[a] = e \/ (a \in 1 .. Len(p) /\ q[a] = p[a])
    BY <1>3 DEF Queued
  <2> QED BY <1>3, <2>1 DEF KeptNone, NoOnly
<1> QED BY <1>1, <1>2, <1>3

\* What waits after the steps that push and pop.
LEMMA PendSames ==
  ASSUME NEW s, NEW c, NEW t, NEW d
  PROVE  /\ GeneratedOf(s, c, t, d) \/ SourceOf(s, c, t, d) \/ EndOfFileOf(s, c, t, d) => t.pend = s.pend
         /\ ReadOf(s, c, t, d) \/ DescribeOf(s, c, t, d) \/ HeadOf(s, c, t, d) => t.pend = s.pend
         /\ MembersOf(s, c, t, d) \/ NotedOf(s, c, t, d) \/ EndFnOf(s, c, t, d) => t.pend = s.pend
         /\ CompiledOf(s, c, t, d) \/ InstanceFnOf(s, c, t, d) \/ GenerateFnOf(s, c, t, d)
              => t.pend = s.pend
         /\ InstanceClassOf(s, c, t, d) \/ TopClassOf(s, c, t, d) \/ NestedClassOf(s, c, t, d)
              \/ EndDeclOf(s, c, t, d) => t.pend = s.pend
<1>1. ASSUME GeneratedOf(s, c, t, d) PROVE t.pend = s.pend
  <2>1. PICK e, x, y : /\ EntryOf(s, c, e) /\ DescribedOf(e, x) /\ GenTaken(x, y)
                       /\ UnmarkOf(y, t, s.gen[1].mark)
    BY <1>1 DEF GeneratedOf
  <2>2. e.pend = s.pend
    BY <2>1 DEF EntryOf, DropOf, Lists
  <2>3. x.pend = e.pend
    BY <2>1 DEF DescribedOf, Extra
  <2> QED BY <2>1, <2>2, <2>3 DEF GenTaken, UnmarkOf, Lists
<1>2. ASSUME CompiledOf(s, c, t, d) PROVE t.pend = s.pend
  <2>1. PICK x, y, z :
          /\ DescribedOf(s, x) /\ Still(x, y) /\ DropOf(y, z)
          /\ t = z \/ \E w : DropOf(z, w) /\ UnmarkOf(w, t, On(c).mark)
    BY <1>2 DEF CompiledOf
  <2>2. z.pend = s.pend
    BY <2>1 DEF DescribedOf, Extra, Still, DropOf, Lists
  <2> QED BY <2>1, <2>2 DEF DropOf, UnmarkOf, Lists
<1>3. SourceOf(s, c, t, d) \/ EndOfFileOf(s, c, t, d) => t.pend = s.pend
  BY DEF SourceOf, EndOfFileOf, DropOf, Lists, Still
<1>4. ReadOf(s, c, t, d) \/ DescribeOf(s, c, t, d) \/ HeadOf(s, c, t, d) => t.pend = s.pend
  BY DEF ReadOf, DescribeOf, HeadOf, DescribedOf, Extra, Lists
<1>5. MembersOf(s, c, t, d) \/ NotedOf(s, c, t, d) \/ EndFnOf(s, c, t, d) => t.pend = s.pend
  BY DEF MembersOf, NotedOf, NoteOf, EndFnOf, Still, Lists
<1>6. InstanceFnOf(s, c, t, d) \/ GenerateFnOf(s, c, t, d) => t.pend = s.pend
  BY DEF InstanceFnOf, GenerateFnOf, MarkOf, Still, Lists
<1>7. InstanceClassOf(s, c, t, d) \/ TopClassOf(s, c, t, d) \/ NestedClassOf(s, c, t, d)
        \/ EndDeclOf(s, c, t, d) => t.pend = s.pend
  BY DEF InstanceClassOf, TopClassOf, NestedClassOf, EndDeclOf
<1> QED BY <1>1, <1>2, <1>3, <1>4, <1>5, <1>6, <1>7

LEMMA StepFirm ==
  ASSUME NEW s, NEW c, NEW t, NEW d, Plain, TypeInv(s, c), TypeInv(t, d), KnownInv(s, c), Nested(c),
         Firm(s.fns, s.pend, c), Steps(s, c, t, d)
  PROVE  Firm(t.fns, t.pend, d)
<1>1. c \in Seq(FrameType) /\ d \in Seq(FrameType) /\ StOK(s) /\ StOK(t)
  BY DEF TypeInv
<1>2. PICK K : K = t.fns
  OBVIOUS
<1>3. Firm(K, s.pend, c)
  <2>1. FnsOn(s.fns, t.fns) /\ PendKnown(s.pend, s.fns) /\ AllSit(s.fns, c)
    BY StepOn DEF KnownInv
  <2> QED BY <1>2, <2>1, FirmOn
<1>4. Len(s.pend) \in Nat /\ Len(t.pend) \in Nat
  BY <1>1, LenFacts
<1>5. CASE d = c /\ t.pend = s.pend
  BY <1>2, <1>3, <1>5
<1>6. CASE /\ t.pend = s.pend /\ Pushed(c, d) /\ ~Keeper(On(d))
           /\ On(d).k = "fn" => c = <<>> \/ On(c).k # "loop"
  BY <1>1, <1>2, <1>3, <1>6, FirmPush
<1>7. CASE t.pend = s.pend /\ Popped(c, d)
  BY <1>1, <1>2, <1>3, <1>7, FirmPop
<1>8. CASE GeneratedOf(s, c, t, d)
  BY <1>6, <1>8, PendSames DEF GeneratedOf, FrameIs, Keeper
<1>9. CASE PendingOf(s, c, t, d)
  <2>1. /\ Pushed(c, d) /\ On(d).k = "fn" /\ On(d).fn = s.pend[1]
        /\ Consed(t.pend, s.pend, s.pend[1])
    BY <1>9 DEF PendingOf, FrameIs, Still, Lists
  <2>2. KeptNone(K, s.pend, c)
    BY <1>3 DEF Firm
  <2>3. /\ KeptNone(K, t.pend, c)
        /\ \A i \in 1 .. Len(c) : Keeper(c[i]) => ~K[s.pend[1]].only
    BY <1>4, <2>1, <2>2, KeptNoneLists
  <2>4. Firm(K, t.pend, c)
    BY <1>3, <2>3, FirmPend
  <2>5. ASSUME c # <<>>, On(c).k = "loop" PROVE ~K[On(d).fn].only
    <3>1. Len(c) \in 1 .. Len(c)
      BY <1>1, <2>5, StackLen
    <3> QED BY <2>1, <2>3, <2>5, <3>1 DEF Keeper, On
  <2>6. ~Keeper(On(d))
    BY <2>1 DEF Keeper
  <2> QED BY <1>1, <1>2, <2>1, <2>4, <2>5, <2>6, FirmPush
<1>10. CASE SourceOf(s, c, t, d)
  <2>1. t.pend = s.pend
    BY <1>10, PendSames
  <2>2. c = <<>> /\ Pushed(c, d) /\ On(d).k \in {"fn", "decl"}
    BY <1>10 DEF SourceOf, FrameIs
  <2> QED BY <1>6, <2>1, <2>2 DEF Keeper
<1>11. CASE EndOfFileOf(s, c, t, d) \/ ReadOf(s, c, t, d) \/ DescribeOf(s, c, t, d)
  <2>1. t.pend = s.pend
    BY <1>11, PendSames
  <2> QED BY <1>5, <1>11, <2>1 DEF EndOfFileOf, ReadOf, DescribeOf
<1>12. CASE \/ HeadOf(s, c, t, d) \/ MembersOf(s, c, t, d)
            \/ (EndFnOf(s, c, t, d) /\ ~Popped(c, d))
  <2>1. t.pend = s.pend
    BY <1>12, PendSames
  <2>2. Retopped(c, d) /\ On(c).k = "fn" /\ On(d).k \in {"fn", "cg"} /\ On(d).fn = On(c).fn
    BY <1>12, PlainNot DEF HeadOf, MembersOf, EndFnOf, FrameIs
  <2>3. ~Keeper(On(d))
    BY <2>2 DEF Keeper
  <2> QED BY <1>1, <1>2, <1>3, <2>1, <2>2, <2>3, FirmRetop
<1>13. CASE \/ NotedOf(s, c, t, d) \/ CompiledOf(s, c, t, d) \/ EndDeclOf(s, c, t, d)
            \/ (EndFnOf(s, c, t, d) /\ Popped(c, d))
  <2>1. t.pend = s.pend
    BY <1>13, PendSames
  <2> QED BY <1>7, <1>13, <2>1 DEF NotedOf, CompiledOf, EndDeclOf
<1>14. CASE InstanceFnOf(s, c, t, d)
  <2>1. t.pend = s.pend
    BY <1>14, PendSames
  <2>2. Pushed(c, d) /\ On(d).k = "fn" /\ On(c).k # "loop"
    BY <1>14 DEF InstanceFnOf, FrameIs, UsingOf
  <2> QED BY <1>6, <2>1, <2>2 DEF Keeper
<1>15. CASE InstanceClassOf(s, c, t, d) \/ TopClassOf(s, c, t, d) \/ NestedClassOf(s, c, t, d)
  <2>1. t.pend = s.pend
    BY <1>15, PendSames
  <2>2. Pushed(c, d) /\ On(d).k = "class" /\ On(d).how # "local"
    BY <1>15 DEF InstanceClassOf, TopClassOf, NestedClassOf, FrameIs
  <2> QED BY <1>6, <2>1, <2>2 DEF Keeper
<1>16. CASE LocalClassOf(s, c, t, d)
  <2>1. t.pend = <<>> /\ Pushed(c, d) /\ On(d).k = "class" /\ On(d).saved = s.pend
    BY <1>16 DEF LocalClassOf, PendIs, FrameIs
  <2>2. KeptNone(K, s.pend, c) /\ Firm(K, t.pend, c)
    BY <1>3, <2>1, KeptNoneLists, FirmPend DEF Firm
  <2>3. NoOnly(K, t.pend)
    <3>1. \A i \in 1 .. 0 : FALSE
      OBVIOUS
    <3>2. Len(t.pend) = 0
      BY <2>1
    <3> QED BY <3>1, <3>2 DEF NoOnly
  <2> QED BY <1>1, <1>2, <2>1, <2>2, <2>3, FirmPush
<1>17. CASE MemberFnOf(s, c, t, d)
  <2>1. PICK only \in BOOLEAN :
          /\ (\E i \in 1 .. Len(c) : c[i].k \in {"fn", "build"}) => ~only
          /\ GrownBy(s.fns, t.fns, {}, only)
    BY <1>17, PlainNot DEF MemberFnOf
  <2>2. K[Len(s.fns) + 1].only = only
    BY <1>2, <2>1 DEF GrownBy
  <2>3. Queued(s.pend, t.pend, Len(s.fns) + 1) /\ d = c /\ c # <<>> /\ On(c).k = "class"
    BY <1>17 DEF MemberFnOf
  <2>4. \A i \in 1 .. Len(c) : Keeper(c[i]) => ~K[Len(s.fns) + 1].only
    BY <1>1, <2>1, <2>2, <2>3, KeeperInBody
  <2>5. KeptNone(K, s.pend, c)
    BY <1>3 DEF Firm
  <2>6. KeptNone(K, t.pend, c)
    BY <1>4, <2>3, <2>4, <2>5, KeptNoneLists
  <2> QED BY <1>2, <1>3, <2>3, <2>6, FirmPend
<1>18. CASE GenerateFnOf(s, c, t, d)
  <2>1. t.pend = s.pend
    BY <1>18, PendSames
  <2>2. PICK b : /\ Retopped(c, b) /\ FrameIs(On(b), "class", On(c).fn, On(c).mark, On(c).saved, On(c).how)
                 /\ b \in Seq(FrameType) /\ b # <<>>
                 /\ Pushed(b, d) /\ FrameIs(On(d), "build", Len(s.fns) + 1, 0, <<>>, "top")
    BY <1>18 DEF GenerateFnOf
  <2>3. On(c).k = "class"
    BY <1>18 DEF GenerateFnOf
  <2>4. /\ Keeper(On(b)) => Keeper(On(c)) /\ On(b).saved = On(c).saved
        /\ On(b).k # "fn"
    BY <2>2, <2>3 DEF FrameIs, Keeper
  <2>5. Firm(K, s.pend, b)
    BY <1>1, <1>3, <2>2, <2>4, FirmRetop
  <2>6. ~Keeper(On(d)) /\ On(d).k # "fn"
    BY <2>2 DEF FrameIs, Keeper
  <2> QED BY <1>1, <1>2, <2>1, <2>2, <2>5, <2>6, FirmPush
<1>19. CASE EndClassOf(s, c, t, d)
  <2>1. CASE On(c).how = "local" /\ MarkOf(s, t) /\ Retopped(c, d) /\ On(d).k = "loop" /\ On(d).saved = On(c).saved
    <3>1. t.pend = s.pend
      BY <2>1 DEF MarkOf, Lists
    <3>2. Keeper(On(c)) /\ On(d).k # "fn"
      BY <1>19, <2>1 DEF EndClassOf, Keeper
    <3> QED BY <1>1, <1>2, <1>3, <2>1, <3>1, <3>2, FirmRetop
  <2>2. CASE On(c).how = "local" /\ PendIs(s, t, On(c).saved) /\ Popped(c, d)
    <3>1. Keeper(On(c)) /\ t.pend = On(c).saved
      BY <1>19, <2>2 DEF EndClassOf, Keeper, PendIs
    <3>2. Firm(K, s.pend, d) /\ KeptNone(K, t.pend, d)
      BY <1>1, <1>3, <2>2, <3>1, FirmPop
    <3> QED BY <1>2, <3>2, FirmPend
  <2>3. CASE \E m : MarkOf(s, m) /\ PendIs(m, t, <<>>) /\ Retopped(c, d) /\ On(d).k = "loop" /\ On(d).saved = s.pend
    <3>1. t.pend = <<>> /\ Retopped(c, d) /\ On(d).k = "loop" /\ On(d).saved = s.pend
      BY <2>3 DEF PendIs
    <3>2. PICK b \in Seq(FrameType) : Popped(c, b) /\ Pushed(b, d)
      BY <1>1, <3>1, RetopParts
    <3>3. Firm(K, s.pend, b)
      BY <1>1, <1>3, <3>2, FirmPop
    <3>4. KeptNone(K, s.pend, b) /\ Firm(K, t.pend, b)
      BY <3>1, <3>3, KeptNoneLists, FirmPend DEF Firm
    <3>5. NoOnly(K, t.pend)
      <4>1. \A i \in 1 .. 0 : FALSE
        OBVIOUS
      <4>2. Len(t.pend) = 0
        BY <3>1
      <4> QED BY <4>1, <4>2 DEF NoOnly
    <3> QED BY <1>1, <1>2, <3>1, <3>2, <3>4, <3>5, FirmPush
  <2>4. CASE t = s /\ Popped(c, d)
    BY <1>7, <2>4
  <2> QED BY <1>19, <2>1, <2>2, <2>3, <2>4 DEF EndClassOf, FrameIs
<1>20. CASE EndLoopOf(s, c, t, d)
  <2>1. Keeper(On(c)) /\ t.pend = On(c).saved /\ Popped(c, d)
    BY <1>20 DEF EndLoopOf, Keeper, PendIs
  <2>2. Firm(K, s.pend, d) /\ KeptNone(K, t.pend, d)
    BY <1>1, <1>3, <2>1, FirmPop
  <2> QED BY <1>2, <2>2, FirmPend
<1> QED BY <1>8, <1>9, <1>10, <1>11, <1>12, <1>13, <1>14, <1>15, <1>16, <1>17, <1>18, <1>19, <1>20
       DEF Steps

----------------------------------------------------------------------------
(* What each step leaves of the store, with none of the features.          *)

\* A loop starts from the segment its mark has kept.
Settled(s, c) == c # <<>> /\ On(c).k = "loop" => s.seg = Top(s).seg

\* What is known of a state with none of the features.
Good(s, c) ==
  /\ TypeInv(s, c) /\ KnownInv(s, c) /\ s.out = "ok" /\ Owned(s, c) /\ OncePlaced(s, c)
  /\ Nested(c) /\ Firm(s.fns, s.pend, c) /\ Settled(s, c)

Sure(s, c, H) ==
  /\ Laid(s.marks, s.gen, c, H) /\ Reached(s.marks, c, H)
  /\ Safe(s.fns, s.marks, s.gen, c, H)

Sured(t, d) == t.out = "ok" /\ \E I : Sure(t, d, I)

Kept(t, d) == t.out = "ok" => Owning(t.marks, t.gen, d)

LEMMA GoodFacts ==
  ASSUME NEW s, NEW c, Plain, Good(s, c)
  PROVE  /\ StOK(s) /\ s \in StType /\ c \in Seq(FrameType) /\ s.out = "ok"
         /\ s.fns \in Seq(FnType) /\ Len(s.fns) \in Nat
         /\ Len(s.marks) \in Nat /\ Len(s.marks) >= 1 /\ Len(s.gen) \in Nat /\ Len(s.pend) \in Nat
         /\ Top(s) = s.marks[Len(s.marks)] /\ Top(s).seg \in 0 .. MaxHunks
         /\ Owning(s.marks, s.gen, c) /\ AllSit(s.fns, c) /\ (c # <<>> => Sits(s.fns, On(c)))
         /\ PendKnown(s.pend, s.fns) /\ GenKnown(s.gen, s.fns)
         /\ Nested(c) /\ Firm(s.fns, s.pend, c) /\ Owned(s, c) /\ Settled(s, c)
         /\ \A q \in 1 .. Len(s.marks) : s.marks[q].blk \in Nat
<1>1. TypeInv(s, c) /\ KnownInv(s, c) /\ Owned(s, c)
  BY DEF Good
<1>2. StOK(s) /\ c \in Seq(FrameType)
  BY <1>1 DEF TypeInv
<1>3. s \in StType
  BY <1>2 DEF StOK
<1>4. Len(s.marks) \in Nat /\ Len(s.marks) >= 1
  BY <1>2, TopFacts
<1>5. Owning(s.marks, s.gen, c)
  BY <1>1, <1>4, PlainNot, OwnedOwning
<1>6. c # <<>> => Sits(s.fns, On(c))
  BY <1>1, OnTopSits
<1>7. AllSit(s.fns, c) /\ PendKnown(s.pend, s.fns) /\ GenKnown(s.gen, s.fns)
  BY <1>1 DEF KnownInv
<1>8. s.fns \in Seq(FnType)
  BY <1>3, StFields
<1>9. Len(s.fns) \in Nat /\ Len(s.gen) \in Nat /\ Len(s.pend) \in Nat
  BY <1>2, LenFacts
<1>10. Top(s) = s.marks[Len(s.marks)] /\ Top(s).seg \in 0 .. MaxHunks
  BY <1>2, TopFacts
<1>11. Nested(c) /\ Firm(s.fns, s.pend, c) /\ Settled(s, c) /\ s.out = "ok"
  BY DEF Good
<1>12. ASSUME NEW q \in 1 .. Len(s.marks) PROVE s.marks[q].blk \in Nat
  <2>1. s.marks \in Seq(MarkType)
    BY <1>3, StFields
  <2>2. s.marks[q].blk \in Blk
    BY <2>1, MarkFields
  <2> QED BY <2>2 DEF Blk
<1> QED BY <1>1, <1>2, <1>3, <1>4, <1>5, <1>6, <1>7, <1>8, <1>9, <1>10, <1>11, <1>12

\* A function waits, or is read, built or compiled, in one place.
LEMMA GoodApart ==
  ASSUME NEW s, NEW c, Plain, Good(s, c)
  PROVE  /\ \A i, j \in 1 .. Len(c) : c[i].k \in WithFn /\ c[j].k \in WithFn /\ c[i].fn = c[j].fn => i = j
         /\ \A i \in 1 .. Len(s.gen), j \in 1 .. Len(c) : c[j].k \in WithFn => s.gen[i].fn # c[j].fn
         /\ \A i \in 1 .. Len(s.pend) : ~Waits(s.gen, s.pend[i]) /\ ~InCall(c, s.pend[i])
<1>1. PICK G, P, C : Placed(s, c, G, P, C)
  BY DEF Good, OncePlaced
<1>2. ASSUME NEW i \in 1 .. Len(c), c[i].k \in WithFn PROVE Holds(c[i]) = {c[i].fn}
  <2>1. Sits(s.fns, c[i])
    BY GoodFacts DEF AllSit
  <2> QED BY <1>2, <2>1, SitsHolds, PlainNot DEF WithFn
<1>3. CtlSet(c, C) /\ GenSet(s.gen, G) /\ PendSet(s.pend, P)
  BY <1>1 DEF Placed
<1>4. ASSUME NEW i \in 1 .. Len(c), NEW j \in 1 .. Len(c), c[i].k \in WithFn, c[j].k \in WithFn,
             c[i].fn = c[j].fn
      PROVE  i = j
  <2>1. Holds(c[i]) \cap Holds(c[j]) # {}
    BY <1>2, <1>4
  <2> QED BY <1>3, <2>1 DEF CtlSet
<1>5. \A i \in 1 .. Len(c) : c[i].k \in WithFn => c[i].fn \in C
  BY <1>2, <1>3 DEF CtlSet
<1>6. \A i \in 1 .. Len(s.gen) : s.gen[i].fn \in G
  BY <1>3 DEF GenSet
<1>7. \A i \in 1 .. Len(s.pend) : s.pend[i] \in P
  BY <1>3 DEF PendSet
<1>8. G \cap P = {} /\ G \cap C = {} /\ P \cap C = {}
  BY <1>1 DEF Placed
<1> QED BY <1>4, <1>5, <1>6, <1>7, <1>8 DEF Waits, InCall

\* Under the call on top nothing is built or compiled.
LEMMA OnlyRead ==
  ASSUME NEW c \in Seq(FrameType), Plain, Nested(c), NEW i \in 1 .. Len(c), i # Len(c),
         c[i].k \in WithFn
  PROVE  c[i].k = "fn"
<1>1. PICK n \in Nat : n = Len(c)
  BY StackLen
<1>2. i \in 1 .. n - 1
  BY <1>1
<1>3. Makes(c[i], c[i + 1])
  BY <1>1, <1>2 DEF Nested
<1> QED BY <1>3, PlainNot DEF Makes, WithFn

\* More trees are read or built.
LEMMA ReadSure ==
  ASSUME NEW s, NEW c, NEW t, NEW d, Plain, Good(s, c), NEW H, Sure(s, c, H), ReadOf(s, c, t, d)
  PROVE  Sured(t, d)
<1>1. PICK M : M = s.marks
  OBVIOUS
<1>2. PICK n \in Nat : n = Len(c) /\ n \in 1 .. n
  <2>1. c # <<>> /\ c \in Seq(FrameType)
    BY GoodFacts DEF ReadOf
  <2> QED BY <2>1, StackLen
<1>3. On(c) = c[n] /\ On(c).k \in {"fn", "build"}
  BY <1>2 DEF On, ReadOf
<1>4. ~Waits(s.gen, On(c).fn) /\ InCall(c, On(c).fn)
  BY <1>2, <1>3, GoodApart DEF Waits, InCall, WithFn
<1>5. ASSUME NEW i \in 1 .. Len(c), c[i].k = "fn", c[i].fn = On(c).fn PROVE H[i] = Len(M)
  <2>1. i = n
    BY <1>2, <1>3, <1>5, GoodApart DEF WithFn
  <2>2. Reads(c)
    BY <1>3, <1>5, <2>1 DEF Reads, ReadOf
  <2> QED BY <1>1, <1>2, <2>1, <2>2 DEF Sure, Reached
<1>6. Pieced(s.fns, t.fns, On(c).fn, Len(M))
  BY <1>1 DEF ReadOf
<1>7. Safe(t.fns, M, s.gen, c, H)
  <2>1. Safe(s.fns, M, s.gen, c, H)
    BY <1>1 DEF Sure
  <2>2. Len(M) \in Nat /\ s.fns \in Seq(FnType)
    BY <1>1, GoodFacts
  <2> QED BY <1>4, <1>5, <1>6, <2>1, <2>2, SafePieced
<1>8. t.marks = s.marks /\ t.gen = s.gen /\ d = c /\ t.out = "ok"
  BY GoodFacts DEF ReadOf, Lists
<1>9. Sure(t, d, H)
  BY <1>1, <1>7, <1>8 DEF Sure
<1> QED BY <1>8, <1>9 DEF Sured

\* A function is read on, or its tree is done.
LEMMA NextPartSure ==
  ASSUME NEW s, NEW c, NEW t, NEW d \in Seq(FrameType), Plain, Good(s, c), NEW H, Sure(s, c, H),
         t = s, Retopped(c, d), On(c).k = "fn", On(d).k \in {"fn", "cg"}, On(d).fn = On(c).fn,
         On(d).mark = On(c).mark
  PROVE  Sured(t, d)
<1>1. c \in Seq(FrameType) /\ t.out = "ok"
  BY GoodFacts
<1>2. Laid(s.marks, s.gen, d, H)
  BY <1>1, LaidRetop DEF Sure
<1>3. Safe(s.fns, s.marks, s.gen, d, H)
  BY <1>1, SafeRetop DEF Sure, WithFn
<1>4. Reached(s.marks, d, H)
  <2>1. Reads(c) /\ Len(d) = Len(c)
    BY DEF Reads, Retopped
  <2> QED BY <2>1 DEF Sure, Reached
<1>5. Sure(t, d, H)
  BY <1>2, <1>3, <1>4 DEF Sure
<1> QED BY <1>1, <1>5 DEF Sured

LEMMA PartsSure ==
  ASSUME NEW s, NEW c, NEW t, NEW d, Plain, Good(s, c), TypeInv(t, d), NEW H, Sure(s, c, H),
         HeadOf(s, c, t, d) \/ MembersOf(s, c, t, d) \/ (EndFnOf(s, c, t, d) /\ ~Popped(c, d))
  PROVE  Sured(t, d)
<1>1. d \in Seq(FrameType)
  BY DEF TypeInv
<1>2. t = s
  <2>1. HeadOf(s, c, t, d) => t = s
    BY PlainNot, PlainDescribed DEF HeadOf
  <2>2. MembersOf(s, c, t, d) => t = s
    BY PlainNot DEF MembersOf
  <2>3. EndFnOf(s, c, t, d) /\ ~Popped(c, d) => t = s
    BY DEF EndFnOf
  <2> QED BY <2>1, <2>2, <2>3
<1>3. /\ Retopped(c, d) /\ On(c).k = "fn" /\ On(d).k \in {"fn", "cg"} /\ On(d).fn = On(c).fn
      /\ On(d).mark = On(c).mark
  BY PlainNot DEF HeadOf, MembersOf, EndFnOf, FrameIs
<1> QED BY <1>1, <1>2, <1>3, NextPartSure

\* A function that is only parsed is read at the top level.
LEMMA OnlyAtTop ==
  ASSUME NEW s, NEW c, NEW d \in Seq(FrameType), Plain, Good(s, c), Popped(c, d),
         On(c).k = "fn", s.fns[On(c).fn].only
  PROVE  d = <<>>
<1>1. SUFFICES ASSUME d # <<>> PROVE FALSE
  OBVIOUS
<1>2. c \in Seq(FrameType) /\ c # <<>>
  BY GoodFacts DEF Popped
<1>3. On(c).mark = 0
  BY <1>2, GoodFacts DEF Sits
<1>4. Makes(On(d), On(c))
  BY <1>1, <1>2, GoodFacts, Under
<1>5. On(d).k = "loop"
  BY <1>3, <1>4 DEF Makes
<1>6. PICK n \in Nat : n = Len(c)
  BY <1>2, StackLen
<1>7. PICK l \in Nat : l = Len(d) /\ l >= 1
  BY <1>1, StackLen
<1>8. l = n - 1 /\ d[l] = c[l]
  BY <1>6, <1>7 DEF Popped
<1>9. n \in 2 .. n /\ n - 1 = l /\ c[n].k = "fn" /\ c[n - 1].k = "loop"
  BY <1>5, <1>6, <1>7, <1>8 DEF On
<1>10. ~s.fns[c[n].fn].only
  BY <1>6, <1>9, GoodFacts DEF Firm
<1> QED BY <1>6, <1>10 DEF On

\* A function that is only parsed ends at the top level.
LEMMA ParsedSure ==
  ASSUME NEW s, NEW c, NEW t, NEW d, Plain, Good(s, c), TypeInv(t, d), NEW H, Sure(s, c, H),
         EndFnOf(s, c, t, d), Popped(c, d)
  PROVE  Sured(t, d)
<1>1. c \in Seq(FrameType) /\ d \in Seq(FrameType)
  BY GoodFacts DEF TypeInv
<1>2. ~Retopped(c, d)
  <2>1. Len(c) \in Nat
    BY <1>1, StackLen
  <2> QED BY <2>1 DEF Popped, Retopped
<1>3. /\ c # <<>> /\ On(c).k = "fn" /\ s.fns[On(c).fn].only /\ Still(s, t)
      /\ OneMade(s.fns, t.fns, On(c).fn)
  BY <1>2 DEF EndFnOf
<1>4. On(c).mark = 0
  BY <1>3, GoodFacts DEF Sits
<1>5. Laid(s.marks, s.gen, d, H)
  BY <1>1, <1>4, LaidPop DEF Sure
<1>6. Safe(t.fns, s.marks, s.gen, c, H)
  BY <1>3, SafeMade DEF Sure
<1>7. On(c).fn \in 1 .. Len(t.fns) => t.fns[On(c).fn].store = {}
  BY <1>3 DEF OneMade
<1>8. Safe(t.fns, s.marks, s.gen, d, H)
  BY <1>1, <1>6, <1>7, SafePop
<1>9. d = <<>>
  BY <1>1, <1>3, OnlyAtTop
<1>10. ~Reads(d)
  BY <1>9 DEF Reads
<1>11. t.marks = s.marks /\ t.gen = s.gen /\ t.out = "ok"
  BY <1>3, GoodFacts DEF Still, Lists
<1>12. Sure(t, d, H)
  BY <1>5, <1>8, <1>10, <1>11 DEF Sure, Reached
<1> QED BY <1>11, <1>12 DEF Sured

\* A class is begun.
LEMMA ClassSure ==
  ASSUME NEW s, NEW c, NEW t, NEW d, Plain, Good(s, c), TypeInv(t, d), NEW H, Sure(s, c, H),
         \/ InstanceClassOf(s, c, t, d) \/ LocalClassOf(s, c, t, d) \/ TopClassOf(s, c, t, d)
         \/ NestedClassOf(s, c, t, d)
  PROVE  Sured(t, d)
<1>1. c \in Seq(FrameType) /\ d \in Seq(FrameType) /\ Len(s.marks) \in Nat /\ s.out = "ok"
  BY GoodFacts DEF TypeInv
<1>2. Pushed(c, d) /\ On(d).k = "class" /\ On(d).mark = 0
  BY DEF InstanceClassOf, LocalClassOf, TopClassOf, NestedClassOf, FrameIs
<1>3. t.marks = s.marks /\ t.gen = s.gen /\ t.fns = s.fns /\ t.out = s.out
  BY DEF InstanceClassOf, LocalClassOf, TopClassOf, NestedClassOf, PendIs
<1>4. PICK h : h = H[Len(c)]
  OBVIOUS
<1>5. Len(c) \in Nat
  BY <1>1, StackLen
<1>6. PICK I : Higher(H, I, Len(c), h)
  BY <1>5, HigherIs
<1>7. Laid(s.marks, s.gen, d, I)
  BY <1>1, <1>2, <1>4, <1>6, LaidPush DEF Sure
<1>8. Safe(s.fns, s.marks, s.gen, d, I)
  BY <1>2, <1>5, <1>6, SafePush DEF Sure
<1>9. ~Reads(d)
  BY <1>2 DEF Reads
<1>10. Sure(t, d, I)
  BY <1>3, <1>7, <1>8, <1>9 DEF Sure, Reached
<1> QED BY <1>1, <1>3, <1>10 DEF Sured

\* A member function waits.
LEMMA MemberSure ==
  ASSUME NEW s, NEW c, NEW t, NEW d, Plain, Good(s, c), NEW H, Sure(s, c, H), MemberFnOf(s, c, t, d)
  PROVE  Sured(t, d)
<1>1. PICK only : GrownBy(s.fns, t.fns, {}, only)
  BY DEF MemberFnOf
<1>2. Safe(t.fns, s.marks, s.gen, c, H)
  BY <1>1, GoodFacts, SafeGrown DEF Sure
<1>3. t.marks = s.marks /\ t.gen = s.gen /\ t.out = "ok" /\ d = c
  BY GoodFacts DEF MemberFnOf
<1>4. Sure(t, d, H)
  BY <1>2, <1>3 DEF Sure
<1> QED BY <1>3, <1>4 DEF Sured

\* A function that the class lacks is built.
LEMMA GenerateSure ==
  ASSUME NEW s, NEW c, NEW t, NEW d, Plain, Good(s, c), TypeInv(t, d), NEW H, Sure(s, c, H),
         GenerateFnOf(s, c, t, d)
  PROVE  Sured(t, d)
<1>1. c \in Seq(FrameType) /\ d \in Seq(FrameType) /\ Len(s.marks) \in Nat /\ s.out = "ok"
  BY GoodFacts DEF TypeInv
<1>2. PICK b : /\ Retopped(c, b) /\ FrameIs(On(b), "class", On(c).fn, On(c).mark, On(c).saved, On(c).how)
               /\ b \in Seq(FrameType) /\ b # <<>>
               /\ Pushed(b, d) /\ FrameIs(On(d), "build", Len(s.fns) + 1, 0, <<>>, "top")
  BY DEF GenerateFnOf
<1>3. /\ On(c).k = "class" /\ On(b).k = "class" /\ On(b).mark = On(c).mark
      /\ On(d).k = "build" /\ On(d).mark = 0
  BY <1>2 DEF GenerateFnOf, FrameIs
<1>4. GrownBy(s.fns, t.fns, {}, FALSE) /\ t.marks = s.marks /\ t.gen = s.gen /\ t.out = s.out
  BY DEF GenerateFnOf, Still, Lists
<1>5. Laid(s.marks, s.gen, b, H)
  BY <1>1, <1>2, <1>3, LaidRetop DEF Sure
<1>6. PICK h : h = H[Len(b)]
  OBVIOUS
<1>7. Len(b) \in Nat
  BY <1>2, StackLen
<1>8. PICK I : Higher(H, I, Len(b), h)
  BY <1>7, HigherIs
<1>9. Laid(s.marks, s.gen, d, I)
  BY <1>1, <1>2, <1>3, <1>5, <1>6, <1>8, LaidPush
<1>10. Safe(t.fns, s.marks, s.gen, c, H)
  BY <1>4, GoodFacts, SafeGrown DEF Sure
<1>11. Safe(t.fns, s.marks, s.gen, b, H)
  BY <1>1, <1>2, <1>3, <1>10, SafeRetop DEF WithFn
<1>12. Safe(t.fns, s.marks, s.gen, d, I)
  BY <1>2, <1>3, <1>7, <1>8, <1>11, SafePush
<1>13. ~Reads(d)
  BY <1>3 DEF Reads
<1>14. Sure(t, d, I)
  BY <1>4, <1>9, <1>12, <1>13 DEF Sure, Reached
<1> QED BY <1>1, <1>4, <1>14 DEF Sured

\* What compile_statements gives back before each call is nobody's.
LEMMA TopDrop ==
  ASSUME NEW s, Plain, Good(s, <<>>), NEW H, Sure(s, <<>>, H), NEW e, DropOf(s, e)
  PROVE  Low(s.fns, Len(s.marks) - 1) /\ SameStore(s.fns, e.fns)
<1>1. PICK M : M = s.marks
  OBVIOUS
<1>2. PICK b : b = Len(M) - 1
  OBVIOUS
<1>3. b \in Nat /\ Len(M) \in Nat /\ s.fns \in Seq(FnType)
  BY <1>1, <1>2, GoodFacts
<1>4. \A i \in 1 .. Len(<<>>) : FALSE
  OBVIOUS
<1>5. ASSUME NEW i \in 1 .. Len(s.gen)
      PROVE  \E p \in 1 .. Len(M) : M[p].blk = s.gen[i].mark /\ p <= b + 1
  <2>1. PICK p \in 2 .. Len(M) : M[p].blk = s.gen[i].mark
    BY <1>1, GoodFacts DEF Owning
  <2>2. p \in 1 .. Len(M) /\ p <= b + 1
    BY <1>2, <1>3
  <2> QED BY <2>1, <2>2
<1>6. Safe(s.fns, M, s.gen, <<>>, H)
  BY <1>1 DEF Sure
<1>7. Low(s.fns, b)
  BY <1>3, <1>4, <1>5, <1>6, LowFrom
<1>8. Given(s.fns, e.fns, b)
  BY <1>1, <1>2 DEF DropOf
<1>9. SameStore(s.fns, e.fns)
  BY <1>7, <1>8, Spared
<1> QED BY <1>1, <1>2, <1>7, <1>9

LEMMA EntrySame ==
  ASSUME NEW s, NEW c, Plain, Good(s, c), NEW H, Sure(s, c, H), NEW e, EntryOf(s, c, e)
  PROVE  /\ SameStore(s.fns, e.fns) /\ e.marks = s.marks /\ e.gen = s.gen /\ e.out = "ok"
         /\ Safe(e.fns, s.marks, s.gen, c, H)
<1>1. SameStore(s.fns, e.fns)
  <2>1. CASE c = <<>>
    <3>1. DropOf(s, e)
      BY <2>1 DEF EntryOf
    <3> QED BY <2>1, <3>1, TopDrop
  <2>2. CASE c # <<>>
    <3>1. e = s
      BY <2>2 DEF EntryOf
    <3> QED BY <3>1 DEF SameStore
  <2> QED BY <2>1, <2>2
<1>2. e.marks = s.marks /\ e.gen = s.gen /\ e.out = "ok"
  BY GoodFacts DEF EntryOf, DropOf, Lists
<1>3. Safe(e.fns, s.marks, s.gen, c, H)
  BY <1>1, SafeSame DEF Sure
<1> QED BY <1>1, <1>2, <1>3

\* When no generated function waits a call that reads begins above the top mark.
LEMMA TopOfCalls ==
  ASSUME NEW s, NEW c, Plain, Good(s, c), NEW H, Sure(s, c, H), s.gen = <<>>
  PROVE  H[Len(c)] = Len(s.marks)
<1>1. StOK(s) /\ c \in Seq(FrameType) /\ Owning(s.marks, s.gen, c)
  BY GoodFacts
<1>2. Heights(s.marks, c, H)
  BY DEF Sure, Laid
<1> QED BY <1>1, <1>2, AllReached

\* A pending function is read.
LEMMA PendingSure ==
  ASSUME NEW s, NEW c, NEW t, NEW d, Plain, Good(s, c), TypeInv(t, d), NEW H, Sure(s, c, H),
         PendingOf(s, c, t, d)
  PROVE  Sured(t, d)
<1>1. /\ c \in Seq(FrameType) /\ d \in Seq(FrameType) /\ Len(s.marks) \in Nat /\ s.out = "ok"
      /\ Len(c) \in Nat
  BY GoodFacts, StackLen DEF TypeInv
<1>2. PICK f : f = s.pend[1]
  OBVIOUS
<1>3. PICK e, x : /\ EntryOf(s, c, e) /\ PendIs(e, x, Tail(s.pend)) /\ StOK(x)
                  /\ Consed(x.pend, s.pend, s.pend[1])
                  /\ Still(x, t) /\ Pieced(x.fns, t.fns, s.pend[1], Len(x.marks))
  BY DEF PendingOf
<1>4. s.gen = <<>> /\ s.pend # <<>> /\ Pushed(c, d) /\ On(d).k = "fn" /\ On(d).fn = f /\ On(d).mark = 0
  BY <1>2 DEF PendingOf, FrameIs
<1>5. /\ Safe(e.fns, s.marks, s.gen, c, H) /\ SameStore(s.fns, e.fns)
      /\ e.marks = s.marks /\ e.gen = s.gen /\ e.out = "ok"
  BY <1>3, EntrySame
<1>6. x.fns = e.fns /\ x.marks = s.marks /\ t.marks = s.marks /\ t.gen = s.gen /\ t.out = "ok"
  BY <1>3, <1>5 DEF PendIs, Still, Lists
<1>7. 1 \in 1 .. Len(s.pend)
  <2>1. Len(x.pend) \in Nat
    BY <1>3, LenFacts
  <2> QED BY <1>3, <2>1 DEF Consed
<1>8. ~Waits(s.gen, f) /\ ~InCall(c, f) /\ f \in 1 .. Len(s.fns)
  BY <1>2, <1>7, GoodApart, GoodFacts DEF PendKnown
<1>9. e.fns[f].store = {}
  <2>1. s.fns[f].store = {}
    BY <1>8 DEF Sure, Safe, Homes
  <2> QED BY <1>5, <1>8, <2>1 DEF SameStore
<1>10. PICK h : h = H[Len(c)]
  OBVIOUS
<1>11. h = Len(s.marks)
  BY <1>4, <1>10, TopOfCalls
<1>12. PICK I : Higher(H, I, Len(c), h)
  BY <1>1, HigherIs
<1>13. Laid(s.marks, s.gen, d, I)
  BY <1>1, <1>4, <1>10, <1>12, LaidPush DEF Sure
<1>14. Safe(e.fns, s.marks, s.gen, d, I)
  BY <1>1, <1>4, <1>5, <1>9, <1>12, SafePush
<1>15. Len(d) = Len(c) + 1 /\ (\A i \in 1 .. Len(c) : d[i] = c[i]) /\ d[Len(c) + 1] = On(d)
  BY <1>4 DEF Pushed, On
<1>16. InCall(d, f)
  <2>1. Len(d) \in 1 .. Len(d)
    BY <1>1, <1>15
  <2> QED BY <1>4, <1>15, <2>1 DEF InCall, WithFn
<1>17. ASSUME NEW i \in 1 .. Len(d), d[i].k = "fn", d[i].fn = f PROVE I[i] = Len(s.marks)
  <2>1. i = Len(c) + 1
    <3>1. SUFFICES ASSUME i # Len(c) + 1 PROVE FALSE
      OBVIOUS
    <3>2. i \in 1 .. Len(c)
      BY <1>1, <1>15, <3>1
    <3> QED BY <1>8, <1>15, <1>17, <3>2 DEF InCall, WithFn
  <2> QED BY <1>11, <1>12, <2>1 DEF Higher
<1>18. Safe(t.fns, s.marks, s.gen, d, I)
  <2>1. e.fns \in Seq(FnType)
    <3>1. StOK(e)
      BY <1>3 DEF EntryOf
    <3> QED BY <3>1, StFields DEF StOK
  <2>2. Pieced(e.fns, t.fns, f, Len(s.marks))
    BY <1>2, <1>3, <1>6
  <2> QED BY <1>1, <1>8, <1>14, <1>16, <1>17, <2>1, <2>2, SafePieced
<1>19. I[Len(d)] = Len(s.marks)
  BY <1>11, <1>12, <1>15 DEF Higher
<1>20. Sure(t, d, I)
  BY <1>6, <1>13, <1>18, <1>19 DEF Sure, Reached
<1> QED BY <1>6, <1>20 DEF Sured

\* A declaration is read at the top level.
LEMMA SourceSure ==
  ASSUME NEW s, NEW c, NEW t, NEW d, Plain, Good(s, c), TypeInv(t, d), NEW H, Sure(s, c, H),
         SourceOf(s, c, t, d)
  PROVE  Sured(t, d)
<1>1. /\ c \in Seq(FrameType) /\ d \in Seq(FrameType) /\ Len(s.marks) \in Nat /\ s.out = "ok"
      /\ Len(c) \in Nat
  BY GoodFacts, StackLen DEF TypeInv
<1>2. PICK e : /\ StOK(e) /\ DropOf(s, e)
               /\ \/ \E only \in BOOLEAN :
                       /\ Still(e, t) /\ GrownBy(e.fns, t.fns, {Len(e.marks)}, only)
                       /\ FrameIs(On(d), "fn", Len(e.fns) + 1, 0, <<>>, "top")
                  \/ t = e /\ FrameIs(On(d), "decl", 0, 0, <<>>, "top")
  BY DEF SourceOf
<1>3. c = <<>> /\ s.gen = <<>> /\ Pushed(c, d) /\ On(d).mark = 0
  BY <1>2 DEF SourceOf, Waiting, FrameIs
<1>4. EntryOf(s, c, e)
  BY <1>2, <1>3 DEF EntryOf
<1>5. /\ Safe(e.fns, s.marks, s.gen, c, H) /\ e.marks = s.marks /\ e.gen = s.gen /\ e.out = "ok"
  BY <1>4, EntrySame
<1>6. t.marks = s.marks /\ t.gen = s.gen /\ t.out = "ok"
  BY <1>2, <1>5 DEF Still, Lists
<1>7. PICK h : h = H[Len(c)]
  OBVIOUS
<1>8. h = Len(s.marks)
  BY <1>3, <1>7, TopOfCalls
<1>9. PICK I : Higher(H, I, Len(c), h)
  BY <1>1, HigherIs
<1>10. Laid(s.marks, s.gen, d, I)
  BY <1>1, <1>3, <1>7, <1>9, LaidPush DEF Sure
<1>11. Len(d) = Len(c) + 1 /\ (\A i \in 1 .. Len(c) : d[i] = c[i]) /\ d[Len(c) + 1] = On(d)
  BY <1>3 DEF Pushed, On
<1>12. I[Len(d)] = Len(s.marks)
  BY <1>8, <1>9, <1>11 DEF Higher
<1>13. Len(c) = 0
  BY <1>3
<1>14. \A i \in 1 .. Len(d) : i = Len(d)
  BY <1>11, <1>13
<1>15. Safe(t.fns, s.marks, s.gen, d, I)
  <2>1. CASE t = e /\ FrameIs(On(d), "decl", 0, 0, <<>>, "top")
    <3>1. On(d).k # "fn"
      BY <2>1 DEF FrameIs
    <3> QED BY <1>1, <1>3, <1>5, <1>9, <2>1, <3>1, SafePush
  <2>2. ASSUME NEW only \in BOOLEAN, GrownBy(e.fns, t.fns, {Len(e.marks)}, only),
               FrameIs(On(d), "fn", Len(e.fns) + 1, 0, <<>>, "top")
        PROVE  Safe(t.fns, s.marks, s.gen, d, I)
    <3>1. On(d).k = "fn" /\ On(d).fn = Len(e.fns) + 1
      BY <2>2 DEF FrameIs
    <3>2. Len(e.fns) \in Nat
      BY <1>2, LenFacts
    <3>3. On(d).fn \notin 1 .. Len(e.fns)
      BY <3>1, <3>2
    <3>4. Safe(e.fns, s.marks, s.gen, d, I)
      BY <1>1, <1>3, <1>5, <1>9, <3>3, SafePush
    <3>5. InCall(d, Len(e.fns) + 1)
      <4>1. Len(d) \in 1 .. Len(d)
        BY <1>11, <1>13
      <4> QED BY <1>11, <3>1, <4>1 DEF InCall, WithFn
    <3>6. \A i \in 1 .. Len(d) : I[i] = Len(s.marks)
      BY <1>12, <1>14
    <3>7. GrownBy(e.fns, t.fns, {Len(s.marks)}, only)
      BY <1>5, <2>2
    <3> QED BY <1>1, <3>2, <3>4, <3>5, <3>6, <3>7, SafeGrown
  <2> QED BY <1>2, <2>1, <2>2
<1>16. Sure(t, d, I)
  BY <1>6, <1>10, <1>12, <1>15 DEF Sure, Reached
<1> QED BY <1>6, <1>16 DEF Sured

\* A generated function is noted: it is under its mark.
LEMMA NotedSure ==
  ASSUME NEW s, NEW c, NEW t, NEW d, Plain, Good(s, c), TypeInv(t, d), NEW H, Sure(s, c, H),
         NotedOf(s, c, t, d)
  PROVE  Sured(t, d)
<1>1. /\ c \in Seq(FrameType) /\ d \in Seq(FrameType) /\ Len(s.marks) \in Nat /\ s.out = "ok"
      /\ Len(c) \in Nat /\ Len(s.gen) \in Nat /\ StOK(t)
  BY GoodFacts, StackLen DEF TypeInv
<1>2. PICK M : M = s.marks
  OBVIOUS
<1>3. PICK N : N = t.marks
  OBVIOUS
<1>4. PICK f : f = On(c).fn
  OBVIOUS
<1>5. PICK e : e = [fn |-> f, mark |-> N[Len(N)].blk]
  OBVIOUS
<1>6. /\ c # <<>> /\ On(c).k = "build" /\ Popped(c, d)
      /\ Appended(M, N) /\ Consed(s.gen, t.gen, e) /\ Pieced(s.fns, t.fns, f, Len(M))
      /\ t.out = "ok"
  BY <1>1, <1>2, <1>3, <1>4, <1>5 DEF NotedOf, NoteOf
<1>7. On(c).mark = 0 /\ f \in 1 .. Len(s.fns)
  BY <1>4, <1>6, GoodFacts DEF Sits
<1>8. Len(c) \in 1 .. Len(c)
  BY <1>1, <1>6, StackLen
<1>9. ~Waits(s.gen, f) /\ InCall(c, f)
  BY <1>4, <1>6, <1>8, GoodApart DEF Waits, InCall, WithFn, On
<1>10. \A i \in 1 .. Len(c) : ~(c[i].k = "fn" /\ c[i].fn = f)
  <2>1. SUFFICES ASSUME NEW i \in 1 .. Len(c), c[i].k = "fn", c[i].fn = f PROVE FALSE
    OBVIOUS
  <2>2. i = Len(c)
    BY <1>4, <1>6, <1>8, <2>1, GoodApart DEF WithFn, On
  <2> QED BY <1>6, <2>1, <2>2 DEF On
<1>11. PICK G : G = t.fns
  OBVIOUS
<1>12. G \in Seq(FnType)
  BY <1>1, <1>11, StFields DEF StOK
<1>13. Safe(G, M, s.gen, c, H)
  <2>1. Safe(s.fns, M, s.gen, c, H)
    BY <1>2 DEF Sure
  <2> QED BY <1>1, <1>2, <1>6, <1>9, <1>10, <1>11, <2>1, GoodFacts, SafePieced
<1>14. Len(M) \in Nat /\ Len(N) = Len(M) + 1 /\ Len(N) \in Nat
  BY <1>1, <1>2, <1>6 DEF Appended
<1>15. Low(G, Len(M)) /\ Low(G, Len(N))
  <2>1. Low(G, Len(M))
    BY <1>13 DEF Safe
  <2>2. ASSUME NEW x \in 1 .. Len(G), NEW l \in G[x].store PROVE l <= Len(N)
    <3>1. l <= Len(M) /\ l \in Nat
      BY <1>12, <2>1, <2>2, FnFields DEF Low
    <3> QED BY <1>14, <3>1
  <2> QED BY <2>1, <2>2 DEF Low
<1>16. Safe(G, N, s.gen, c, H)
  <2>1. \A p \in 1 .. Len(N) : p <= Len(M) => N[p].blk = M[p].blk
    BY <1>6, <1>14 DEF Appended
  <2> QED BY <1>12, <1>13, <1>14, <1>15, <2>1, SafeMarks
<1>17. e.fn = f /\ e.mark = N[Len(N)].blk
  BY <1>5
<1>18. ASSUME NEW p \in 1 .. Len(N), N[p].blk = e.mark PROVE \A l \in G[f].store : l < p
  <2>1. Len(N) \in 1 .. Len(N)
    BY <1>14
  <2>2. p = Len(N)
    BY <1>1, <1>3, <1>17, <1>18, <2>1, OnePlace
  <2>3. f \in 1 .. Len(G)
    BY <1>6, <1>7, <1>11 DEF Pieced
  <2>4. ASSUME NEW l \in G[f].store PROVE l < p
    <3>1. l <= Len(M) /\ l \in Nat
      BY <1>12, <1>15, <2>3, <2>4, FnFields DEF Low
    <3> QED BY <1>14, <2>2, <3>1
  <2> QED BY <2>4
<1>19. Safe(G, N, t.gen, c, H) /\ Waits(t.gen, f)
  <2>1. f \in 1 .. Len(G)
    BY <1>6, <1>7, <1>11 DEF Pieced
  <2> QED BY <1>1, <1>6, <1>16, <1>17, <1>18, <2>1, SafeNoted
<1>20. Safe(G, N, t.gen, d, H)
  BY <1>1, <1>4, <1>6, <1>19, SafePop
<1>21. Laid(N, t.gen, c, H)
  <2>1. Laid(M, s.gen, c, H) /\ Owning(M, s.gen, c)
    BY <1>2, GoodFacts DEF Sure
  <2> QED BY <1>1, <1>6, <1>14, <1>17, <2>1, LaidNoted
<1>22. Laid(N, t.gen, d, H)
  BY <1>1, <1>6, <1>7, <1>21, LaidPop
<1>23. ~Reads(d)
  <2>1. d # <<>> => On(d).k = "class"
    <3>1. d # <<>> => Makes(On(d), On(c))
      BY <1>1, <1>6, GoodFacts, Under
    <3> QED BY <1>6, <3>1, PlainNot DEF Makes
  <2> QED BY <2>1 DEF Reads
<1>24. Sure(t, d, H)
  BY <1>3, <1>11, <1>20, <1>22, <1>23 DEF Sure, Reached
<1> QED BY <1>6, <1>24 DEF Sured

\* A template function is read on the spot, above its own mark.
LEMMA InstanceSure ==
  ASSUME NEW s, NEW c, NEW t, NEW d, Plain, Good(s, c), TypeInv(t, d), NEW H, Sure(s, c, H),
         InstanceFnOf(s, c, t, d)
  PROVE  Sured(t, d)
<1>1. /\ c \in Seq(FrameType) /\ d \in Seq(FrameType) /\ Len(s.marks) \in Nat /\ s.out = "ok"
      /\ Len(c) \in Nat /\ Len(s.gen) \in Nat /\ StOK(s) /\ StOK(t)
  BY GoodFacts, StackLen DEF TypeInv
<1>2. PICK M : M = s.marks
  OBVIOUS
<1>3. PICK m : /\ StOK(m) /\ MarkOf(s, m)
               /\ Still(m, t) /\ GrownBy(m.fns, t.fns, {Len(m.marks)}, FALSE)
               /\ FrameIs(On(d), "fn", Len(s.fns) + 1, m.marks[Len(m.marks)].blk, <<>>, "top")
  BY DEF InstanceFnOf
<1>4. PICK N : N = t.marks
  OBVIOUS
<1>5. /\ N = m.marks /\ Appended(M, N) /\ m.fns = s.fns /\ t.gen = s.gen /\ t.out = "ok"
      /\ GrownBy(s.fns, t.fns, {Len(N)}, FALSE)
  BY <1>1, <1>2, <1>3, <1>4 DEF MarkOf, Still, Lists
<1>6. On(d).k = "fn" /\ On(d).fn = Len(s.fns) + 1 /\ On(d).mark = N[Len(N)].blk /\ On(d).mark # 0
  <2>1. m.marks[Len(m.marks)].blk # 0
    BY <1>1, <1>3, TopMarkFacts
  <2> QED BY <1>3, <1>5, <2>1 DEF FrameIs
<1>7. Pushed(c, d) /\ c # <<>>
  BY DEF InstanceFnOf, UsingOf
<1>8. On(c).k = "fn" => H[Len(c)] = Len(M)
  BY <1>2, <1>7 DEF Sure, Reached, Reads
<1>9. Len(M) \in Nat /\ Len(N) = Len(M) + 1 /\ Len(N) \in Nat
  BY <1>1, <1>2, <1>5 DEF Appended
<1>10. PICK h : h = Len(N)
  OBVIOUS
<1>11. PICK I : Higher(H, I, Len(c), h)
  BY <1>1, HigherIs
<1>12. Laid(N, s.gen, d, I) /\ I[Len(d)] = Len(N)
  <2>1. Laid(M, s.gen, c, H) /\ Owning(M, s.gen, c)
    BY <1>2, GoodFacts DEF Sure
  <2>2. Higher(H, I, Len(c), Len(N))
    BY <1>10, <1>11
  <2>3. On(d).k \in {"fn", "cg"} /\ c # <<>> /\ On(c).k = "fn" => H[Len(c)] = Len(M)
    BY <1>8
  <2>4. PICK g : g = s.gen
    OBVIOUS
  <2>5. Laid(M, g, c, H) /\ Owning(M, g, c) /\ Len(g) \in Nat
    BY <1>1, <2>1, <2>4
  <2>6. c \in Seq(FrameType) /\ Appended(M, N) /\ Pushed(c, d) /\ Len(M) \in Nat
    BY <1>1, <1>5, <1>7, <1>9
  <2>7. On(d).mark = N[Len(N)].blk /\ On(d).mark # 0
    BY <1>6
  <2>8. Laid(N, g, d, I) /\ I[Len(d)] = Len(N)
    BY <2>2, <2>3, <2>5, <2>6, <2>7, LaidMark
  <2> QED BY <2>4, <2>8
<1>13. PICK G : G = s.fns
  OBVIOUS
<1>14. G \in Seq(FnType) /\ Len(G) \in Nat
  BY <1>13, GoodFacts
<1>15. Safe(G, N, s.gen, c, H)
  <2>1. Safe(G, M, s.gen, c, H)
    BY <1>2, <1>13 DEF Sure
  <2>2. \A p \in 1 .. Len(N) : p <= Len(M) => N[p].blk = M[p].blk
    BY <1>5, <1>9 DEF Appended
  <2>3. ASSUME NEW x \in 1 .. Len(G), NEW l \in G[x].store PROVE l <= Len(N)
    <3>1. l <= Len(M) /\ l \in Nat
      BY <1>14, <2>1, <2>3, FnFields DEF Low, Safe
    <3> QED BY <1>9, <3>1
  <2>4. Low(G, Len(N))
    BY <2>3 DEF Low
  <2> QED BY <1>9, <1>14, <2>1, <2>2, <2>4, SafeMarks
<1>16. Safe(G, N, s.gen, d, I)
  <2>1. On(d).fn \notin 1 .. Len(G)
    BY <1>6, <1>13, <1>14
  <2> QED BY <1>1, <1>7, <1>11, <1>15, <2>1, SafePush
<1>17. Len(d) = Len(c) + 1 /\ (\A i \in 1 .. Len(c) : d[i] = c[i]) /\ d[Len(c) + 1] = On(d)
  BY <1>7 DEF Pushed, On
<1>18. InCall(d, Len(G) + 1)
  <2>1. Len(d) \in 1 .. Len(d)
    BY <1>1, <1>17
  <2> QED BY <1>6, <1>13, <1>17, <2>1 DEF InCall, WithFn
<1>19. ASSUME NEW i \in 1 .. Len(d), d[i].k = "fn", d[i].fn = Len(G) + 1 PROVE I[i] = Len(N)
  <2>1. i = Len(d)
    <3>1. SUFFICES ASSUME i # Len(d) PROVE FALSE
      OBVIOUS
    <3>2. i \in 1 .. Len(c)
      BY <1>1, <1>17, <3>1
    <3>3. Sits(s.fns, c[i]) /\ c[i].k = "fn" /\ c[i].fn = Len(G) + 1
      BY <1>17, <1>19, <3>2, GoodFacts DEF AllSit
    <3>4. Len(G) + 1 \in 1 .. Len(G)
      BY <1>13, <3>3 DEF Sits
    <3> QED BY <1>14, <3>4
  <2> QED BY <1>12, <2>1
<1>20. Safe(t.fns, N, s.gen, d, I)
  BY <1>5, <1>9, <1>13, <1>14, <1>16, <1>18, <1>19, SafeGrown
<1>21. Sure(t, d, I)
  BY <1>4, <1>5, <1>12, <1>20 DEF Sure, Reached
<1> QED BY <1>5, <1>21 DEF Sured

\* A class or a declaration ends.
LEMMA EndedSure ==
  ASSUME NEW s, NEW c, NEW t, NEW d \in Seq(FrameType), Plain, Good(s, c), NEW H, Sure(s, c, H),
         Popped(c, d), On(c).k \in {"class", "decl"},
         t.marks = s.marks, t.gen = s.gen, t.fns = s.fns, t.out = s.out,
         s.gen = <<>> \/ ~Reads(d)
  PROVE  Sured(t, d)
<1>1. c \in Seq(FrameType) /\ c # <<>> /\ t.out = "ok"
  BY GoodFacts DEF Popped
<1>2. On(c).mark = 0
  BY <1>1, GoodFacts DEF Sits
<1>3. Laid(s.marks, s.gen, d, H) /\ H[Len(d)] = H[Len(c)]
  BY <1>1, <1>2, LaidPop DEF Sure
<1>4. On(c).k \notin WithFn
  BY DEF WithFn
<1>5. Safe(s.fns, s.marks, s.gen, d, H)
  BY <1>1, <1>4, SafePop DEF Sure
<1>6. Reached(s.marks, d, H)
  <2>1. s.gen = <<>> => H[Len(c)] = Len(s.marks)
    BY TopOfCalls
  <2> QED BY <1>3, <2>1 DEF Reached
<1>7. Sure(t, d, H)
  BY <1>3, <1>5, <1>6 DEF Sure
<1> QED BY <1>1, <1>7 DEF Sured

LEMMA LaidLoop ==
  ASSUME NEW M, NEW N, NEW g, NEW b \in Seq(FrameType), NEW d, NEW H, NEW I, Len(M) \in Nat,
         Len(g) \in Nat, Laid(M, g, b, H), Owning(M, g, b), Appended(M, N), Pushed(b, d),
         On(d).mark = N[Len(N)].blk, On(d).mark # 0, Higher(H, I, Len(b), Len(N)),
         On(d).k = "loop"
  PROVE  Laid(N, g, d, I) /\ I[Len(d)] = Len(N)
BY LaidMark

\* A loop is begun, above a mark of its own.
LEMMA LoopSure ==
  ASSUME NEW s, NEW c, NEW t, NEW d \in Seq(FrameType), Plain, Good(s, c), StOK(t), NEW H, Sure(s, c, H),
         Retopped(c, d), On(c).k = "class", On(d).k = "loop", NEW m, StOK(m), MarkOf(s, m),
         t.marks = m.marks, t.gen = s.gen, t.fns = s.fns, t.out = s.out,
         On(d).mark = t.marks[Len(t.marks)].blk
  PROVE  Sured(t, d)
<1>1. /\ c \in Seq(FrameType) /\ c # <<>> /\ t.out = "ok" /\ StOK(s) /\ Owned(s, c)
      /\ Len(s.marks) \in Nat
  BY GoodFacts DEF Retopped
<1>2. PICK b \in Seq(FrameType) : Popped(c, b) /\ Pushed(b, d)
  BY <1>1, RetopParts
<1>3. Len(b) \in Nat
  BY <1>2, StackLen
<1>4. On(c).mark = 0
  BY <1>1, GoodFacts DEF Sits
<1>5. PICK M : M = s.marks
  OBVIOUS
<1>6. PICK N : N = t.marks
  OBVIOUS
<1>7. PICK g : g = s.gen
  OBVIOUS
<1>8. Laid(M, g, b, H)
  BY <1>1, <1>2, <1>4, <1>5, <1>7, LaidPop DEF Sure
<1>9. Owning(M, g, b) /\ Len(g) \in Nat
  <2>1. Owned(s, b)
    BY <1>1, <1>2, <1>4, OwnedStack
  <2>2. Owning(s.marks, s.gen, b)
    BY <1>1, <2>1, PlainNot, OwnedOwning
  <2> QED BY <1>5, <1>7, <2>2, GoodFacts
<1>10. Appended(M, N)
  BY <1>5, <1>6 DEF MarkOf
<1>11. Len(M) \in Nat /\ Len(N) = Len(M) + 1 /\ Len(N) \in Nat
  BY <1>1, <1>5, <1>10 DEF Appended
<1>12. On(d).mark = N[Len(N)].blk /\ On(d).mark # 0
  <2>1. m.marks[Len(m.marks)].blk # 0
    BY <1>1, TopMarkFacts
  <2> QED BY <1>6, <2>1
<1>13. PICK I : Higher(H, I, Len(b), Len(N))
  BY <1>3, HigherIs
<1>14. Laid(N, g, d, I) /\ I[Len(d)] = Len(N)
  <2>1. b \in Seq(FrameType) /\ Pushed(b, d) /\ Appended(M, N) /\ Len(M) \in Nat
    BY <1>2, <1>10, <1>11
  <2>2. On(d).mark = N[Len(N)].blk /\ On(d).mark # 0
    BY <1>12
  <2>3. Laid(M, g, b, H) /\ Owning(M, g, b) /\ Len(g) \in Nat
    BY <1>8, <1>9
  <2>4. Higher(H, I, Len(b), Len(N))
    BY <1>13
  <2> QED BY <2>1, <2>2, <2>3, <2>4, LaidLoop
<1>15. PICK G : G = s.fns
  OBVIOUS
<1>16. G \in Seq(FnType)
  BY <1>15, GoodFacts
<1>17. Safe(G, M, g, b, H)
  <2>1. On(c).k \notin WithFn
    BY DEF WithFn
  <2>2. Safe(G, M, g, c, H)
    BY <1>5, <1>7, <1>15 DEF Sure
  <2> QED BY <1>1, <1>2, <2>1, <2>2, SafePop
<1>18. Safe(G, N, g, b, H)
  <2>1. \A p \in 1 .. Len(N) : p <= Len(M) => N[p].blk = M[p].blk
    BY <1>10, <1>11 DEF Appended
  <2>2. ASSUME NEW x \in 1 .. Len(G), NEW l \in G[x].store PROVE l <= Len(N)
    <3>1. l <= Len(M) /\ l \in Nat
      BY <1>16, <1>17, <2>2, FnFields DEF Low, Safe
    <3> QED BY <1>11, <3>1
  <2>3. Low(G, Len(N))
    BY <2>2 DEF Low
  <2> QED BY <1>11, <1>16, <1>17, <2>1, <2>3, SafeMarks
<1>19. Safe(G, N, g, d, I)
  BY <1>2, <1>3, <1>13, <1>18, SafePush
<1>20. Sure(t, d, I)
  BY <1>6, <1>7, <1>14, <1>15, <1>19 DEF Sure, Reached
<1> QED BY <1>1, <1>20 DEF Sured

LEMMA EndClassSure ==
  ASSUME NEW s, NEW c, NEW t, NEW d, Plain, Good(s, c), TypeInv(t, d), NEW H, Sure(s, c, H),
         EndClassOf(s, c, t, d)
  PROVE  Sured(t, d)
<1>1. c \in Seq(FrameType) /\ d \in Seq(FrameType) /\ StOK(t)
  BY GoodFacts DEF TypeInv
<1>2. c # <<>> /\ On(c).k = "class"
  BY DEF EndClassOf
<1>3. CASE /\ MarkOf(s, t) /\ Retopped(c, d)
           /\ FrameIs(On(d), "loop", 0, t.marks[Len(t.marks)].blk, On(c).saved, "top")
  <2>1. On(d).k = "loop" /\ On(d).mark = t.marks[Len(t.marks)].blk
    BY <1>3 DEF FrameIs
  <2>2. t.gen = s.gen /\ t.fns = s.fns /\ t.out = s.out
    BY <1>3 DEF MarkOf, Lists
  <2> QED BY <1>1, <1>2, <1>3, <2>1, <2>2, LoopSure
<1>4. ASSUME NEW m, StOK(m), MarkOf(s, m), PendIs(m, t, <<>>), Retopped(c, d),
             FrameIs(On(d), "loop", 0, t.marks[Len(t.marks)].blk, s.pend, "top")
      PROVE  Sured(t, d)
  <2>1. On(d).k = "loop" /\ On(d).mark = t.marks[Len(t.marks)].blk
    BY <1>4 DEF FrameIs
  <2>2. t.marks = m.marks /\ t.gen = s.gen /\ t.fns = s.fns /\ t.out = s.out
    BY <1>4 DEF MarkOf, Lists, PendIs
  <2> QED BY <1>1, <1>2, <1>4, <2>1, <2>2, LoopSure
<1>5. CASE ~Waiting(s) /\ Popped(c, d) /\ (t = s \/ PendIs(s, t, On(c).saved))
  <2>1. s.gen = <<>>
    BY <1>5 DEF Waiting
  <2>2. t.marks = s.marks /\ t.gen = s.gen /\ t.fns = s.fns /\ t.out = s.out
    BY <1>5 DEF PendIs
  <2> QED BY <1>1, <1>2, <1>5, <2>1, <2>2, EndedSure
<1>6. CASE On(c).how \notin {"local", "instance"} /\ t = s /\ Popped(c, d)
  <2>1. d # <<>> => Makes(On(d), On(c))
    BY <1>1, <1>6, GoodFacts, Under
  <2>2. ~Reads(d)
    BY <1>2, <1>6, <2>1 DEF Makes, Reads
  <2> QED BY <1>1, <1>2, <1>6, <2>2, EndedSure
<1> QED BY <1>3, <1>4, <1>5, <1>6 DEF EndClassOf

LEMMA EndDeclSure ==
  ASSUME NEW s, NEW c, NEW t, NEW d, Plain, Good(s, c), TypeInv(t, d), NEW H, Sure(s, c, H),
         EndDeclOf(s, c, t, d)
  PROVE  Sured(t, d)
<1>1. c \in Seq(FrameType) /\ d \in Seq(FrameType)
  BY GoodFacts DEF TypeInv
<1>2. c # <<>> /\ On(c).k = "decl" /\ t = s /\ Popped(c, d)
  BY DEF EndDeclOf
<1>3. d # <<>> => Makes(On(d), On(c))
  BY <1>1, <1>2, GoodFacts, Under
<1>4. ~Reads(d)
  BY <1>2, <1>3 DEF Makes, Reads
<1> QED BY <1>1, <1>2, <1>4, EndedSure

\* The pieces below the call on top are under its mark, and those of the functions that
\* wait under what is left when the mark is undone.
LEMMA LowCut ==
  ASSUME NEW s, NEW c, NEW d \in Seq(FrameType), Plain, Good(s, c), NEW H, Sure(s, c, H),
         Popped(c, d), On(c).mark # 0, H[Len(c)] = Len(s.marks), NEW N, Cut(s.marks, N),
         NEW G \in Seq(FnType), Safe(G, s.marks, s.gen, d, H)
  PROVE  /\ Low(G, Len(N)) /\ Laid(N, s.gen, d, H) /\ Safe(G, N, s.gen, d, H)
         /\ Len(N) \in 1 .. Len(s.marks) - 1
<1>1. PICK M : M = s.marks
  OBVIOUS
<1>2. PICK m \in Nat : m = Len(M)
  BY <1>1, GoodFacts
<1>3. c \in Seq(FrameType) /\ c # <<>> /\ Len(M) \in Nat /\ StOK(s)
  BY <1>1, GoodFacts DEF Popped
<1>4. Heights(M, c, H) /\ Owning(M, s.gen, c)
  BY <1>1, GoodFacts DEF Sure, Laid
<1>5. /\ Heights(N, d, H) /\ Len(N) \in 1 .. m - 1
      /\ \A i \in 0 .. Len(d) : H[i] <= Len(N) /\ i < Len(c)
  BY <1>1, <1>2, <1>3, <1>4, HeightsCut
<1>6. Laid(N, s.gen, d, H)
  BY <1>1, <1>3, <1>4, LaidCut DEF Sure
<1>7. PICK n \in Nat : n = Len(c) /\ n >= 1 /\ On(c) = c[n]
  BY <1>3, StackLen DEF On
<1>8. PICK k \in 1 .. m - 1 : k = Len(N)
  BY <1>5
<1>9. ASSUME NEW i \in 1 .. Len(d), d[i].k \in WithFn PROVE d[i].k = "fn" /\ H[i] \in 0 .. k
  <2>1. Len(d) = n - 1 /\ d[i] = c[i]
    BY <1>7 DEF Popped
  <2>2. i \in 1 .. n /\ i # n /\ i \in 0 .. Len(d)
    BY <2>1
  <2>3. c[i].k = "fn"
    BY <1>3, <1>7, <1>9, <2>1, <2>2, GoodFacts, OnlyRead
  <2>4. H[i] \in 1 .. Len(N)
    BY <1>5, <2>2 DEF Heights
  <2> QED BY <1>8, <2>1, <2>3, <2>4
<1>10. ASSUME NEW i \in 1 .. Len(s.gen)
       PROVE  \E p \in 1 .. Len(M) : M[p].blk = s.gen[i].mark /\ p <= k + 1
  <2>1. PICK p \in 2 .. m : M[p].blk = s.gen[i].mark /\ ~M[p].unmarked
    BY <1>2, <1>4 DEF Owning
  <2>2. n \in 1 .. n
    BY <1>7
  <2>3. M[H[n]].blk = c[n].mark
    BY <1>4, <1>7, <2>2 DEF Heights
  <2>4. s.gen[i].mark # c[n].mark
    BY <1>4, <1>7, <2>2 DEF Owning
  <2>5. p # m
    BY <1>1, <1>2, <1>7, <2>1, <2>3, <2>4
  <2>6. p \notin k + 1 .. m - 1
    <3>1. \A q \in k + 1 .. m - 1 : M[q].unmarked
      BY <1>1, <1>2, <1>8 DEF Cut
    <3> QED BY <2>1, <3>1
  <2>7. p \in 1 .. m /\ p <= k + 1
    BY <1>8, <2>1, <2>5, <2>6
  <2> QED BY <1>2, <2>1, <2>7
<1>11. Low(G, k)
  <2>1. k \in Nat /\ Safe(G, M, s.gen, d, H)
    BY <1>1
  <2> QED BY <1>9, <1>10, <2>1, LowFrom
<1>12. Safe(G, N, s.gen, d, H)
  <2>1. \A p \in 1 .. Len(N) : p <= Len(M) => N[p].blk = M[p].blk
    BY <1>1 DEF Cut
  <2>2. Len(N) \in Nat /\ Low(G, Len(N)) /\ Safe(G, M, s.gen, d, H)
    BY <1>1, <1>8, <1>11
  <2> QED BY <1>3, <2>1, <2>2, SafeMarks
<1> QED BY <1>1, <1>2, <1>5, <1>6, <1>8, <1>11, <1>12

\* The mark of the call on top is the top one, and what undoes it gives store back.
LEMMA CutsBack ==
  ASSUME NEW s, NEW c, NEW d \in Seq(FrameType), Plain, Good(s, c), NEW H, Sure(s, c, H),
         Popped(c, d), On(c).mark # 0, H[Len(c)] = Len(s.marks), NEW w, NEW u,
         w.marks = s.marks, w.seg = Top(s).seg, UnmarkOf(w, u, On(c).mark)
  PROVE  CutBack(w, u) /\ u.gen = w.gen
<1>1. PICK n \in Nat : n = Len(c) /\ n >= 1 /\ On(c) = c[n] /\ n \in 1 .. n
  BY GoodFacts, StackLen DEF On, Popped
<1>2. PICK m \in Nat : m = Len(s.marks) /\ m >= 1
  BY GoodFacts
<1>3. Heights(s.marks, c, H)
  BY DEF Sure, Laid
<1>4. s.marks[m].blk = On(c).mark
  BY <1>1, <1>2, <1>3 DEF Heights
<1>5. 1 < m
  <2>1. 0 \in 0 .. n /\ n \in 0 .. n /\ 0 < n
    BY <1>1
  <2>2. H[0] < H[n] /\ H[0] = 1
    BY <1>1, <1>3, <2>1 DEF Heights
  <2> QED BY <1>1, <1>2, <2>2
<1>6. Top(w) = s.marks[m] /\ Top(s) = s.marks[m]
  BY <1>2, GoodFacts DEF Top, Last
<1>7. ~NoSuchMark(w, u, On(c).mark)
  <2>1. m \in 2 .. m
    BY <1>5
  <2> QED BY <1>2, <1>4, <2>1 DEF NoSuchMark
<1>8. ~JustNoted(w, u, On(c).mark)
  BY <1>4, <1>6 DEF JustNoted
<1>9. ~NotDropped(w, u)
  <2>1. Top(s).seg \in 0 .. MaxHunks
    BY GoodFacts
  <2>2. PICK x : x = Top(s).seg
    OBVIOUS
  <2>3. x \in Int /\ ~(x > x)
    BY <2>1, <2>2
  <2>4. w.seg = x /\ Top(w).seg = x
    BY <1>6, <2>2
  <2> QED BY <2>3, <2>4 DEF NotDropped
<1> QED BY <1>7, <1>8, <1>9 DEF UnmarkOf, Lists

\* A loop ends: what was set above its mark has gone.
LEMMA EndLoopSure ==
  ASSUME NEW s, NEW c, NEW t, NEW d, Plain, Good(s, c), TypeInv(t, d), NEW H, Sure(s, c, H),
         EndLoopOf(s, c, t, d), Kept(t, d)
  PROVE  Sured(t, d)
<1>1. c \in Seq(FrameType) /\ d \in Seq(FrameType) /\ StOK(s) /\ StOK(t)
  BY GoodFacts DEF TypeInv
<1>2. PICK u : StOK(u) /\ UnmarkOf(s, u, On(c).mark) /\ PendIs(u, t, On(c).saved)
  BY DEF EndLoopOf
<1>3. c # <<>> /\ On(c).k = "loop" /\ s.gen = <<>> /\ Popped(c, d)
  BY DEF EndLoopOf, Waiting
<1>4. On(c).mark # 0
  BY <1>3, GoodFacts DEF Sits
<1>5. H[Len(c)] = Len(s.marks)
  BY <1>3, TopOfCalls
<1>6. s.seg = Top(s).seg
  BY <1>3, GoodFacts DEF Settled
<1>7. CutBack(s, u) /\ u.gen = s.gen
  <2>1. PICK w : w = s
    OBVIOUS
  <2>2. w.marks = s.marks /\ w.seg = Top(s).seg
    BY <1>6, <2>1
  <2>3. UnmarkOf(w, u, On(c).mark) /\ Popped(c, d) /\ On(c).mark # 0 /\ d \in Seq(FrameType)
    BY <1>1, <1>2, <1>3, <1>4, <2>1
  <2>4. CutBack(w, u) /\ u.gen = w.gen
    BY <1>5, <2>2, <2>3, CutsBack
  <2> QED BY <2>1, <2>4
<1>8. PICK N : N = t.marks
  OBVIOUS
<1>9. /\ Cut(s.marks, N) /\ Given(s.fns, t.fns, Len(N)) /\ t.out = "ok" /\ t.gen = s.gen
  BY <1>2, <1>7, <1>8, GoodFacts DEF CutBack, PendIs
<1>10. Safe(s.fns, s.marks, s.gen, d, H)
  <2>1. On(c).k \notin WithFn
    BY <1>3 DEF WithFn
  <2> QED BY <1>1, <1>3, <2>1, SafePop DEF Sure
<1>11. Low(s.fns, Len(N)) /\ Laid(N, s.gen, d, H) /\ Safe(s.fns, N, s.gen, d, H)
  BY <1>1, <1>3, <1>4, <1>5, <1>9, <1>10, GoodFacts, LowCut
<1>12. Safe(t.fns, N, s.gen, d, H)
  <2>1. SameStore(s.fns, t.fns)
    BY <1>9, <1>11, Spared
  <2> QED BY <1>11, <2>1, SafeSame
<1>13. H[Len(d)] = Len(t.marks)
  <2>1. Owning(t.marks, t.gen, d)
    BY <1>9 DEF Kept
  <2>2. Heights(t.marks, d, H) /\ t.gen = <<>>
    BY <1>3, <1>8, <1>9, <1>11 DEF Laid
  <2> QED BY <1>1, <2>1, <2>2, AllReached
<1>14. Sure(t, d, H)
  BY <1>8, <1>9, <1>11, <1>12, <1>13 DEF Sure, Reached
<1> QED BY <1>9, <1>14 DEF Sured

LEMMA LowSame ==
  ASSUME NEW G, NEW K, NEW n, SameStore(G, K), Low(G, n)
  PROVE  Low(K, n)
BY DEF SameStore, Low

LEMMA LowMore ==
  ASSUME NEW G \in Seq(FnType), NEW n \in Nat, NEW m \in Nat, n <= m, Low(G, n)
  PROVE  Low(G, m)
<1>1. ASSUME NEW f \in 1 .. Len(G), NEW l \in G[f].store PROVE l <= m
  <2>1. l \in Nat /\ l <= n
    BY <1>1, FnFields DEF Low
  <2> QED BY <2>1
<1> QED BY <1>1 DEF Low

\* The function is compiled, and its store dropped, in the loop or at the top level.
LEMMA CompiledHere ==
  ASSUME NEW s, NEW c, NEW z, NEW d \in Seq(FrameType), Plain, Good(s, c), NEW H, Sure(s, c, H),
         Popped(c, d), On(c).k = "cg", On(c).mark = 0, NEW G \in Seq(FnType),
         Safe(G, s.marks, s.gen, d, H), Given(G, z.fns, Len(s.marks) - 1),
         z.marks = s.marks, z.gen = s.gen, z.out = "ok"
  PROVE  Sured(z, d)
<1>1. PICK M : M = s.marks
  OBVIOUS
<1>2. PICK m \in Nat : m = Len(M) /\ m >= 1
  BY <1>1, GoodFacts
<1>3. PICK b \in Nat : b = m - 1
  BY <1>2
<1>4. c \in Seq(FrameType) /\ c # <<>> /\ Nested(c)
  BY GoodFacts DEF Popped
<1>5. Laid(M, s.gen, d, H) /\ H[Len(d)] = H[Len(c)]
  <2>1. PICK g : g = s.gen
    OBVIOUS
  <2>2. Laid(M, g, c, H)
    BY <1>1, <2>1 DEF Sure
  <2>3. Laid(M, g, d, H) /\ H[Len(d)] = H[Len(c)]
    BY <1>4, <2>2, LaidPop
  <2> QED BY <2>1, <2>3
<1>6. (d # <<>> => On(d).k = "loop") /\ (d = <<>> => Len(c) = 1)
  <2>1. (d # <<>> => Makes(On(d), On(c))) /\ (d = <<>> => Len(c) = 1)
    BY <1>4, Under
  <2> QED BY <2>1 DEF Makes
<1>7. PICK k \in Nat : k = Len(d)
  BY StackLen
<1>8. Len(c) = k + 1
  <2>1. PICK n \in Nat : n = Len(c)
    BY <1>4, StackLen
  <2>2. k = n - 1
    BY <1>7, <2>1 DEF Popped
  <2> QED BY <2>1, <2>2
<1>9. ASSUME NEW i \in 1 .. Len(d), d[i].k \in WithFn PROVE d[i].k = "fn" /\ H[i] \in 0 .. b
  <2>1. i \in 1 .. k /\ i \in 1 .. Len(c) /\ i # Len(c) /\ d[i] = c[i]
    BY <1>7, <1>8 DEF Popped
  <2>2. d[i].k = "fn"
    BY <1>4, <1>9, <2>1, OnlyRead
  <2>3. d # <<>>
    BY <1>7, <2>1, StackLen
  <2>4. d[k].k = "loop" /\ k \in 1 .. k
    BY <1>6, <1>7, <2>1, <2>3 DEF On
  <2>5. i # k
    BY <2>2, <2>4
  <2>6. d[k].mark # 0
    <3>1. d[k] = c[k] /\ k \in 1 .. Len(c)
      BY <1>7, <1>8, <2>4 DEF Popped
    <3>2. Sits(s.fns, c[k])
      BY <3>1, GoodFacts DEF AllSit
    <3> QED BY <2>4, <3>1, <3>2 DEF Sits
  <2>7. i \in 0 .. k /\ k \in 0 .. k /\ i < k
    BY <2>1, <2>5
  <2>8. Heights(M, d, H)
    BY <1>5 DEF Laid
  <2>9. H[i] < H[k] /\ H[i] \in 1 .. m /\ H[k] \in 1 .. m
    BY <1>2, <1>7, <2>6, <2>7, <2>8 DEF Heights
  <2>10. H[i] \in 0 .. b
    BY <1>3, <2>9
  <2> QED BY <2>2, <2>10
<1>10. ASSUME NEW i \in 1 .. Len(s.gen)
       PROVE  \E p \in 1 .. Len(M) : M[p].blk = s.gen[i].mark /\ p <= b + 1
  <2>1. PICK p \in 2 .. m : M[p].blk = s.gen[i].mark
    BY <1>1, <1>2, GoodFacts DEF Owning
  <2>2. p \in 1 .. m /\ p <= b + 1
    BY <1>3, <2>1
  <2> QED BY <1>2, <2>1, <2>2
<1>11. Low(G, b)
  <2>1. Safe(G, M, s.gen, d, H)
    BY <1>1
  <2> QED BY <1>9, <1>10, <2>1, LowFrom
<1>12. SameStore(G, z.fns)
  <2>1. Given(G, z.fns, b)
    BY <1>1, <1>2, <1>3
  <2> QED BY <1>11, <2>1, Spared
<1>13. Safe(z.fns, M, s.gen, d, H)
  <2>1. Safe(G, M, s.gen, d, H)
    BY <1>1
  <2> QED BY <1>12, <2>1, SafeSame
<1>14. Reached(M, d, H)
  <2>1. SUFFICES ASSUME Reads(d) PROVE H[Len(d)] = Len(M)
    BY DEF Reached
  <2>2. Len(c) # 1
    <3>1. d # <<>>
      BY <2>1 DEF Reads
    <3>2. k >= 1
      BY <1>7, <3>1, StackLen
    <3> QED BY <1>8, <3>2
  <2>3. Reads(c)
    BY <1>4, <2>2 DEF Reads
  <2> QED BY <1>1, <1>5, <2>3 DEF Sure, Reached
<1>15. Sure(z, d, H)
  BY <1>1, <1>5, <1>13, <1>14 DEF Sure
<1> QED BY <1>15 DEF Sured

\* The instance is compiled, and its mark, the top one, undone.
LEMMA InstanceOnTop ==
  ASSUME NEW s, NEW c, NEW d \in Seq(FrameType), Plain, Good(s, c), NEW H, Sure(s, c, H),
         Popped(c, d), On(c).k = "cg", On(c).mark # 0
  PROVE  /\ d # <<>> /\ Makes(On(d), On(c)) /\ Len(c) = Len(d) + 1
         /\ H[Len(c)] = Len(s.marks)
<1>1. c \in Seq(FrameType) /\ c # <<>> /\ Nested(c)
  BY GoodFacts DEF Popped
<1>2. d # <<>> /\ Makes(On(d), On(c))
  <2>1. (d # <<>> => Makes(On(d), On(c))) /\ (d = <<>> => Alone(On(c)))
    BY <1>1, Under
  <2> QED BY <2>1 DEF Alone
<1>3. PICK k \in Nat : k = Len(d) /\ k >= 1
  BY <1>2, StackLen
<1>4. Len(c) = k + 1
  <2>1. PICK n \in Nat : n = Len(c)
    BY <1>1, StackLen
  <2>2. k = n - 1
    BY <1>3, <2>1 DEF Popped
  <2> QED BY <2>1, <2>2
<1>5. Len(c) # 1
  BY <1>3, <1>4
<1>6. Reads(c)
  BY <1>1, <1>5 DEF Reads
<1> QED BY <1>2, <1>3, <1>4, <1>6 DEF Sure, Reached

LEMMA CompiledInstance ==
  ASSUME NEW s, NEW c, NEW t, NEW d \in Seq(FrameType), Plain, Good(s, c), NEW H, Sure(s, c, H),
         Popped(c, d), On(c).k = "cg", On(c).mark # 0, NEW G \in Seq(FnType),
         Safe(G, s.marks, s.gen, d, H), NEW z, Given(G, z.fns, Len(s.marks) - 1),
         NEW w, Given(z.fns, w.fns, Len(s.marks) - 1), w.marks = s.marks, w.gen = s.gen,
         w.out = "ok", CutBack(w, t), t.gen = w.gen
  PROVE  Sured(t, d)
<1>1. c \in Seq(FrameType) /\ c # <<>> /\ Nested(c)
  BY GoodFacts DEF Popped
<1>2. PICK m \in Nat : m = Len(s.marks) /\ m >= 1
  BY GoodFacts
<1>3. d # <<>> /\ Makes(On(d), On(c)) /\ H[Len(c)] = Len(s.marks) /\ Len(c) = Len(d) + 1
  BY InstanceOnTop
<1>4. PICK k \in Nat : k = Len(d) /\ k >= 1
  BY <1>3, StackLen
<1>5. Len(c) = k + 1
  BY <1>3, <1>4
<1>6. H[Len(c)] = Len(s.marks)
  BY <1>3
<1>8. PICK N : N = t.marks
  OBVIOUS
<1>9. Cut(s.marks, N) /\ Given(w.fns, t.fns, Len(N)) /\ t.out = "ok" /\ t.gen = s.gen
  BY <1>8 DEF CutBack
<1>10. /\ Low(G, Len(N)) /\ Laid(N, s.gen, d, H) /\ Safe(G, N, s.gen, d, H)
       /\ Len(N) \in 1 .. Len(s.marks) - 1
  BY <1>6, <1>9, LowCut
<1>11. PICK l \in 1 .. m - 1 : l = Len(N)
  BY <1>2, <1>10
<1>12. Low(G, m - 1)
  <2>1. l \in Nat /\ m - 1 \in Nat /\ l <= m - 1 /\ Low(G, l)
    BY <1>10, <1>11
  <2> QED BY <2>1, LowMore
<1>13. SameStore(G, z.fns)
  BY <1>2, <1>12, Spared
<1>14. SameStore(z.fns, w.fns) /\ SameStore(w.fns, t.fns)
  <2>1. Low(z.fns, m - 1) /\ Low(z.fns, Len(N))
    BY <1>10, <1>12, <1>13, LowSame
  <2>2. SameStore(z.fns, w.fns)
    BY <1>2, <2>1, Spared
  <2>3. Low(w.fns, Len(N))
    BY <2>1, <2>2, LowSame
  <2> QED BY <1>9, <2>2, <2>3, Spared
<1>15. Safe(t.fns, N, s.gen, d, H)
  <2>1. Safe(z.fns, N, s.gen, d, H)
    BY <1>10, <1>13, SafeSame
  <2>2. Safe(w.fns, N, s.gen, d, H)
    BY <1>14, <2>1, SafeSame
  <2> QED BY <1>14, <2>2, SafeSame
<1>16. Reached(N, d, H)
  <2>1. SUFFICES ASSUME Reads(d) PROVE H[Len(d)] = Len(N)
    BY DEF Reached
  <2>2. On(d).k = "fn"
    BY <1>3, <2>1 DEF Reads, Makes
  <2>3. k + 1 \in 2 .. k + 1 /\ (k + 1) - 1 = k
    BY <1>4
  <2>4. c[k + 1].mark # 0 /\ c[k + 1].k \in {"fn", "cg"} /\ c[k].k = "fn"
    <3>1. k \in 1 .. k
      BY <1>4
    <3>2. d[k] = c[k]
      BY <1>4, <3>1 DEF Popped
    <3> QED BY <1>4, <1>5, <2>2, <3>2 DEF On
  <2>5. H[k + 1] = H[k] + 1
    <3>1. Close(c, H)
      BY DEF Sure, Laid
    <3> QED BY <1>5, <2>3, <2>4, <3>1 DEF Close
  <2>6. H[k] \in 1 .. l
    <3>1. Heights(N, d, H) /\ k \in 0 .. k
      BY <1>10 DEF Laid
    <3> QED BY <1>4, <1>11, <3>1 DEF Heights
  <2>7. H[k] + 1 = m
    BY <1>2, <1>5, <1>6, <2>5
  <2>8. H[k] = l
    BY <2>6, <2>7
  <2> QED BY <1>4, <1>11, <2>8
<1>17. Sure(t, d, H)
  BY <1>8, <1>9, <1>10, <1>15, <1>16 DEF Sure
<1> QED BY <1>9, <1>17 DEF Sured

LEMMA CompiledSure ==
  ASSUME NEW s, NEW c, NEW t, NEW d, Plain, Good(s, c), TypeInv(t, d), NEW H, Sure(s, c, H),
         CompiledOf(s, c, t, d)
  PROVE  Sured(t, d)
<1>1. c \in Seq(FrameType) /\ d \in Seq(FrameType) /\ s.out = "ok"
  BY GoodFacts DEF TypeInv
<1>2. c # <<>> /\ On(c).k = "cg" /\ Popped(c, d)
  BY DEF CompiledOf
<1>3. PICK y, z :
        /\ StOK(y) /\ Still(s, y) /\ OneMade(s.fns, y.fns, On(c).fn)
        /\ StOK(z) /\ DropOf(y, z)
        /\ \/ On(c).mark = 0 /\ t = z
           \/ On(c).mark # 0 /\ \E w : StOK(w) /\ DropOf(z, w) /\ UnmarkOf(w, t, On(c).mark)
  <2>1. PICK x, y, z :
          /\ DescribedOf(s, x) /\ StOK(y) /\ Still(x, y) /\ OneMade(x.fns, y.fns, On(c).fn)
          /\ StOK(z) /\ DropOf(y, z)
          /\ \/ On(c).mark = 0 /\ t = z
             \/ On(c).mark # 0 /\ \E w : StOK(w) /\ DropOf(z, w) /\ UnmarkOf(w, t, On(c).mark)
    BY DEF CompiledOf
  <2>2. x = s
    BY <2>1, PlainNot, PlainDescribed
  <2> QED BY <2>1, <2>2
<1>4. PICK G : G = y.fns
  OBVIOUS
<1>5. G \in Seq(FnType)
  BY <1>3, <1>4, StFields DEF StOK
<1>6. Safe(G, s.marks, s.gen, d, H)
  <2>1. Safe(G, s.marks, s.gen, c, H)
    BY <1>3, <1>4, SafeMade DEF Sure
  <2>2. On(c).fn \in 1 .. Len(G) => G[On(c).fn].store = {}
    BY <1>3, <1>4 DEF OneMade
  <2> QED BY <1>1, <1>2, <2>1, <2>2, SafePop
<1>7. y.marks = s.marks /\ y.gen = s.gen /\ y.out = "ok"
  BY <1>1, <1>3 DEF Still, Lists
<1>8. z.marks = s.marks /\ z.gen = s.gen /\ z.out = "ok" /\ Given(G, z.fns, Len(s.marks) - 1)
  BY <1>3, <1>4, <1>7 DEF DropOf, Lists
<1>9. CASE On(c).mark = 0 /\ t = z
  BY <1>1, <1>2, <1>5, <1>6, <1>8, <1>9, CompiledHere
<1>10. ASSUME On(c).mark # 0, NEW w, DropOf(z, w), UnmarkOf(w, t, On(c).mark)
       PROVE  Sured(t, d)
  <2>1. /\ w.marks = s.marks /\ w.gen = s.gen /\ w.out = "ok"
        /\ Given(z.fns, w.fns, Len(s.marks) - 1) /\ w.seg = Top(s).seg
    BY <1>8, <1>10 DEF DropOf, Lists, Top
  <2>2. H[Len(c)] = Len(s.marks)
    BY <1>1, <1>2, <1>10, InstanceOnTop
  <2>3. CutBack(w, t) /\ t.gen = w.gen
    <3>1. d \in Seq(FrameType) /\ Popped(c, d) /\ On(c).mark # 0
      BY <1>1, <1>2, <1>10
    <3>2. w.marks = s.marks
      BY <2>1
    <3>3. w.seg = Top(s).seg
      BY <2>1
    <3>4. PICK u : u = t
      OBVIOUS
    <3>5. UnmarkOf(w, u, On(c).mark)
      BY <1>10, <3>4
    <3>6. CutBack(w, u) /\ u.gen = w.gen
      BY <2>2, <3>1, <3>2, <3>3, <3>5, CutsBack
    <3> QED BY <3>4, <3>6
  <2> QED BY <1>1, <1>2, <1>5, <1>6, <1>8, <1>10, <2>1, <2>3, CompiledInstance
<1> QED BY <1>3, <1>9, <1>10

\* What the call to compile the function that waits first adds.
LEMMA TakenSafe ==
  ASSUME NEW G, NEW M, NEW g, NEW q, NEW e, NEW c \in Seq(FrameType), NEW d, NEW H, NEW I, NEW h,
         Safe(G, M, g, c, H), Pushed(c, d), On(d).k = "cg", On(d).fn = e.fn,
         Higher(H, I, Len(c), h), Consed(q, g, e), Len(q) \in Nat
  PROVE  Safe(G, M, q, d, I)
<1>1. Len(c) \in Nat
  BY StackLen
<1>2. Safe(G, M, g, d, I)
  BY <1>1, SafePush
<1>3. InCall(d, e.fn)
  <2>1. Len(d) \in 1 .. Len(d)
    BY <1>1 DEF Pushed
  <2> QED BY <2>1 DEF InCall, WithFn, On
<1> QED BY <1>2, <1>3, SafeTaken

LEMMA GeneratedTop ==
  ASSUME NEW s, NEW t, NEW d, Plain, Good(s, <<>>), TypeInv(t, d), NEW H, Sure(s, <<>>, H),
         NEW y, StOK(y), NEW G, SameStore(s.fns, G), Safe(G, s.marks, s.gen, <<>>, H),
         y.marks = s.marks, y.fns = G, y.seg = Top(s).seg, y.out = "ok", NEW E,
         Consed(y.gen, s.gen, E), UnmarkOf(y, t, E.mark),
         Pushed(<<>>, d), On(d).k = "cg", On(d).fn = E.fn, On(d).mark = 0,
         Low(s.fns, Len(s.marks) - 1)
  PROVE  Sured(t, d)
<1>1. d \in Seq(FrameType) /\ <<>> \in Seq(FrameType) /\ StOK(s) /\ Len(<<>>) = 0
  BY GoodFacts DEF TypeInv
<1>2. PICK m \in Nat : m = Len(s.marks) /\ m >= 1
  BY GoodFacts
<1>3. PICK q : q = y.gen
  OBVIOUS
<1>4. Len(q) \in Nat /\ Consed(q, s.gen, E)
  BY <1>3, LenFacts
<1>5. /\ Top(s).blk = E.mark /\ Len(s.marks) >= 2
      /\ \A N : Cut(s.marks, N) => Len(N) = Len(s.marks) - 1 /\ Laid(N, q, <<>>, H)
  <2>1. Laid(s.marks, s.gen, <<>>, H) /\ Owning(s.marks, s.gen, <<>>)
    BY GoodFacts DEF Sure
  <2> QED BY <1>1, <1>4, <2>1, TopIsFirst
<1>6. Top(s) = s.marks[m] /\ Top(y) = s.marks[m]
  BY <1>2, GoodFacts DEF Top, Last
<1>7. ~NoSuchMark(y, t, E.mark)
  <2>1. m \in 2 .. m /\ s.marks[m].blk = E.mark
    BY <1>2, <1>5, <1>6
  <2> QED BY <1>2, <2>1 DEF NoSuchMark
<1>8. ~JustNoted(y, t, E.mark)
  BY <1>5, <1>6 DEF JustNoted
<1>9. ~NotDropped(y, t)
  <2>1. PICK x : x = Top(s).seg
    OBVIOUS
  <2>2. x \in Int /\ ~(x > x)
    BY <2>1, GoodFacts
  <2>3. y.seg = x /\ Top(y).seg = x
    BY <1>6, <2>1
  <2> QED BY <2>2, <2>3 DEF NotDropped
<1>10. PICK N : N = t.marks
  OBVIOUS
<1>11. Cut(s.marks, N) /\ Given(G, t.fns, Len(N)) /\ t.out = "ok" /\ t.gen = q
  BY <1>3, <1>7, <1>8, <1>9, <1>10 DEF UnmarkOf, Lists, CutBack
<1>12. Len(N) = m - 1 /\ m - 1 \in Nat /\ Laid(N, q, <<>>, H)
  BY <1>2, <1>5, <1>11
<1>13. PICK h : h = H[Len(<<>>)]
  OBVIOUS
<1>14. PICK I : Higher(H, I, Len(<<>>), h)
  BY <1>1, HigherIs
<1>15. Laid(N, q, d, I)
  <2>1. Len(N) \in Nat
    BY <1>12
  <2>2. Higher(H, I, Len(<<>>), H[Len(<<>>)])
    BY <1>13, <1>14
  <2> QED BY <1>1, <1>12, <2>1, <2>2, LaidPush
<1>16. Safe(G, s.marks, q, d, I)
  BY <1>1, <1>4, <1>14, TakenSafe
<1>17. Low(G, Len(N))
  BY <1>2, <1>12, LowSame
<1>18. Safe(G, N, q, d, I)
  <2>1. G \in Seq(FnType)
    <3>1. y.fns \in Seq(FnType)
      BY StFields DEF StOK
    <3> QED BY <3>1
  <2>2. \A p \in 1 .. Len(N) : p <= Len(s.marks) => N[p].blk = s.marks[p].blk
    BY <1>11 DEF Cut
  <2>3. Len(s.marks) \in Nat /\ Len(N) \in Nat
    BY <1>2, <1>12
  <2> QED BY <1>16, <1>17, <2>1, <2>2, <2>3, SafeMarks
<1>19. Safe(t.fns, N, q, d, I)
  <2>1. SameStore(G, t.fns)
    BY <1>11, <1>17, Spared
  <2> QED BY <1>18, <2>1, SafeSame
<1>20. ~Reads(d)
  <2>1. Len(d) = 1
    BY <1>1 DEF Pushed
  <2> QED BY <2>1 DEF Reads
<1>21. Sure(t, d, I)
  BY <1>10, <1>11, <1>15, <1>19, <1>20 DEF Sure, Reached
<1> QED BY <1>11, <1>21 DEF Sured

LEMMA GeneratedInLoop ==
  ASSUME NEW s, NEW c, NEW t, NEW d, Plain, Good(s, c), TypeInv(t, d), NEW H, Sure(s, c, H),
         c # <<>>, On(c).k = "loop", NEW y, StOK(y), y.marks = s.marks, y.fns = s.fns, y.out = "ok",
         NEW E, E = s.gen[1], Consed(y.gen, s.gen, E), UnmarkOf(y, t, E.mark),
         Pushed(c, d), On(d).k = "cg", On(d).fn = E.fn, On(d).mark = 0
  PROVE  Sured(t, d)
<1>1. c \in Seq(FrameType) /\ d \in Seq(FrameType) /\ StOK(s)
  BY GoodFacts DEF TypeInv
<1>2. PICK m \in Nat : m = Len(s.marks) /\ m >= 1
  BY GoodFacts
<1>3. PICK n \in Nat : n = Len(c) /\ n >= 1 /\ On(c) = c[n] /\ n \in 1 .. n
  BY <1>1, StackLen DEF On
<1>4. PICK q : q = y.gen
  OBVIOUS
<1>5. Len(q) \in Nat /\ Consed(q, s.gen, E)
  BY <1>4, LenFacts
<1>6. 1 \in 1 .. Len(s.gen)
  BY <1>5 DEF Consed
<1>7. H[n] = m
  <2>1. Reads(c)
    BY DEF Reads
  <2> QED BY <1>2, <1>3, <2>1 DEF Sure, Reached
<1>8. Owning(s.marks, s.gen, c) /\ Laid(s.marks, s.gen, c, H)
  BY GoodFacts DEF Sure
<1>9. s.marks[m].blk # E.mark
  <2>1. On(c).mark # 0
    BY GoodFacts DEF Sits
  <2>2. Heights(s.marks, c, H)
    BY <1>8 DEF Laid
  <2>3. s.marks[m].blk = c[n].mark
    BY <1>3, <1>7, <2>1, <2>2 DEF Heights
  <2>4. s.gen[1].mark # c[n].mark
    BY <1>3, <1>6, <1>8 DEF Owning
  <2> QED BY <2>3, <2>4
<1>10. Top(y) = s.marks[m]
  BY <1>2, GoodFacts DEF Top, Last
<1>11. ~NoSuchMark(y, t, E.mark)
  <2>1. \E p \in 2 .. Len(s.marks) : s.marks[p].blk = E.mark
    BY <1>6, <1>8 DEF Owning
  <2> QED BY <2>1 DEF NoSuchMark
<1>12. PICK N : N = t.marks
  OBVIOUS
<1>13. Flagged(s.marks, N, E.mark) /\ t.fns = s.fns /\ t.out = "ok" /\ t.gen = q
  BY <1>4, <1>9, <1>10, <1>11, <1>12 DEF UnmarkOf, Lists, JustNoted
<1>14. Laid(N, q, c, H)
  <2>1. H[Len(c)] = Len(s.marks) /\ s.marks[Len(s.marks)].blk # E.mark
    BY <1>2, <1>3, <1>7, <1>9
  <2>2. Len(c) \in Nat /\ Len(s.marks) \in Nat
    BY <1>2, <1>3
  <2> QED BY <1>5, <1>8, <1>13, <2>1, <2>2, LaidFlag
<1>15. Len(N) = m
  BY <1>2, <1>13 DEF Flagged
<1>16. PICK h : h = H[Len(c)]
  OBVIOUS
<1>17. PICK I : Higher(H, I, Len(c), h)
  BY <1>3, HigherIs
<1>18. Laid(N, q, d, I)
  <2>1. Higher(H, I, Len(c), H[Len(c)]) /\ Len(N) \in Nat
    BY <1>15, <1>16, <1>17
  <2> QED BY <1>1, <1>14, <2>1, LaidPush
<1>19. PICK G : G = s.fns
  OBVIOUS
<1>20. Safe(G, s.marks, s.gen, c, H)
  BY <1>19 DEF Sure
<1>21. Safe(G, s.marks, q, d, I)
  BY <1>1, <1>5, <1>17, <1>20, TakenSafe
<1>22. Safe(G, N, q, d, I)
  <2>1. G \in Seq(FnType)
    BY <1>19, GoodFacts
  <2>2. \A p \in 1 .. Len(N) : p <= Len(s.marks) => N[p].blk = s.marks[p].blk
    BY <1>2, <1>13, <1>15 DEF Flagged
  <2>3. Low(G, Len(N))
    BY <1>2, <1>15, <1>20 DEF Safe
  <2>4. Len(s.marks) \in Nat /\ Len(N) \in Nat
    BY <1>2, <1>15
  <2> QED BY <1>21, <2>1, <2>2, <2>3, <2>4, SafeMarks
<1>23. I[Len(d)] = Len(N)
  BY <1>3, <1>7, <1>15, <1>16, <1>17 DEF Pushed, Higher
<1>24. Sure(t, d, I)
  BY <1>12, <1>13, <1>18, <1>19, <1>22, <1>23 DEF Sure, Reached
<1> QED BY <1>13, <1>24 DEF Sured

LEMMA GeneratedSure ==
  ASSUME NEW s, NEW c, NEW t, NEW d, Plain, Good(s, c), TypeInv(t, d), NEW H, Sure(s, c, H),
         GeneratedOf(s, c, t, d)
  PROVE  Sured(t, d)
<1>1. PICK E : E = s.gen[1]
  OBVIOUS
<1>2. PICK e, y : /\ EntryOf(s, c, e) /\ StOK(y) /\ GenTaken(e, y) /\ UnmarkOf(y, t, E.mark)
  <2>1. PICK e, x, y : /\ EntryOf(s, c, e) /\ DescribedOf(e, x) /\ StOK(y) /\ GenTaken(x, y)
                       /\ UnmarkOf(y, t, E.mark)
    BY <1>1 DEF GeneratedOf
  <2>2. x = e
    BY <2>1, PlainNot, PlainDescribed
  <2> QED BY <2>1, <2>2
<1>3. CallingOf(s, c) /\ Pushed(c, d) /\ On(d).k = "cg" /\ On(d).fn = E.fn /\ On(d).mark = 0
  BY <1>1 DEF GeneratedOf, FrameIs
<1>4. /\ SameStore(s.fns, e.fns) /\ e.marks = s.marks /\ e.gen = s.gen /\ e.out = "ok"
      /\ Safe(e.fns, s.marks, s.gen, c, H)
  BY <1>2, EntrySame
<1>5. /\ y.marks = s.marks /\ y.fns = e.fns /\ y.seg = e.seg /\ y.out = "ok"
      /\ Consed(y.gen, s.gen, E)
  BY <1>1, <1>2, <1>4 DEF GenTaken
<1>6. CASE c = <<>>
  <2>1. DropOf(s, e)
    BY <1>2, <1>6 DEF EntryOf
  <2>2. y.seg = Top(s).seg
    BY <1>5, <2>1 DEF DropOf
  <2>3. Good(s, <<>>) /\ Sure(s, <<>>, H) /\ Pushed(<<>>, d)
    BY <1>3, <1>6
  <2>4. Low(s.fns, Len(s.marks) - 1)
    BY <2>1, <2>3, TopDrop
  <2>5. PICK G : G = e.fns
    OBVIOUS
  <2>6. SameStore(s.fns, G) /\ Safe(G, s.marks, s.gen, <<>>, H) /\ y.fns = G
    BY <1>4, <1>5, <1>6, <2>5
  <2>7. StOK(y) /\ UnmarkOf(y, t, E.mark) /\ y.marks = s.marks /\ y.out = "ok" /\ Consed(y.gen, s.gen, E)
    BY <1>2, <1>5
  <2>8. On(d).k = "cg" /\ On(d).fn = E.fn /\ On(d).mark = 0
    BY <1>3
  <2> QED BY <2>2, <2>3, <2>4, <2>6, <2>7, <2>8, GeneratedTop
<1>7. CASE c # <<>> /\ On(c).k = "loop"
  <2>1. e = s
    BY <1>2, <1>7 DEF EntryOf
  <2>2. y.fns = s.fns
    BY <1>5, <2>1
  <2> QED BY <1>1, <1>2, <1>3, <1>5, <1>7, <2>2, GeneratedInLoop
<1> QED BY <1>3, <1>6, <1>7 DEF CallingOf

\* At the end of the file every function is whole.
LEMMA EndWhole ==
  ASSUME NEW s, NEW c, NEW t, NEW d, Plain, Good(s, c), NEW H, Sure(s, c, H), EndOfFileOf(s, c, t, d)
  PROVE  AllWhole(t.fns) /\ t.out \in {"done", "marklist"}
<1>1. PICK e : DropOf(s, e) /\ t.fns = e.fns
  BY DEF EndOfFileOf
<1>2. Good(s, <<>>) /\ Sure(s, <<>>, H)
  BY DEF EndOfFileOf
<1>3. SameStore(s.fns, e.fns)
  BY <1>1, <1>2, TopDrop
<1>4. AllWhole(s.fns)
  BY DEF Sure, Safe
<1>5. AllWhole(t.fns)
  BY <1>1, <1>3, <1>4 DEF AllWhole, SameStore
<1> QED BY <1>5 DEF EndOfFileOf

\* A loop is met again with the segment its mark has kept.
LEMMA StepSettled ==
  ASSUME NEW s, NEW c, NEW t, NEW d, Plain, Good(s, c), TypeInv(t, d), Steps(s, c, t, d)
  PROVE  Settled(t, d)
<1>1. c \in Seq(FrameType) /\ d \in Seq(FrameType)
  BY GoodFacts DEF TypeInv
<1>2. SUFFICES ASSUME d # <<>>, On(d).k = "loop" PROVE t.seg = Top(t).seg
  BY DEF Settled
<1>3. ASSUME Popped(c, d) PROVE On(c).k \in {"fn", "cg"} /\ On(c).mark = 0
  BY <1>1, <1>2, <1>3, GoodFacts, Under DEF Makes
<1>4. CASE \/ GeneratedOf(s, c, t, d) \/ PendingOf(s, c, t, d) \/ SourceOf(s, c, t, d)
           \/ InstanceFnOf(s, c, t, d) \/ GenerateFnOf(s, c, t, d)
  BY <1>2, <1>4 DEF GeneratedOf, PendingOf, SourceOf, InstanceFnOf, GenerateFnOf, FrameIs
<1>5. CASE \/ InstanceClassOf(s, c, t, d) \/ LocalClassOf(s, c, t, d) \/ TopClassOf(s, c, t, d)
           \/ NestedClassOf(s, c, t, d)
  BY <1>2, <1>5 DEF InstanceClassOf, LocalClassOf, TopClassOf, NestedClassOf, FrameIs
<1>6. CASE \/ EndOfFileOf(s, c, t, d) \/ ReadOf(s, c, t, d) \/ DescribeOf(s, c, t, d)
           \/ MemberFnOf(s, c, t, d)
  BY <1>2, <1>6 DEF EndOfFileOf, ReadOf, DescribeOf, MemberFnOf
<1>7. CASE HeadOf(s, c, t, d) \/ MembersOf(s, c, t, d)
  BY <1>2, <1>7, PlainNot DEF HeadOf, MembersOf, FrameIs
<1>8. CASE NotedOf(s, c, t, d) \/ EndLoopOf(s, c, t, d) \/ EndDeclOf(s, c, t, d)
  BY <1>3, <1>8 DEF NotedOf, EndLoopOf, EndDeclOf
<1>9. CASE EndFnOf(s, c, t, d)
  <2>1. CASE Popped(c, d) /\ s.fns[On(c).fn].only
    BY <1>1, <1>2, <1>9, <2>1, OnlyAtTop DEF EndFnOf
  <2>2. CASE FrameIs(On(d), "cg", On(c).fn, On(c).mark, <<>>, "top")
    BY <1>2, <2>2 DEF FrameIs
  <2> QED BY <1>9, <2>1, <2>2 DEF EndFnOf
<1>10. CASE CompiledOf(s, c, t, d)
  <2>1. Popped(c, d)
    BY <1>10 DEF CompiledOf
  <2>2. On(c).mark = 0
    BY <1>3, <2>1
  <2>3. PICK y : DropOf(y, t)
    BY <1>10, <2>2 DEF CompiledOf
  <2> QED BY <2>3 DEF DropOf, Top
<1>11. CASE EndClassOf(s, c, t, d)
  <2>1. On(c).k = "class"
    BY <1>11 DEF EndClassOf
  <2>2. ~Popped(c, d)
    BY <1>3, <2>1
  <2>3. CASE MarkOf(s, t)
    <3>1. t.seg = t.marks[Len(t.marks)].seg
      BY <2>3 DEF MarkOf
    <3> QED BY <3>1 DEF Top, Last
  <2>4. ASSUME NEW m, MarkOf(s, m), PendIs(m, t, <<>>) PROVE t.seg = Top(t).seg
    <3>1. m.seg = m.marks[Len(m.marks)].seg
      BY <2>4 DEF MarkOf
    <3>2. t.seg = m.seg /\ t.marks = m.marks
      BY <2>4 DEF PendIs
    <3> QED BY <3>1, <3>2 DEF Top, Last
  <2> QED BY <1>11, <2>2, <2>3, <2>4 DEF EndClassOf
<1> QED BY <1>4, <1>5, <1>6, <1>7, <1>8, <1>9, <1>10, <1>11 DEF Steps

\* What a step leaves, with none of the features.
LEMMA StepSure ==
  ASSUME NEW s, NEW c, NEW t, NEW d, Plain, Good(s, c), TypeInv(t, d), NEW H, Sure(s, c, H),
         Steps(s, c, t, d), Kept(t, d)
  PROVE  Sured(t, d) \/ (AllWhole(t.fns) /\ t.out \in {"done", "marklist"})
<1>1. CASE GeneratedOf(s, c, t, d) \/ PendingOf(s, c, t, d) \/ SourceOf(s, c, t, d)
  BY <1>1, GeneratedSure, PendingSure, SourceSure
<1>2. CASE EndOfFileOf(s, c, t, d)
  BY <1>2, EndWhole
<1>3. CASE ReadOf(s, c, t, d)
  BY <1>3, ReadSure
<1>4. CASE DescribeOf(s, c, t, d)
  BY <1>4, PlainNot DEF DescribeOf, Extra
<1>5. CASE HeadOf(s, c, t, d) \/ MembersOf(s, c, t, d)
  BY <1>5, PartsSure
<1>6. CASE EndFnOf(s, c, t, d)
  BY <1>6, PartsSure, ParsedSure
<1>7. CASE NotedOf(s, c, t, d) \/ CompiledOf(s, c, t, d) \/ InstanceFnOf(s, c, t, d)
  BY <1>7, NotedSure, CompiledSure, InstanceSure
<1>8. CASE \/ InstanceClassOf(s, c, t, d) \/ LocalClassOf(s, c, t, d) \/ TopClassOf(s, c, t, d)
           \/ NestedClassOf(s, c, t, d)
  BY <1>8, ClassSure
<1>9. CASE MemberFnOf(s, c, t, d) \/ GenerateFnOf(s, c, t, d)
  BY <1>9, MemberSure, GenerateSure
<1>10. CASE EndClassOf(s, c, t, d) \/ EndLoopOf(s, c, t, d) \/ EndDeclOf(s, c, t, d)
  BY <1>10, EndClassSure, EndLoopSure, EndDeclSure
<1> QED BY <1>1, <1>2, <1>3, <1>4, <1>5, <1>6, <1>7, <1>8, <1>9, <1>10 DEF Steps

----------------------------------------------------------------------------
(* The theorems about the store.                                           *)

Ordinary(s, c) ==
  /\ AllWhole(s.fns) /\ s.out # "unmark1"
  /\ s.out = "ok" => /\ Nested(c) /\ Firm(s.fns, s.pend, c) /\ Settled(s, c)
                     /\ \E H : Sure(s, c, H)

PlainInv == OnceInv /\ (Plain => Ordinary(st, ctl))

LEMMA StartSure ==
  ASSUME Start PROVE Ordinary(st, ctl)
<1>1. PICK H : H = [i \in {0} |-> 1]
  OBVIOUS
<1>2. H[0] = 1
  BY <1>1
<1>3. \A i \in 1 .. 0 : FALSE
  OBVIOUS
<1>4. \A i \in 2 .. 0 : FALSE
  OBVIOUS
<1>5. Len(ctl) = 0 /\ Len(st.gen) = 0 /\ Len(st.fns) = 0 /\ Len(st.marks) = 1 /\ Len(st.pend) = 0
  BY DEF Start
<1>6. ~st.marks[1].unmarked
  BY DEF Start
<1>7. (\A p \in 1 .. 1 : p = 1) /\ \A i \in 0 .. 0 : i = 0
  OBVIOUS
<1>8. Heights(st.marks, ctl, H)
  <2>1. \A i, j \in 0 .. 0 : ~(i < j)
    OBVIOUS
  <2> QED BY <1>2, <1>3, <1>5, <1>6, <1>7, <2>1 DEF Heights
<1>9. Covered(st.marks, st.gen, ctl, H)
  BY <1>5, <1>6, <1>7 DEF Covered
<1>10. NotesUp(st.marks, st.gen) /\ Close(ctl, H)
  BY <1>3, <1>4, <1>5 DEF NotesUp, Close
<1>11. AllWhole(st.fns) /\ Low(st.fns, Len(st.marks)) /\ Homes(st.fns, st.gen, ctl)
  BY <1>3, <1>5 DEF AllWhole, Low, Homes
<1>12. NotesLow(st.fns, st.marks, st.gen) /\ CallsLow(st.fns, ctl, H) /\ GenKnown(st.gen, st.fns)
  BY <1>3, <1>5 DEF NotesLow, CallsLow, GenKnown
<1>13. ~Reads(ctl) /\ Settled(st, ctl) /\ st.out = "ok"
  BY DEF Reads, Settled, Start
<1>14. Sure(st, ctl, H)
  BY <1>8, <1>9, <1>10, <1>11, <1>12, <1>13 DEF Sure, Laid, Reached, Safe
<1>15. Nested(ctl)
  <2>1. \A i \in 1 .. 0 - 1 : FALSE
    OBVIOUS
  <2> QED BY <1>5, <2>1 DEF Nested, Start
<1>16. Firm(st.fns, st.pend, ctl)
  BY <1>3, <1>4, <1>5 DEF Firm, KeptNone
<1> QED BY <1>11, <1>13, <1>14, <1>15, <1>16 DEF Ordinary

LEMMA InitPlain ==
  ASSUME Init PROVE PlainInv
BY InitOnce, InitStarts, StartSure DEF PlainInv

LEMMA StepOrdinary ==
  ASSUME NEW s, NEW c, NEW t, NEW d, Plain, TypeInv(s, c), TypeInv(t, d), KnownInv(s, c),
         s.out = "ok", Owned(s, c), OncePlaced(s, c), Ordinary(s, c), Steps(s, c, t, d)
  PROVE  Ordinary(t, d)
<1>1. /\ Nested(c) /\ Firm(s.fns, s.pend, c) /\ Settled(s, c)
      /\ \E H : Sure(s, c, H)
  BY DEF Ordinary
<1>2. PICK H : Sure(s, c, H)
  BY <1>1
<1>3. Good(s, c)
  BY <1>1 DEF Good
<1>4. Kept(t, d)
  <2>1. \/ Balanced(t, d) \/ t.out = "done" \/ t.out = "marklist"
    BY StepOwned
  <2>2. t.out = "ok" => Owned(t, d)
    BY <2>1 DEF Balanced
  <2>3. Len(t.marks) \in Nat
    BY TopFacts DEF TypeInv
  <2> QED BY <2>2, <2>3, PlainNot, OwnedOwning DEF Kept
<1>5. Sured(t, d) \/ (AllWhole(t.fns) /\ t.out \in {"done", "marklist"})
  BY <1>2, <1>3, <1>4, StepSure
<1>6. Nested(d) /\ Firm(t.fns, t.pend, d) /\ Settled(t, d)
  BY <1>1, <1>3, StepNested, StepFirm, StepSettled
<1>7. Sured(t, d) => t.out = "ok" /\ AllWhole(t.fns) /\ \E I : Sure(t, d, I)
  BY DEF Sured, Sure, Safe
<1> QED BY <1>5, <1>6, <1>7 DEF Ordinary

LEMMA OrdinaryPrimed ==
  ASSUME features' = features, Ordinary(st', ctl')
  PROVE  Ordinary(st, ctl)'
<1>1. Nested(ctl') => Nested(ctl)'
  BY DEF Nested, Makes
<1>2. /\ AllWhole(st.fns)' /\ st.out' # "unmark1"
      /\ st.out' = "ok" => /\ Nested(ctl)' /\ Firm(st.fns, st.pend, ctl)' /\ Settled(st, ctl)'
                           /\ \E H : Sure(st, ctl, H)'
  BY <1>1 DEF Ordinary
<1> QED BY <1>2 DEF Ordinary

LEMMA PlainStays ==
  ASSUME PlainInv, [Next]_vars PROVE PlainInv'
<1>1. OnceInv /\ OnceInv' /\ MarksInv /\ Types /\ KnownInv(st, ctl)
  BY OnceStays DEF PlainInv, OnceInv, MarksInv
<1>2. TypeInv(st, ctl) /\ TypeInv(st', ctl') /\ features' = features
  BY <1>1, NextSteps DEF Types
<1>3. Plain' <=> Plain
  BY <1>2 DEF Plain
<1>4. SUFFICES ASSUME Plain PROVE Ordinary(st', ctl')
  BY <1>1, <1>2, <1>3, OrdinaryPrimed DEF PlainInv
<1>5. Ordinary(st, ctl)
  BY <1>4 DEF PlainInv
<1>6. CASE UNCHANGED vars
  <2>1. st' = st /\ ctl' = ctl
    BY <1>6 DEF vars
  <2> QED BY <1>5, <2>1
<1>7. CASE st.out = "ok" /\ Steps(st, ctl, st', ctl')
  <2>1. Owned(st, ctl) /\ OncePlaced(st, ctl)
    BY <1>1, <1>7 DEF MarksInv, OnceInv
  <2> QED BY <1>1, <1>2, <1>4, <1>5, <1>7, <2>1, StepOrdinary
<1> QED BY <1>1, <1>6, <1>7, NextSteps

\* With none of the features every function is whole while it is read or built, while it
\* waits and when it is compiled: no alloc_unmark and no drop_local_store, of the loops
\* that compile other functions in the middle of it or of compile_statements, gives back
\* a level that holds a piece of it.
THEOREM GeneratedWhole == Spec => []Whole
<1>1. PlainInv => Whole
  <2>1. SUFFICES ASSUME PlainInv, Plain, NEW f \in DOMAIN F PROVE F[f].whole
    BY DEF Whole
  <2>2. AllWhole(st.fns)
    BY <2>1 DEF PlainInv, Ordinary
  <2>3. st.fns \in Seq(FnType)
    BY <2>1 DEF PlainInv, OnceInv, MarksInv, Types, TypeInv, StOK, StType
  <2>4. f \in 1 .. Len(st.fns)
    BY <2>1, <2>3, LenProperties DEF F
  <2> QED BY <2>2, <2>4 DEF AllWhole, F
<1> QED BY <1>1, InitPlain, PlainStays, PTL DEF Spec

\* No mark is lost or undone twice, none is left at the end without debug tables, and with
\* none of the features the local store above a mark was dropped by whoever undoes it:
\* alloc_unmark and alloc_perfilefinalise report none of their three errors.
THEOREM GeneratedBalanced == Spec => []MarksBalanced
<1>1. PlainInv => MarksBalanced
  <2>1. SUFFICES ASSUME PlainInv PROVE MarksBalanced
    OBVIOUS
  <2>2. st.out # "unmark" /\ ("debug" \notin features => st.out # "marklist")
    BY <2>1 DEF PlainInv, OnceInv, MarksInv
  <2>3. Cores => "debug" \notin features
    BY DEF Cores
  <2>4. Plain => st.out # "unmark1"
    BY <2>1 DEF PlainInv, Ordinary
  <2> QED BY <2>2, <2>3, <2>4 DEF MarksBalanced
<1> QED BY <1>1, InitPlain, PlainStays, PTL DEF Spec

\* Places that go down by order, and leave none out.
LEMMA Downwards ==
  ASSUME NEW m \in Nat, m >= 1, NEW n \in Nat, NEW P,
         \A i \in 1 .. n : P[i] \in 2 .. m,
         \A i, j \in 1 .. n : i < j => P[j] < P[i],
         \A q \in 2 .. m : \E j \in 1 .. n : P[j] = q
  PROVE  n = m - 1 /\ \A i \in 1 .. n : P[i] = m + 1 - i
<1>1. \A i \in 1 .. n : P[i] = m + 1 - i
  <2>1. SUFFICES ASSUME NEW a \in 1 .. n, P[a] # m + 1 - a PROVE FALSE
    OBVIOUS
  <2>2. PICK S : S = {i \in 1 .. n : P[i] # m + 1 - i}
    OBVIOUS
  <2>3. S \in SUBSET Nat /\ S # {}
    BY <2>1, <2>2
  <2>4. PICK k \in S : \A j \in S : k <= j
    BY <2>3, HasLeast
  <2>5. k \in 1 .. n /\ P[k] # m + 1 - k /\ P[k] \in 2 .. m
    BY <2>2, <2>4
  <2>6. \A j \in 1 .. n : j < k => P[j] = m + 1 - j
    BY <2>2, <2>4, <2>5
  <2>7. P[k] <= m + 1 - k
    <3>1. CASE k = 1
      BY <2>5, <3>1
    <3>2. CASE k # 1
      <4>1. k - 1 \in 1 .. n /\ k - 1 < k
        BY <2>5, <3>2
      <4>2. P[k - 1] = m + 1 - (k - 1)
        BY <2>6, <4>1
      <4>3. P[k] < P[k - 1]
        BY <2>5, <4>1
      <4> QED BY <2>5, <4>2, <4>3
    <3> QED BY <3>1, <3>2
  <2>8. m + 1 - k \in 2 .. m
    BY <2>5, <2>7
  <2>9. PICK j \in 1 .. n : P[j] = m + 1 - k
    BY <2>8
  <2>10. P[k] < P[j]
    BY <2>5, <2>7, <2>9
  <2>11. j < k
    <3>1. k # j
      BY <2>5, <2>9
    <3>2. ~(k < j)
      <4>1. k < j => P[j] < P[k]
        BY <2>5
      <4> QED BY <2>5, <2>8, <2>9, <2>10, <4>1
    <3> QED BY <2>5, <3>1, <3>2
  <2>12. P[j] = m + 1 - j
    BY <2>6, <2>11
  <2> QED BY <2>5, <2>9, <2>11, <2>12
<1>2. n = m - 1
  <2>1. CASE m = 1
    <3>1. n # 0 => 1 \in 1 .. n
      OBVIOUS
    <3>2. n # 0 => P[1] \in 2 .. 1
      BY <2>1, <3>1
    <3>3. ~(P[1] \in 2 .. 1)
      OBVIOUS
    <3> QED BY <2>1, <3>2, <3>3
  <2>2. CASE m # 1
    <3>1. 2 \in 2 .. m
      BY <2>2
    <3>2. PICK j \in 1 .. n : P[j] = 2
      BY <3>1
    <3>3. P[j] = m + 1 - j
      BY <1>1
    <3>4. n \in 1 .. n
      OBVIOUS
    <3>5. P[n] = m + 1 - n /\ P[n] \in 2 .. m
      BY <1>1, <3>4
    <3> QED BY <3>2, <3>3, <3>5
  <2> QED BY <2>1, <2>2
<1> QED BY <1>1, <1>2

LEMMA OrderIs ==
  ASSUME NEW s, StOK(s), NEW g, g = s.gen, Len(g) \in Nat, Owning(s.marks, g, <<>>), NEW H,
         Laid(s.marks, g, <<>>, H)
  PROVE  /\ Len(s.marks) = Len(g) + 1
         /\ \A i \in 1 .. Len(g) : g[i].mark = s.marks[Len(s.marks) + 1 - i].blk
         /\ \A p \in 1 .. Len(s.marks) : ~s.marks[p].unmarked
<1>1. PICK M : M = s.marks
  OBVIOUS
<1>2. PICK m \in Nat : m = Len(M) /\ m >= 1
  BY <1>1, TopFacts
<1>3. PICK n \in Nat : n = Len(g)
  OBVIOUS
<1>4. ASSUME NEW p \in 1 .. m PROVE ~M[p].unmarked
  <2>1. Heights(M, <<>>, H) /\ Covered(M, g, <<>>, H)
    BY <1>1 DEF Laid
  <2> QED BY <1>2, <2>1, NonePending
<1>5. \A i \in 1 .. Len(<<>>) : FALSE
  OBVIOUS
<1>6. \A q \in 2 .. m : M[q].unmarked \/ \E i \in 1 .. n : g[i].mark = M[q].blk
  BY <1>1, <1>2, <1>3, <1>5 DEF Owning
<1>7. \A i \in 1 .. n : \E p \in 2 .. m : M[p].blk = g[i].mark
  BY <1>1, <1>2, <1>3 DEF Owning
<1>8. PICK P : P = [i \in 1 .. n |-> CHOOSE p \in 2 .. m : M[p].blk = g[i].mark]
  OBVIOUS
<1>9. \A i \in 1 .. n : P[i] \in 2 .. m /\ M[P[i]].blk = g[i].mark
  BY <1>7, <1>8
<1>10. ASSUME NEW i \in 1 .. n, NEW j \in 1 .. n, i < j PROVE P[j] < P[i]
  <2>1. P[i] \in 1 .. m /\ P[j] \in 1 .. m
    BY <1>2, <1>9
  <2>2. NotesUp(M, g)
    BY <1>1 DEF Laid
  <2> QED BY <1>2, <1>3, <1>9, <1>10, <2>1, <2>2 DEF NotesUp
<1>11. ASSUME NEW q \in 2 .. m PROVE \E j \in 1 .. n : P[j] = q
  <2>1. q \in 1 .. m
    BY <1>2
  <2>2. PICK j \in 1 .. n : g[j].mark = M[q].blk
    BY <1>4, <1>6, <2>1
  <2>3. M[P[j]].blk = M[q].blk /\ P[j] \in 1 .. m
    BY <1>2, <1>9, <2>2
  <2>4. P[j] = q
    BY <1>1, <1>2, <2>1, <2>3, OnePlace
  <2> QED BY <2>4
<1>12. n = m - 1 /\ \A i \in 1 .. n : P[i] = m + 1 - i
  <2>1. \A i \in 1 .. n : P[i] \in 2 .. m
    BY <1>9
  <2>2. m >= 1
    BY <1>2
  <2> QED BY <1>10, <1>11, <2>1, <2>2, Downwards
<1>13. m = n + 1
  BY <1>2, <1>3, <1>12
<1>14. \A i \in 1 .. n : g[i].mark = M[m + 1 - i].blk
  BY <1>9, <1>12
<1> QED BY <1>1, <1>2, <1>3, <1>4, <1>13, <1>14

\* With none of the features, between declarations the marks above the base are those of
\* the generated functions in waiting, latest on top, and none is pending.
THEOREM GeneratedOrder == Spec => []MarksInOrder
<1>1. PlainInv => MarksInOrder
  <2>1. SUFFICES ASSUME PlainInv, Plain, ctl = <<>>, st.out = "ok"
                 PROVE  /\ Place(st) = Len(st.gen) + 1
                        /\ \A i \in 1 .. Len(st.gen) :
                             st.gen[i].mark = st.marks[Place(st) + 1 - i].blk
                        /\ \A i \in DOMAIN st.marks : ~st.marks[i].unmarked
    BY DEF MarksInOrder
  <2>2. StOK(st) /\ Owned(st, <<>>)
    BY <2>1 DEF PlainInv, OnceInv, MarksInv, Types, TypeInv
  <2>3. PICK H : Sure(st, <<>>, H)
    BY <2>1 DEF PlainInv, Ordinary
  <2>4. PICK g : g = st.gen
    OBVIOUS
  <2>5. Len(g) \in Nat
    BY <2>2, <2>4, LenFacts
  <2>6. Len(st.marks) \in Nat
    BY <2>2, TopFacts
  <2>7. Owning(st.marks, g, <<>>)
    BY <2>1, <2>2, <2>4, <2>6, PlainNot, OwnedOwning
  <2>8. Laid(st.marks, g, <<>>, H)
    BY <2>3, <2>4 DEF Sure
  <2>9. /\ Len(st.marks) = Len(g) + 1
        /\ \A i \in 1 .. Len(g) : g[i].mark = st.marks[Len(st.marks) + 1 - i].blk
        /\ \A p \in 1 .. Len(st.marks) : ~st.marks[p].unmarked
    BY <2>2, <2>4, <2>5, <2>7, <2>8, OrderIs
  <2>10. DOMAIN st.marks = 1 .. Len(st.marks)
    <3>1. st.marks \in Seq(MarkType)
      BY <2>2, StFields DEF StOK
    <3> QED BY <3>1, LenProperties
  <2> QED BY <2>4, <2>9, <2>10 DEF Place
<1> QED BY <1>1, InitPlain, PlainStays, PTL DEF Spec

----------------------------------------------------------------------------
(* What a step can do to a function, whatever the features.                *)

\* The store of f is under the mark of a function in waiting, its own if it waits: a mark
\* that is not pending and that no call in progress is to undo.
Sheltered(G, M, g, c, f) ==
  \E q \in 2 .. Len(M) :
    /\ ~M[q].unmarked /\ \A j \in 1 .. Len(c) : c[j].mark # M[q].blk
    /\ \A i \in 1 .. Len(g) : g[i].mark = M[q].blk => g[i].fn = f
    /\ \A l \in G[f].store : l < q

\* What a call has read of a function is under the marks of the calls it makes.
HandLow(G, c, H) ==
  \A i, j \in 1 .. Len(c) :
    i < j /\ c[i].k \in {"fn", "build"} /\ c[j].mark # 0 /\ c[i].fn \in 1 .. Len(G) =>
      \A l \in G[c[i].fn].store : l < H[j]

\* A function has nothing left, is at hand in some call, or waits under a mark.
Housed(G, M, g, c, f) == G[f].store = {} \/ InCall(c, f) \/ Sheltered(G, M, g, c, f)

Lies(G, M, g, c, H) ==
  /\ Low(G, Len(M)) /\ HandLow(G, c, H)
  /\ \A f \in 1 .. Len(G) : Housed(G, M, g, c, f)

\* No function has gained a piece.
Fewer(G, K) == Len(K) = Len(G) /\ \A f \in 1 .. Len(G) : K[f].store \subseteq G[f].store

LEMMA FewerFacts ==
  ASSUME NEW G, NEW K
  PROVE  /\ Fewer(G, G)
         /\ \A n : Given(G, K, n) => Fewer(G, K)
         /\ \A f : OneMade(G, K, f) => Fewer(G, K)
<1>1. ASSUME NEW n, Given(G, K, n) PROVE Fewer(G, K)
  BY <1>1 DEF Given, Fewer
<1>2. ASSUME NEW f, OneMade(G, K, f) PROVE Fewer(G, K)
  <2>1. SUFFICES ASSUME NEW x \in 1 .. Len(G) PROVE K[x].store \subseteq G[x].store
    BY <1>2 DEF OneMade, Fewer
  <2> QED BY <1>2 DEF OneMade
<1> QED BY <1>1, <1>2 DEF Fewer

LEMMA LiesFewer ==
  ASSUME NEW G, NEW K, NEW M, NEW g, NEW c, NEW H, Lies(G, M, g, c, H), Fewer(G, K)
  PROVE  Lies(K, M, g, c, H)
<1>1. Len(K) = Len(G) /\ \A f \in 1 .. Len(G) : K[f].store \subseteq G[f].store
  BY DEF Fewer
<1>2. Low(K, Len(M))
  BY <1>1 DEF Lies, Low
<1>3. HandLow(K, c, H)
  BY <1>1 DEF Lies, HandLow
<1>4. ASSUME NEW f \in 1 .. Len(G) PROVE Housed(K, M, g, c, f)
  <2>1. K[f].store \subseteq G[f].store /\ Housed(G, M, g, c, f)
    BY <1>1, <1>4 DEF Lies
  <2> QED BY <2>1 DEF Housed, Sheltered
<1> QED BY <1>1, <1>2, <1>3, <1>4 DEF Lies

\* A piece is added to the function on top.
LEMMA LiesPieced ==
  ASSUME NEW G, NEW K, NEW M, NEW g, NEW c, NEW H, NEW f, NEW m \in Nat, m = Len(M), Len(c) \in Nat,
         Lies(G, M, g, c, H), Pieced(G, K, f, m), InCall(c, f),
         \A i \in 1 .. Len(c) : c[i].k \in {"fn", "build"} /\ c[i].fn = f => i = Len(c)
  PROVE  Lies(K, M, g, c, H)
<1>1. /\ Len(K) = Len(G)
      /\ \A x \in 1 .. Len(G) : /\ x # f => K[x].store = G[x].store
                                /\ x = f => K[x].store = G[x].store \cup {m}
  BY DEF Pieced
<1>2. Low(K, Len(M))
  <2>1. SUFFICES ASSUME NEW x \in 1 .. Len(G), NEW l \in K[x].store PROVE l <= m
    BY <1>1 DEF Low
  <2>2. l \in G[x].store => l <= m
    BY DEF Lies, Low
  <2> QED BY <1>1, <2>2
<1>3. HandLow(K, c, H)
  <2>1. SUFFICES ASSUME NEW i \in 1 .. Len(c), NEW j \in 1 .. Len(c), i < j, c[i].k \in {"fn", "build"},
                        c[j].mark # 0, c[i].fn \in 1 .. Len(G)
                 PROVE  \A l \in K[c[i].fn].store : l < H[j]
    BY <1>1 DEF HandLow
  <2>2. c[i].fn # f
    BY <2>1
  <2>3. K[c[i].fn].store = G[c[i].fn].store
    BY <1>1, <2>1, <2>2
  <2> QED BY <2>1, <2>3 DEF Lies, HandLow
<1>4. ASSUME NEW x \in 1 .. Len(G) PROVE Housed(K, M, g, c, x)
  <2>1. CASE x = f
    BY <2>1 DEF Housed
  <2>2. CASE x # f
    <3>1. K[x].store = G[x].store /\ Housed(G, M, g, c, x)
      BY <1>1, <2>2 DEF Lies
    <3> QED BY <3>1 DEF Housed, Sheltered
  <2> QED BY <2>1, <2>2
<1> QED BY <1>1, <1>2, <1>3, <1>4 DEF Lies

\* There is one function more; no call in hand is of it, unless it is on top.
LEMMA LiesGrown ==
  ASSUME NEW G, NEW K, NEW M, NEW g, NEW c, NEW H, NEW S, NEW o, Len(G) \in Nat, Len(M) \in Nat,
         Lies(G, M, g, c, H), GrownBy(G, K, S, o), Len(c) \in Nat,
         \A i \in 1 .. Len(c) : c[i].k \in {"fn", "build"} /\ c[i].fn = Len(G) + 1 => i = Len(c),
         \/ S = {}
         \/ S \subseteq 1 .. Len(M) /\ Housed(K, M, g, c, Len(G) + 1)
  PROVE  Lies(K, M, g, c, H)
<1>1. /\ Len(K) = Len(G) + 1 /\ \A x \in 1 .. Len(G) : K[x].store = G[x].store
      /\ K[Len(G) + 1].store = S
  BY DEF GrownBy, Alike
<1>2. \A x \in 1 .. Len(K) : x \in 1 .. Len(G) \/ x = Len(G) + 1
  BY <1>1
<1>3. Low(K, Len(M))
  <2>1. ASSUME NEW x \in 1 .. Len(K), NEW l \in K[x].store PROVE l <= Len(M)
    <3>1. CASE x \in 1 .. Len(G)
      BY <1>1, <2>1, <3>1 DEF Lies, Low
    <3>2. CASE x = Len(G) + 1
      BY <1>1, <2>1, <3>2
    <3> QED BY <1>2, <3>1, <3>2
  <2> QED BY <2>1 DEF Low
<1>4. HandLow(K, c, H)
  <2>1. SUFFICES ASSUME NEW i \in 1 .. Len(c), NEW j \in 1 .. Len(c), i < j, c[i].k \in {"fn", "build"},
                        c[j].mark # 0, c[i].fn \in 1 .. Len(K)
                 PROVE  \A l \in K[c[i].fn].store : l < H[j]
    BY DEF HandLow
  <2>2. c[i].fn # Len(G) + 1
    BY <2>1
  <2>3. c[i].fn \in 1 .. Len(G)
    BY <1>2, <2>1, <2>2
  <2>4. K[c[i].fn].store = G[c[i].fn].store
    BY <1>1, <2>3
  <2> QED BY <2>1, <2>3, <2>4 DEF Lies, HandLow
<1>5. ASSUME NEW x \in 1 .. Len(K) PROVE Housed(K, M, g, c, x)
  <2>1. CASE x \in 1 .. Len(G)
    <3>1. K[x].store = G[x].store /\ Housed(G, M, g, c, x)
      BY <1>1, <2>1 DEF Lies
    <3> QED BY <3>1 DEF Housed, Sheltered
  <2>2. CASE x = Len(G) + 1
    BY <1>1, <2>2 DEF Housed
  <2> QED BY <1>2, <2>1, <2>2
<1> QED BY <1>3, <1>4, <1>5 DEF Lies

\* A call that sets no mark of its own.
LEMMA LiesPush ==
  ASSUME NEW G, NEW M, NEW g, NEW c, NEW d, NEW H, NEW I, NEW h, Len(c) \in Nat,
         Lies(G, M, g, c, H), Pushed(c, d), Higher(H, I, Len(c), h), On(d).mark = 0,
         \A q \in 1 .. Len(M) : M[q].blk # 0
  PROVE  Lies(G, M, g, d, I)
<1>1. /\ Len(d) = Len(c) + 1 /\ (\A i \in 1 .. Len(c) : d[i] = c[i]) /\ d[Len(c) + 1] = On(d)
      /\ \A i \in 1 .. Len(d) : i \in 1 .. Len(c) \/ i = Len(c) + 1
  BY DEF Pushed, On
<1>2. HandLow(G, d, I)
  <2>1. SUFFICES ASSUME NEW i \in 1 .. Len(d), NEW j \in 1 .. Len(d), i < j, d[i].k \in {"fn", "build"},
                        d[j].mark # 0, d[i].fn \in 1 .. Len(G)
                 PROVE  \A l \in G[d[i].fn].store : l < I[j]
    BY DEF HandLow
  <2>2. j \in 1 .. Len(c)
    BY <1>1, <2>1
  <2>3. i \in 1 .. Len(c)
    BY <2>1, <2>2
  <2>4. I[j] = H[j] /\ d[i] = c[i] /\ d[j] = c[j]
    BY <1>1, <2>2, <2>3 DEF Higher
  <2> QED BY <2>1, <2>2, <2>3, <2>4 DEF Lies, HandLow
<1>3. ASSUME NEW f \in 1 .. Len(G) PROVE Housed(G, M, g, d, f)
  <2>1. InCall(c, f) => InCall(d, f)
    BY <1>1 DEF InCall
  <2>2. ASSUME Sheltered(G, M, g, c, f) PROVE Sheltered(G, M, g, d, f)
    <3>1. PICK q \in 2 .. Len(M) :
            /\ ~M[q].unmarked /\ \A j \in 1 .. Len(c) : c[j].mark # M[q].blk
            /\ \A i \in 1 .. Len(g) : g[i].mark = M[q].blk => g[i].fn = f
            /\ \A l \in G[f].store : l < q
      BY <2>2 DEF Sheltered
    <3>2. ASSUME NEW j \in 1 .. Len(d) PROVE d[j].mark # M[q].blk
      <4>1. CASE j \in 1 .. Len(c)
        BY <1>1, <3>1, <4>1
      <4>2. CASE j = Len(c) + 1
        <5>1. q \in 1 .. Len(M)
          BY <3>1
        <5> QED BY <1>1, <4>2, <5>1
      <4> QED BY <1>1, <4>1, <4>2
    <3> QED BY <3>1, <3>2 DEF Sheltered
  <2>3. Housed(G, M, g, c, f)
    BY <1>3 DEF Lies
  <2> QED BY <2>1, <2>2, <2>3 DEF Housed
<1> QED BY <1>2, <1>3 DEF Lies

\* A call that has set no mark returns.
LEMMA LiesPop ==
  ASSUME NEW G, NEW M, NEW g, NEW c \in Seq(FrameType), NEW d \in Seq(FrameType), NEW H,
         Lies(G, M, g, c, H), Popped(c, d),
         \/ On(c).k \notin WithFn
         \/ On(c).fn \in 1 .. Len(G) => G[On(c).fn].store = {} \/ Sheltered(G, M, g, c, On(c).fn)
  PROVE  Lies(G, M, g, d, H)
<1>1. PICK n \in Nat : n = Len(d) /\ Len(c) = n + 1 /\ \A i \in 1 .. n : d[i] = c[i] /\ i \in 1 .. Len(c)
  <2>1. Len(c) \in Nat /\ Len(d) = Len(c) - 1 /\ c # <<>> /\ \A i \in 1 .. Len(c) - 1 : d[i] = c[i]
    BY StackLen DEF Popped
  <2>2. Len(d) \in Nat /\ Len(c) >= 1
    BY <2>1, StackLen
  <2> QED BY <2>1, <2>2
<1>2. HandLow(G, d, H)
  BY <1>1 DEF Lies, HandLow
<1>3. ASSUME NEW f \in 1 .. Len(G) PROVE Housed(G, M, g, d, f)
  <2>1. Sheltered(G, M, g, c, f) => Sheltered(G, M, g, d, f)
    BY <1>1 DEF Sheltered
  <2>2. ASSUME NEW i \in 1 .. Len(c), c[i].k \in WithFn, c[i].fn = f
        PROVE  InCall(d, f) \/ G[f].store = {} \/ Sheltered(G, M, g, c, f)
    <3>1. CASE i \in 1 .. n
      BY <1>1, <2>2, <3>1 DEF InCall
    <3>2. CASE i = n + 1
      <4>1. On(c) = c[i]
        BY <1>1, <3>2 DEF On
      <4> QED BY <2>2, <4>1
    <3> QED BY <1>1, <3>1, <3>2
  <2>3. Housed(G, M, g, c, f)
    BY <1>3 DEF Lies
  <2> QED BY <2>1, <2>2, <2>3 DEF Housed, InCall
<1> QED BY <1>2, <1>3 DEF Lies

\* The call on top goes on to its next part.
LEMMA LiesRetop ==
  ASSUME NEW G, NEW M, NEW g, NEW c \in Seq(FrameType), NEW d \in Seq(FrameType), NEW H,
         Lies(G, M, g, c, H), Retopped(c, d), On(d).mark = On(c).mark,
         On(c).k \in WithFn => On(d).k \in WithFn /\ On(d).fn = On(c).fn
  PROVE  Lies(G, M, g, d, H)
<1>1. PICK n \in Nat : n = Len(c) /\ Len(d) = n /\ \A i \in 1 .. n - 1 : d[i] = c[i]
  BY StackLen DEF Retopped
<1>2. ASSUME NEW i \in 1 .. n
      PROVE  /\ d[i].mark = c[i].mark /\ (i < n => d[i] = c[i])
             /\ c[i].k \in WithFn => d[i].k \in WithFn /\ d[i].fn = c[i].fn
  <2>1. CASE i = n
    BY <1>1, <2>1 DEF On
  <2>2. CASE i # n
    <3>1. i \in 1 .. n - 1
      BY <2>2
    <3> QED BY <1>1, <3>1
  <2> QED BY <2>1, <2>2
<1>3. HandLow(G, d, H)
  <2>1. SUFFICES ASSUME NEW i \in 1 .. n, NEW j \in 1 .. n, i < j, d[i].k \in {"fn", "build"},
                        d[j].mark # 0, d[i].fn \in 1 .. Len(G)
                 PROVE  \A l \in G[d[i].fn].store : l < H[j]
    BY <1>1 DEF HandLow
  <2>2. d[i] = c[i] /\ d[j].mark = c[j].mark
    BY <1>2, <2>1
  <2> QED BY <1>1, <2>1, <2>2 DEF Lies, HandLow
<1>4. ASSUME NEW f \in 1 .. Len(G) PROVE Housed(G, M, g, d, f)
  <2>1. InCall(c, f) => InCall(d, f)
    BY <1>1, <1>2 DEF InCall
  <2>2. Sheltered(G, M, g, c, f) => Sheltered(G, M, g, d, f)
    BY <1>1, <1>2 DEF Sheltered
  <2>3. Housed(G, M, g, c, f)
    BY <1>4 DEF Lies
  <2> QED BY <2>1, <2>2, <2>3 DEF Housed
<1> QED BY <1>3, <1>4 DEF Lies

\* A mark is set for a function that is to wait.
LEMMA LiesNoted ==
  ASSUME NEW G \in Seq(FnType), NEW M, NEW N, NEW g, NEW h, NEW e, NEW c, NEW H, Len(M) \in Nat,
         Len(g) \in Nat, Lies(G, M, g, c, H), Appended(M, N), Consed(g, h, e),
         e.mark = N[Len(N)].blk, Len(M) >= 1,
         \A j \in 1 .. Len(c) : c[j].mark # e.mark,
         \A i \in 1 .. Len(g) : g[i].mark # e.mark
  PROVE  /\ Lies(G, N, h, c, H)
         /\ \A K : (\A l \in K[e.fn].store : l \in Nat /\ l <= Len(M)) => Sheltered(K, N, h, c, e.fn)
<1>1. /\ Len(N) = Len(M) + 1 /\ ~N[Len(N)].unmarked
      /\ \A q \in 1 .. Len(M) : N[q] = M[q] /\ N[q].blk # N[Len(N)].blk
  BY DEF Appended
<1>2. /\ 1 \in 1 .. Len(h) /\ h[1] = e
      /\ \A i \in 1 .. Len(h) : i = 1 \/ (i - 1 \in 1 .. Len(g) /\ h[i] = g[i - 1])
  BY ConsParts
<1>3. Low(G, Len(N))
  <2>1. SUFFICES ASSUME NEW f \in 1 .. Len(G), NEW l \in G[f].store PROVE l <= Len(N)
    BY DEF Low
  <2>2. l \in Nat /\ l <= Len(M)
    BY <2>1, FnFields DEF Lies, Low
  <2> QED BY <1>1, <2>2
<1>4. ASSUME NEW f \in 1 .. Len(G), Sheltered(G, M, g, c, f) PROVE Sheltered(G, N, h, c, f)
  <2>1. PICK q \in 2 .. Len(M) :
          /\ ~M[q].unmarked /\ \A j \in 1 .. Len(c) : c[j].mark # M[q].blk
          /\ \A i \in 1 .. Len(g) : g[i].mark = M[q].blk => g[i].fn = f
          /\ \A l \in G[f].store : l < q
    BY <1>4 DEF Sheltered
  <2>2. q \in 2 .. Len(N) /\ N[q] = M[q] /\ N[q].blk # N[Len(N)].blk
    BY <1>1
  <2>3. ASSUME NEW i \in 1 .. Len(h), h[i].mark = N[q].blk PROVE h[i].fn = f
    <3>1. i # 1
      BY <1>2, <2>2, <2>3
    <3>2. i - 1 \in 1 .. Len(g) /\ h[i] = g[i - 1]
      BY <1>2, <3>1
    <3> QED BY <2>1, <2>2, <2>3, <3>2
  <2> QED BY <2>1, <2>2, <2>3 DEF Sheltered
<1>5. ASSUME NEW f \in 1 .. Len(G) PROVE Housed(G, N, h, c, f)
  <2>1. Housed(G, M, g, c, f)
    BY <1>5 DEF Lies
  <2> QED BY <1>4, <1>5, <2>1 DEF Housed
<1>6. HandLow(G, c, H)
  BY DEF Lies
<1>7. ASSUME NEW K, \A l \in K[e.fn].store : l \in Nat /\ l <= Len(M)
      PROVE  Sheltered(K, N, h, c, e.fn)
  <2>1. Len(N) \in 2 .. Len(N)
    BY <1>1
  <2>2. \A l \in K[e.fn].store : l < Len(N)
    BY <1>1, <1>7
  <2>3. ASSUME NEW i \in 1 .. Len(h), h[i].mark = N[Len(N)].blk PROVE h[i].fn = e.fn
    <3>1. CASE i = 1
      BY <1>2, <3>1
    <3>2. CASE i # 1
      <4>1. i - 1 \in 1 .. Len(g) /\ h[i] = g[i - 1]
        BY <1>2, <3>2
      <4> QED BY <2>3, <4>1
    <3> QED BY <3>1, <3>2
  <2>4. \A j \in 1 .. Len(c) : c[j].mark # N[Len(N)].blk
    OBVIOUS
  <2> QED BY <1>1, <2>1, <2>2, <2>3, <2>4 DEF Sheltered
<1> QED BY <1>3, <1>5, <1>6, <1>7 DEF Lies

\* A call sets a mark of its own.
LEMMA LiesMark ==
  ASSUME NEW G \in Seq(FnType), NEW M, NEW N, NEW g, NEW c, NEW d, NEW H, NEW I, Len(M) \in Nat,
         Len(c) \in Nat, Lies(G, M, g, c, H), Appended(M, N), Pushed(c, d),
         On(d).mark = N[Len(N)].blk, NEW h, h = Len(N), Higher(H, I, Len(c), h)
  PROVE  Lies(G, N, g, d, I)
<1>1. /\ Len(N) = Len(M) + 1 /\ ~N[Len(N)].unmarked
      /\ \A q \in 1 .. Len(M) : N[q] = M[q] /\ N[q].blk # N[Len(N)].blk
  BY DEF Appended
<1>2. /\ Len(d) = Len(c) + 1 /\ (\A i \in 1 .. Len(c) : d[i] = c[i]) /\ d[Len(c) + 1] = On(d)
      /\ \A i \in 1 .. Len(d) : i \in 1 .. Len(c) \/ i = Len(c) + 1
  BY DEF Pushed, On
<1>3. ASSUME NEW f \in 1 .. Len(G), NEW l \in G[f].store PROVE l < Len(N) /\ l <= Len(N)
  <2>1. l \in Nat /\ l <= Len(M)
    BY <1>3, FnFields DEF Lies, Low
  <2> QED BY <1>1, <2>1
<1>4. Low(G, Len(N))
  BY <1>3 DEF Low
<1>5. HandLow(G, d, I)
  <2>1. SUFFICES ASSUME NEW i \in 1 .. Len(d), NEW j \in 1 .. Len(d), i < j, d[i].k \in {"fn", "build"},
                        d[j].mark # 0, d[i].fn \in 1 .. Len(G), NEW l \in G[d[i].fn].store
                 PROVE  l < I[j]
    BY DEF HandLow
  <2>2. CASE j = Len(c) + 1
    <3>1. I[j] = Len(N)
      BY <2>2 DEF Higher
    <3> QED BY <1>3, <2>1, <3>1
  <2>3. CASE j \in 1 .. Len(c)
    <3>1. i \in 1 .. Len(c)
      BY <2>1, <2>3
    <3>2. I[j] = H[j] /\ d[i] = c[i] /\ d[j] = c[j]
      BY <1>2, <2>3, <3>1 DEF Higher
    <3> QED BY <2>1, <2>3, <3>1, <3>2 DEF Lies, HandLow
  <2> QED BY <1>2, <2>2, <2>3
<1>6. ASSUME NEW f \in 1 .. Len(G) PROVE Housed(G, N, g, d, f)
  <2>1. InCall(c, f) => InCall(d, f)
    BY <1>2 DEF InCall
  <2>2. ASSUME Sheltered(G, M, g, c, f) PROVE Sheltered(G, N, g, d, f)
    <3>1. PICK q \in 2 .. Len(M) :
            /\ ~M[q].unmarked /\ \A j \in 1 .. Len(c) : c[j].mark # M[q].blk
            /\ \A i \in 1 .. Len(g) : g[i].mark = M[q].blk => g[i].fn = f
            /\ \A l \in G[f].store : l < q
      BY <2>2 DEF Sheltered
    <3>2. q \in 2 .. Len(N) /\ N[q] = M[q] /\ N[q].blk # N[Len(N)].blk
      BY <1>1
    <3>3. ASSUME NEW j \in 1 .. Len(d) PROVE d[j].mark # N[q].blk
      <4>1. CASE j \in 1 .. Len(c)
        BY <1>2, <3>1, <3>2, <4>1
      <4>2. CASE j = Len(c) + 1
        BY <1>2, <3>2, <4>2
      <4> QED BY <1>2, <4>1, <4>2
    <3> QED BY <3>1, <3>2, <3>3 DEF Sheltered
  <2>3. Housed(G, M, g, c, f)
    BY <1>6 DEF Lies
  <2> QED BY <2>1, <2>2, <2>3 DEF Housed
<1> QED BY <1>4, <1>5, <1>6 DEF Lies

\* A mark that shelters nothing, of a call or of a function that is in a call, is undone.
Idle(g, c, b) ==
  \/ \E j \in 1 .. Len(c) : c[j].mark = b
  \/ \E i \in 1 .. Len(g) : g[i].mark = b /\ InCall(c, g[i].fn)

LEMMA LiesUndone ==
  ASSUME NEW G, NEW K, NEW M, NEW N, NEW g, NEW c, NEW H, NEW b, Len(M) \in Nat,
         Lies(G, M, g, c, H), Idle(g, c, b), Fewer(G, K), Low(K, Len(N)),
         (Cut(M, N) /\ M[Len(M)].blk = b) \/ Flagged(M, N, b)
  PROVE  Lies(K, N, g, c, H)
<1>1. Lies(K, M, g, c, H)
  BY LiesFewer
<1>2. ASSUME NEW q \in 2 .. Len(M), ~M[q].unmarked, M[q].blk # b
      PROVE  q \in 2 .. Len(N) /\ ~N[q].unmarked /\ N[q].blk = M[q].blk
  <2>1. CASE Cut(M, N) /\ M[Len(M)].blk = b
    <3>1. Len(N) \in 1 .. Len(M) - 1 /\ \A i \in 1 .. Len(N) : N[i] = M[i]
      BY <2>1 DEF Cut
    <3>2. \A i \in Len(N) + 1 .. Len(M) - 1 : M[i].unmarked
      BY <2>1 DEF Cut
    <3>3. q # Len(M)
      BY <1>2, <2>1
    <3>4. q \notin Len(N) + 1 .. Len(M) - 1
      BY <1>2, <3>2
    <3>5. q \in 2 .. Len(N) /\ q \in 1 .. Len(N)
      BY <3>1, <3>3, <3>4
    <3> QED BY <1>2, <3>1, <3>5
  <2>2. CASE Flagged(M, N, b)
    <3>1. q \in 1 .. Len(M)
      BY <1>2
    <3> QED BY <1>2, <2>2, <3>1 DEF Flagged
  <2> QED BY <2>1, <2>2
<1>3. ASSUME NEW f \in 1 .. Len(K) PROVE Housed(K, N, g, c, f)
  <2>1. Housed(K, M, g, c, f)
    BY <1>1, <1>3 DEF Lies
  <2>2. ASSUME Sheltered(K, M, g, c, f), ~InCall(c, f) PROVE Sheltered(K, N, g, c, f)
    <3>1. PICK q \in 2 .. Len(M) :
            /\ ~M[q].unmarked /\ \A j \in 1 .. Len(c) : c[j].mark # M[q].blk
            /\ \A i \in 1 .. Len(g) : g[i].mark = M[q].blk => g[i].fn = f
            /\ \A l \in K[f].store : l < q
      BY <2>2 DEF Sheltered
    <3>2. M[q].blk # b
      BY <2>2, <3>1 DEF Idle
    <3>3. q \in 2 .. Len(N) /\ ~N[q].unmarked /\ N[q].blk = M[q].blk
      BY <1>2, <3>1, <3>2
    <3> QED BY <3>1, <3>3 DEF Sheltered
  <2> QED BY <2>1, <2>2 DEF Housed
<1> QED BY <1>1, <1>3 DEF Lies

LEMMA LiesTaken ==
  ASSUME NEW G, NEW M, NEW g, NEW h, NEW e, NEW c, NEW H, Len(g) \in Nat, Lies(G, M, h, c, H),
         Consed(g, h, e)
  PROVE  Lies(G, M, g, c, H)
<1>1. \A i \in 1 .. Len(g) : i + 1 \in 1 .. Len(h) /\ h[i + 1] = g[i]
  BY ConsParts
<1>2. ASSUME NEW f \in 1 .. Len(G) PROVE Housed(G, M, g, c, f)
  <2>1. Sheltered(G, M, h, c, f) => Sheltered(G, M, g, c, f)
    BY <1>1 DEF Sheltered
  <2>2. Housed(G, M, h, c, f)
    BY <1>2 DEF Lies
  <2> QED BY <2>1, <2>2 DEF Housed
<1> QED BY <1>2 DEF Lies

\* No function that was whole is damaged.
Spares(G, K) == \A f \in 1 .. Len(G) : G[f].whole => K[f].whole

LEMMA SparesFacts ==
  ASSUME NEW G, NEW K
  PROVE  /\ Spares(G, G)
         /\ \A f, n : Pieced(G, K, f, n) => Spares(G, K)
         /\ \A f : OneMade(G, K, f) => Spares(G, K)
         /\ \A S, o : GrownBy(G, K, S, o) => Spares(G, K)
         /\ \A n : Given(G, K, n) /\ Low(G, n) => Spares(G, K)
BY DEF Spares, Pieced, OneMade, GrownBy, Alike, Given, Low

LEMMA SparesTwice ==
  ASSUME NEW G, NEW K, NEW L, Spares(G, K), Spares(K, L), Len(K) \in Nat, Len(G) \in Nat,
         Len(G) <= Len(K)
  PROVE  Spares(G, L)
<1>1. \A f \in 1 .. Len(G) : f \in 1 .. Len(K)
  OBVIOUS
<1> QED BY <1>1 DEF Spares

\* alloc_unmark of a mark that shelters nothing, with nothing at the top level.
LEMMA UndoLies ==
  ASSUME NEW y, NEW t, StOK(y), NEW b, UnmarkOf(y, t, b), y.out = "ok", NEW g, NEW c, NEW H,
         Lies(y.fns, y.marks, g, c, H), Idle(g, c, b), Low(y.fns, Len(y.marks) - 1)
  PROVE  /\ Spares(y.fns, t.fns) \/ Len(t.marks) < Len(y.marks) - 1
         /\ t.out = "ok" => Lies(t.fns, t.marks, g, c, H)
<1>1. Len(y.marks) \in Nat /\ Top(y) = y.marks[Len(y.marks)]
  BY TopFacts
<1>2. CASE NoSuchMark(y, t, b) \/ NotDropped(y, t)
  <2>1. t.fns = y.fns /\ t.out # "ok"
    BY <1>2 DEF NoSuchMark, NotDropped
  <2> QED BY <2>1, SparesFacts
<1>3. CASE Top(y).blk = b /\ CutBack(y, t)
  <2>1. Cut(y.marks, t.marks) /\ Given(y.fns, t.fns, Len(t.marks))
    BY <1>3 DEF CutBack
  <2>2. Len(t.marks) \in 1 .. Len(y.marks) - 1
    BY <2>1 DEF Cut
  <2>3. Low(t.fns, Len(t.marks))
    BY <2>1 DEF Given, Low
  <2>4. Fewer(y.fns, t.fns)
    BY <2>1, FewerFacts
  <2>5. y.marks[Len(y.marks)].blk = b
    BY <1>1, <1>3
  <2>6. Lies(t.fns, t.marks, g, c, H)
    BY <1>1, <2>1, <2>3, <2>4, <2>5, LiesUndone
  <2>7. CASE Len(t.marks) = Len(y.marks) - 1
    <3>1. Given(y.fns, t.fns, Len(y.marks) - 1)
      BY <2>1, <2>7
    <3> QED BY <2>6, <3>1, SparesFacts
  <2>8. CASE Len(t.marks) # Len(y.marks) - 1
    <3>1. Len(t.marks) < Len(y.marks) - 1
      BY <1>1, <2>2, <2>8
    <3> QED BY <2>6, <3>1
  <2> QED BY <2>7, <2>8
<1>4. CASE JustNoted(y, t, b)
  <2>1. Flagged(y.marks, t.marks, b) /\ t.fns = y.fns
    BY <1>4 DEF JustNoted
  <2>2. Len(t.marks) = Len(y.marks)
    BY <2>1 DEF Flagged
  <2>3. Low(t.fns, Len(t.marks))
    BY <2>1, <2>2 DEF Lies
  <2>4. Fewer(y.fns, t.fns)
    BY <2>1, FewerFacts
  <2>5. Lies(t.fns, t.marks, g, c, H)
    BY <1>1, <2>1, <2>3, <2>4, LiesUndone
  <2> QED BY <2>1, <2>5, SparesFacts
<1> QED BY <1>2, <1>3, <1>4 DEF UnmarkOf

\* The same where another mark is on top: it is noted only.
LEMMA UndoUnder ==
  ASSUME NEW y, NEW t, StOK(y), NEW b, UnmarkOf(y, t, b), y.out = "ok", NEW g, NEW c, NEW H,
         Lies(y.fns, y.marks, g, c, H), Idle(g, c, b), Top(y).blk # b
  PROVE  /\ Spares(y.fns, t.fns)
         /\ t.out = "ok" => Lies(t.fns, t.marks, g, c, H)
<1>1. Len(y.marks) \in Nat
  BY TopFacts
<1>2. CASE NoSuchMark(y, t, b)
  <2>1. t.fns = y.fns /\ t.out # "ok"
    BY <1>2 DEF NoSuchMark
  <2> QED BY <2>1, SparesFacts
<1>3. CASE JustNoted(y, t, b)
  <2>1. Flagged(y.marks, t.marks, b) /\ t.fns = y.fns
    BY <1>3 DEF JustNoted
  <2>2. Len(t.marks) = Len(y.marks)
    BY <2>1 DEF Flagged
  <2>3. Low(t.fns, Len(t.marks))
    BY <2>1, <2>2 DEF Lies
  <2>4. Fewer(y.fns, t.fns)
    BY <2>1, FewerFacts
  <2>5. Lies(t.fns, t.marks, g, c, H)
    BY <1>1, <2>1, <2>3, <2>4, LiesUndone
  <2> QED BY <2>1, <2>5, SparesFacts
<1> QED BY <1>2, <1>3 DEF UnmarkOf

\* What becomes of the heights: the mark is not a call's.
LEMMA HeightsUndone ==
  ASSUME NEW y, NEW t, StOK(y), NEW b, UnmarkOf(y, t, b), t.out = "ok", NEW c, NEW H,
         Len(c) \in Nat, Heights(y.marks, c, H), \A j \in 1 .. Len(c) : c[j].mark # b
  PROVE  Heights(t.marks, c, H)
<1>1. PICK M : M = y.marks
  OBVIOUS
<1>2. PICK N : N = t.marks
  OBVIOUS
<1>3. Len(M) \in Nat /\ Heights(M, c, H)
  BY <1>1, TopFacts
<1>4. CASE Top(y).blk = b /\ Len(y.marks) >= 2 /\ CutBack(y, t)
  <2>1. Cut(M, N) /\ M[Len(M)].blk = b /\ Len(M) >= 2
    BY <1>1, <1>2, <1>4, TopFacts DEF CutBack
  <2>2. Len(N) \in 1 .. Len(M) - 1 /\ \A i \in 1 .. Len(N) : N[i] = M[i]
    BY <2>1 DEF Cut
  <2>3. \A i \in Len(N) + 1 .. Len(M) - 1 : M[i].unmarked
    BY <2>1 DEF Cut
  <2>4. ASSUME NEW i \in 0 .. Len(c)
        PROVE  H[i] <= Len(N) /\ ~N[H[i]].unmarked /\ N[H[i]].blk = M[H[i]].blk
    <3>1. H[i] \in 1 .. Len(M) /\ ~M[H[i]].unmarked
      BY <1>3, <2>4 DEF Heights
    <3>2. H[i] # Len(M)
      <4>1. SUFFICES ASSUME H[i] = Len(M) PROVE FALSE
        OBVIOUS
      <4>2. H[i] # 1
        BY <2>1, <4>1
      <4>3. PICK j \in 1 .. Len(c) : c[j].mark # 0 /\ c[j].mark = M[H[i]].blk
        BY <1>3, <2>4, <4>2, HeightOwned
      <4> QED BY <2>1, <4>1, <4>3
    <3>3. H[i] \notin Len(N) + 1 .. Len(M) - 1
      BY <2>3, <3>1
    <3>4. H[i] \in 1 .. Len(N)
      BY <2>2, <3>1, <3>2, <3>3
    <3> QED BY <2>2, <3>1, <3>4
  <2>5. Len(N) \in Nat
    BY <2>2
  <2>6. Heights(N, c, H)
    BY <1>3, <2>4, <2>5, HeightsMarks
  <2> QED BY <1>2, <2>6
<1>5. CASE JustNoted(y, t, b)
  <2>1. Flagged(M, N, b)
    BY <1>1, <1>2, <1>5 DEF JustNoted
  <2>2. Heights(N, c, H)
    BY <1>3, <2>1, HeightsFlag
  <2> QED BY <1>2, <2>2
<1>6. ~NoSuchMark(y, t, b) /\ ~NotDropped(y, t)
  BY DEF NoSuchMark, NotDropped
<1> QED BY <1>4, <1>5, <1>6 DEF UnmarkOf

\* The mark is that of the call that returns.
LEMMA HeightsReturned ==
  ASSUME NEW y, NEW t, StOK(y), NEW c \in Seq(FrameType), NEW d \in Seq(FrameType), NEW H,
         UnmarkOf(y, t, On(c).mark), t.out = "ok", Heights(y.marks, c, H), Popped(c, d),
         On(c).mark # 0, \A i, j \in 1 .. Len(c) : c[i].mark # 0 /\ c[i].mark = c[j].mark => i = j
  PROVE  Heights(t.marks, d, H)
<1>1. PICK M : M = y.marks
  OBVIOUS
<1>2. PICK N : N = t.marks
  OBVIOUS
<1>3. Len(M) \in Nat /\ Len(M) >= 1 /\ Heights(M, c, H)
  BY <1>1, TopFacts
<1>4. Len(c) \in Nat /\ Len(c) >= 1 /\ Len(d) = Len(c) - 1 /\ \A i \in 1 .. Len(c) - 1 : d[i] = c[i]
  BY StackLen DEF Popped
<1>5. PICK b : b = On(c).mark
  OBVIOUS
<1>6. CASE Top(y).blk = b /\ Len(y.marks) >= 2 /\ CutBack(y, t)
  <2>1. Cut(M, N) /\ M[Len(M)].blk = b /\ Len(M) >= 2
    BY <1>1, <1>2, <1>6, TopFacts DEF CutBack
  <2>2. H[Len(c)] \in 1 .. Len(M) /\ M[H[Len(c)]].blk = b
    BY <1>3, <1>4, <1>5 DEF Heights, On
  <2>3. H[Len(c)] = Len(M)
    <3>1. Len(M) \in 1 .. Len(M)
      BY <1>3
    <3> QED BY <1>1, <2>1, <2>2, <3>1, OnePlace
  <2>4. Heights(N, d, H)
    BY <1>3, <1>5, <2>1, <2>3, HeightsCut
  <2> QED BY <1>2, <2>4
<1>7. CASE JustNoted(y, t, b)
  <2>1. Flagged(M, N, b)
    BY <1>1, <1>2, <1>7 DEF JustNoted
  <2>2. Heights(M, d, H)
    BY <1>3, HeightsPop
  <2>3. ASSUME NEW j \in 1 .. Len(d) PROVE d[j].mark # b
    <3>1. j \in 1 .. Len(c) /\ j # Len(c) /\ d[j] = c[j] /\ Len(c) \in 1 .. Len(c)
      BY <1>4, <2>3
    <3> QED BY <1>5, <3>1 DEF On
  <2>4. Len(d) \in Nat
    BY <1>4
  <2>5. Heights(N, d, H)
    BY <1>3, <2>1, <2>2, <2>3, <2>4, HeightsFlag
  <2> QED BY <1>2, <2>5
<1>8. ~NoSuchMark(y, t, b) /\ ~NotDropped(y, t)
  BY DEF NoSuchMark, NotDropped
<1> QED BY <1>5, <1>6, <1>7, <1>8 DEF UnmarkOf

\* What is known of a state, whatever the features.
Fine(s, c) ==
  /\ TypeInv(s, c) /\ KnownInv(s, c) /\ s.out = "ok" /\ Owned(s, c) /\ OncePlaced(s, c)
  /\ Nested(c)

LEMMA FineFacts ==
  ASSUME NEW s, NEW c, Fine(s, c)
  PROVE  /\ StOK(s) /\ s \in StType /\ c \in Seq(FrameType) /\ Len(c) \in Nat /\ s.out = "ok"
         /\ s.fns \in Seq(FnType) /\ Len(s.fns) \in Nat
         /\ Len(s.marks) \in Nat /\ Len(s.marks) >= 1 /\ Len(s.gen) \in Nat /\ Len(s.pend) \in Nat
         /\ Top(s) = s.marks[Len(s.marks)]
         /\ AllSit(s.fns, c) /\ (c # <<>> => Sits(s.fns, On(c)))
         /\ PendKnown(s.pend, s.fns) /\ GenKnown(s.gen, s.fns) /\ Nested(c)
         /\ \A q \in 1 .. Len(s.marks) : s.marks[q].blk # 0
<1>1. TypeInv(s, c) /\ KnownInv(s, c) /\ s.out = "ok" /\ Nested(c)
  BY DEF Fine
<1>2. StOK(s) /\ c \in Seq(FrameType)
  BY <1>1 DEF TypeInv
<1>3. s \in StType
  BY <1>2 DEF StOK
<1>4. Len(s.marks) \in Nat /\ Len(s.marks) >= 1 /\ Top(s) = s.marks[Len(s.marks)]
  BY <1>2, TopFacts
<1>5. c # <<>> => Sits(s.fns, On(c))
  BY <1>1, OnTopSits
<1>6. AllSit(s.fns, c) /\ PendKnown(s.pend, s.fns) /\ GenKnown(s.gen, s.fns)
  BY <1>1 DEF KnownInv
<1>7. s.fns \in Seq(FnType)
  BY <1>3, StFields
<1>8. Len(s.fns) \in Nat /\ Len(s.gen) \in Nat /\ Len(s.pend) \in Nat
  BY <1>2, LenFacts
<1>9. ASSUME NEW q \in 1 .. Len(s.marks) PROVE s.marks[q].blk # 0
  <2>1. s.marks \in Seq(MarkType)
    BY <1>3, StFields
  <2>2. s.marks[q].blk \in Blk
    BY <2>1, MarkFields
  <2> QED BY <2>2 DEF Blk
<1>10. Len(c) \in Nat
  BY <1>2, StackLen
<1> QED BY <1>1, <1>2, <1>3, <1>4, <1>5, <1>6, <1>7, <1>8, <1>9, <1>10

\* A function is read or built in one place, and is not pending meanwhile.
LEMMA FineApart ==
  ASSUME NEW s, NEW c, Fine(s, c)
  PROVE  /\ \A i, j \in 1 .. Len(c) :
              c[i].k \in {"fn", "build"} /\ c[j].k \in {"fn", "build"} /\ c[i].fn = c[j].fn => i = j
         /\ \A i \in 1 .. Len(s.pend), j \in 1 .. Len(c) :
              c[j].k \in {"fn", "build"} => s.pend[i] # c[j].fn
<1>1. PICK G, P, C : Placed(s, c, G, P, C)
  BY DEF Fine, OncePlaced
<1>2. ASSUME NEW i \in 1 .. Len(c), c[i].k \in {"fn", "build"} PROVE Holds(c[i]) = {c[i].fn}
  <2>1. Sits(s.fns, c[i])
    BY FineFacts DEF AllSit
  <2> QED BY <1>2, <2>1, SitsHolds
<1>3. CtlSet(c, C) /\ PendSet(s.pend, P) /\ P \cap C = {}
  BY <1>1 DEF Placed
<1>4. ASSUME NEW i \in 1 .. Len(c), NEW j \in 1 .. Len(c), c[i].k \in {"fn", "build"},
             c[j].k \in {"fn", "build"}, c[i].fn = c[j].fn
      PROVE  i = j
  <2>1. Holds(c[i]) \cap Holds(c[j]) # {}
    BY <1>2, <1>4
  <2> QED BY <1>3, <2>1 DEF CtlSet
<1>5. \A j \in 1 .. Len(c) : c[j].k \in {"fn", "build"} => c[j].fn \in C
  BY <1>2, <1>3 DEF CtlSet
<1>6. \A i \in 1 .. Len(s.pend) : s.pend[i] \in P
  BY <1>3 DEF PendSet
<1> QED BY <1>3, <1>4, <1>5, <1>6

\* Each mark has one owner, and a new one has none.
LEMMA FineOwners ==
  ASSUME NEW s, NEW c, Fine(s, c)
  PROVE  /\ OneOwner(s.gen, c)
         /\ \A i \in 1 .. Len(s.gen) : \E p \in 2 .. Len(s.marks) : s.marks[p].blk = s.gen[i].mark
         /\ \A N : Appended(s.marks, N) /\ N[Len(N)].blk # 0 =>
              /\ \A j \in 1 .. Len(c) : c[j].mark # N[Len(N)].blk
              /\ \A i \in 1 .. Len(s.gen) : s.gen[i].mark # N[Len(N)].blk
<1>1. PICK O : OwnersOf(s.gen, c, O) /\ MarksKept(s.marks, O)
  BY DEF Fine, Owned
<1>2. OneOwner(s.gen, c) /\ O = GenMarks(s.gen) \cup CtlMarks(c)
  BY <1>1 DEF OwnersOf
<1>3. ASSUME NEW b \in O PROVE \E p \in 2 .. Len(s.marks) : s.marks[p].blk = b
  BY <1>1, <1>3 DEF MarksKept, Held
<1>4. \A i \in 1 .. Len(s.gen) : s.gen[i].mark \in O
  BY <1>2 DEF GenMarks
<1>5. \A j \in 1 .. Len(c) : c[j].mark # 0 => c[j].mark \in O
  BY <1>2 DEF CtlMarks
<1>6. ASSUME NEW N, Appended(s.marks, N), NEW b \in O PROVE b # N[Len(N)].blk
  <2>1. PICK p \in 2 .. Len(s.marks) : s.marks[p].blk = b
    BY <1>3
  <2>2. p \in 1 .. Len(s.marks)
    BY <2>1
  <2> QED BY <1>6, <2>1, <2>2 DEF Appended
<1> QED BY <1>2, <1>3, <1>4, <1>5, <1>6

\* Where drop_local_store is called nothing lies at the top level but what is used up.
LEMMA Dry ==
  ASSUME NEW s, NEW c, Fine(s, c), NEW H, Heights(s.marks, c, H), NEW G \in Seq(FnType),
         Lies(G, s.marks, s.gen, c, H), c = <<>> \/ On(c).k \in {"loop", "cg"},
         c # <<>> /\ On(c).k = "cg" /\ On(c).fn \in 1 .. Len(G) => G[On(c).fn].store = {}
  PROVE  Low(G, Len(s.marks) - 1)
<1>1. PICK M : M = s.marks
  OBVIOUS
<1>2. PICK m \in Nat : m = Len(M)
  BY <1>1, FineFacts
<1>3. PICK n \in Nat : n = Len(c)
  BY FineFacts
<1>4. SUFFICES ASSUME NEW f \in 1 .. Len(G), NEW l \in G[f].store PROVE l <= m - 1
  BY <1>1, <1>2 DEF Low
<1>5. l \in Nat
  BY FnFields
<1>6. Housed(G, M, s.gen, c, f)
  BY <1>1 DEF Lies
<1>7. CASE Sheltered(G, M, s.gen, c, f)
  <2>1. PICK q \in 2 .. m : l < q
    BY <1>2, <1>7 DEF Sheltered
  <2> QED BY <1>5, <2>1
<1>8. CASE InCall(c, f)
  <2>1. PICK i \in 1 .. n : c[i].k \in WithFn /\ c[i].fn = f
    BY <1>3, <1>8 DEF InCall
  <2>2. c # <<>> /\ n >= 1 /\ On(c) = c[n] /\ n \in 1 .. n
    <3>1. c # <<>>
      BY <1>3, <2>1, FineFacts, StackLen
    <3> QED BY <1>3, <3>1, FineFacts, StackLen DEF On
  <2>3. i # n
    <3>1. SUFFICES ASSUME i = n PROVE FALSE
      OBVIOUS
    <3>2. On(c).k = "cg" /\ On(c).fn = f
      BY <2>1, <2>2, <3>1 DEF WithFn
    <3> QED BY <1>4, <2>2, <3>2
  <2>4. \A a \in 1 .. n - 1 : Makes(c[a], c[a + 1])
    BY <1>3, FineFacts DEF Nested
  <2>5. c[i].k \in {"fn", "build"}
    <3>1. i \in 1 .. n - 1
      BY <2>1, <2>3
    <3>2. Makes(c[i], c[i + 1])
      BY <2>4, <3>1
    <3> QED BY <2>1, <3>2 DEF Makes, WithFn
  <2>6. \A a \in 1 .. n : c[a].k = "loop" => c[a].mark # 0
    BY <1>3, FineFacts DEF AllSit, Sits
  <2>7. \E j \in 1 .. n : i < j /\ c[j].mark # 0
    <3>1. CASE c[n].mark # 0
      BY <2>1, <2>2, <2>3, <3>1
    <3>2. CASE c[n].mark = 0
      <4>1. c[n].k = "cg"
        BY <2>2, <2>6, <3>2
      <4>2. n - 1 \in 1 .. n - 1 /\ n - 1 \in 1 .. n /\ (n - 1) + 1 = n
        BY <2>1, <2>3
      <4>3. Makes(c[n - 1], c[n])
        BY <2>4, <4>2
      <4>4. c[n - 1].k = "loop"
        BY <3>2, <4>1, <4>3 DEF Makes
      <4>5. i # n - 1
        BY <2>5, <4>4
      <4> QED BY <2>1, <2>3, <2>6, <4>2, <4>4, <4>5
    <3> QED BY <3>1, <3>2
  <2>8. PICK j \in 1 .. n : i < j /\ c[j].mark # 0
    BY <2>7
  <2>9. l < H[j]
    BY <1>3, <2>1, <2>5, <2>8 DEF Lies, HandLow
  <2>10. H[j] \in 1 .. m
    <3>1. j \in 0 .. n
      OBVIOUS
    <3> QED BY <1>1, <1>2, <1>3, <3>1 DEF Heights
  <2> QED BY <1>2, <1>5, <2>9, <2>10
<1> QED BY <1>6, <1>7, <1>8 DEF Housed

\* A default argument is noted as a function, under its mark.
LEMMA ExtraLies ==
  ASSUME NEW s, NEW c, Fine(s, c), NEW e, StOK(e), e.marks = s.marks, e.gen = s.gen,
         Len(e.fns) = Len(s.fns), NEW x, StOK(x), Extra(e, x), NEW H, Heights(s.marks, c, H),
         Lies(e.fns, s.marks, s.gen, c, H)
  PROVE  /\ Heights(x.marks, c, H) /\ Lies(x.fns, x.marks, x.gen, c, H)
         /\ Spares(e.fns, x.fns) /\ Low(x.fns, Len(x.marks) - 1)
         /\ Len(x.marks) = Len(s.marks) + 1 /\ Len(x.fns) = Len(s.fns) + 1 /\ x.out = e.out
         /\ \A j \in 1 .. Len(c) : c[j].mark # Top(x).blk
         /\ \A i \in 1 .. Len(s.gen) : s.gen[i].mark # Top(x).blk
<1>1. PICK G : G = e.fns
  OBVIOUS
<1>2. PICK K : K = x.fns
  OBVIOUS
<1>3. PICK M : M = s.marks
  OBVIOUS
<1>4. PICK N : N = x.marks
  OBVIOUS
<1>5. PICK g : g = s.gen
  OBVIOUS
<1>6. PICK h : h = x.gen
  OBVIOUS
<1>7. PICK a : a = [fn |-> Len(G) + 1, mark |-> N[Len(N)].blk]
  OBVIOUS
<1>8. a.fn = Len(G) + 1 /\ a.mark = N[Len(N)].blk
  BY <1>7
<1>9. /\ Appended(M, N) /\ Consed(g, h, a) /\ GrownBy(G, K, {Len(M)}, FALSE) /\ x.out = e.out
  BY <1>1, <1>2, <1>3, <1>4, <1>5, <1>6, <1>7 DEF Extra
<1>10. /\ Len(M) \in Nat /\ Len(M) >= 1 /\ Len(g) \in Nat /\ Len(c) \in Nat /\ Len(G) \in Nat
  BY <1>1, <1>3, <1>5, FineFacts
<1>11. G \in Seq(FnType)
  BY <1>1, StFields DEF StOK
<1>12. Len(N) = Len(M) + 1 /\ Len(N) \in Nat
  BY <1>9, <1>10 DEF Appended
<1>13. Top(x) = N[Len(N)] /\ N[Len(N)].blk # 0
  BY <1>4, TopFacts DEF Blk
<1>14. /\ \A j \in 1 .. Len(c) : c[j].mark # N[Len(N)].blk
       /\ \A i \in 1 .. Len(g) : g[i].mark # N[Len(N)].blk
  BY <1>3, <1>5, <1>9, <1>13, FineOwners
<1>15. Len(K) = Len(G) + 1 /\ K[Len(G) + 1].store = {Len(M)}
  BY <1>9 DEF GrownBy
<1>16. Lies(G, M, g, c, H)
  BY <1>1, <1>3, <1>5
<1>17. Lies(G, N, h, c, H) /\ Sheltered(K, N, h, c, Len(G) + 1)
  <2>1. \A j \in 1 .. Len(c) : c[j].mark # a.mark
    BY <1>8, <1>14
  <2>2. \A i \in 1 .. Len(g) : g[i].mark # a.mark
    BY <1>8, <1>14
  <2>3. a.mark = N[Len(N)].blk
    BY <1>8
  <2>4. /\ Lies(G, N, h, c, H)
        /\ \A L : (\A l \in L[a.fn].store : l \in Nat /\ l <= Len(M)) => Sheltered(L, N, h, c, a.fn)
    BY <1>9, <1>10, <1>11, <1>16, <2>1, <2>2, <2>3, LiesNoted
  <2>5. \A l \in K[a.fn].store : l \in Nat /\ l <= Len(M)
    BY <1>8, <1>10, <1>15
  <2> QED BY <1>8, <2>4, <2>5
<1>18. \A i \in 1 .. Len(c) : c[i].k \in {"fn", "build"} /\ c[i].fn = Len(G) + 1 => i = Len(c)
  <2>1. ASSUME NEW i \in 1 .. Len(c), c[i].k \in {"fn", "build"} PROVE c[i].fn # Len(G) + 1
    <3>1. Sits(s.fns, c[i])
      BY FineFacts DEF AllSit
    <3>2. c[i].fn \in 1 .. Len(G)
      BY <1>1, <2>1, <3>1 DEF Sits
    <3> QED BY <1>10, <3>2
  <2> QED BY <2>1
<1>19. Lies(K, N, h, c, H)
  <2>1. PICK S : S = {Len(M)}
    OBVIOUS
  <2>2. S \subseteq 1 .. Len(N)
    BY <1>10, <1>12, <2>1
  <2>3. Housed(K, N, h, c, Len(G) + 1)
    BY <1>17 DEF Housed
  <2>4. GrownBy(G, K, S, FALSE)
    BY <1>9, <2>1
  <2>5. Lies(G, N, h, c, H)
    BY <1>17
  <2> QED BY <1>10, <1>12, <1>18, <2>2, <2>3, <2>4, <2>5, LiesGrown
<1>20. Heights(N, c, H)
  <2>1. Heights(M, c, H)
    BY <1>3
  <2> QED BY <1>9, <1>10, <2>1, HeightsAppend
<1>21. Spares(G, K)
  BY <1>9, SparesFacts
<1>22. Low(K, Len(N) - 1)
  <2>1. SUFFICES ASSUME NEW f \in 1 .. Len(K), NEW l \in K[f].store PROVE l <= Len(M)
    BY <1>10, <1>12 DEF Low
  <2>2. CASE f = Len(G) + 1
    BY <1>10, <1>15, <2>1, <2>2
  <2>3. CASE f # Len(G) + 1
    <3>1. f \in 1 .. Len(G)
      BY <1>10, <1>15, <2>3
    <3>2. K[f].store = G[f].store
      BY <1>9, <3>1 DEF GrownBy, Alike
    <3> QED BY <1>16, <2>1, <3>1, <3>2 DEF Lies, Low
  <2> QED BY <2>2, <2>3
<1> QED BY <1>1, <1>2, <1>3, <1>4, <1>5, <1>6, <1>9, <1>12, <1>13, <1>14, <1>15, <1>19, <1>20,
       <1>21, <1>22

\* The pieces lie under the marks, which are in the order of the calls.
HousedAt(t, d) == \E H : Heights(t.marks, d, H) /\ Lies(t.fns, t.marks, t.gen, d, H)

\* What a step does to the functions.
Fares(s, t, d) ==
  /\ Spares(s.fns, t.fns) \/ Len(t.marks) < Len(s.marks) - 1
  /\ t.out = "ok" => HousedAt(t, d)

LEMMA ReadFares ==
  ASSUME NEW s, NEW c, NEW t, NEW d, Fine(s, c), NEW H, Heights(s.marks, c, H),
         Lies(s.fns, s.marks, s.gen, c, H), ReadOf(s, c, t, d)
  PROVE  Fares(s, t, d)
<1>1. PICK m \in Nat : m = Len(s.marks)
  BY FineFacts
<1>2. PICK f : f = On(c).fn
  OBVIOUS
<1>3. /\ c # <<>> /\ On(c).k \in {"fn", "build"} /\ Pieced(s.fns, t.fns, f, m)
      /\ t.marks = s.marks /\ t.gen = s.gen /\ d = c
  BY <1>1, <1>2 DEF ReadOf, Lists
<1>4. Len(c) \in 1 .. Len(c) /\ On(c) = c[Len(c)]
  BY <1>3, FineFacts, StackLen DEF On
<1>5. InCall(c, f)
  BY <1>2, <1>3, <1>4 DEF InCall, WithFn
<1>6. \A i \in 1 .. Len(c) : c[i].k \in {"fn", "build"} /\ c[i].fn = f => i = Len(c)
  BY <1>2, <1>3, <1>4, FineApart
<1>7. Lies(t.fns, s.marks, s.gen, c, H)
  BY <1>1, <1>3, <1>5, <1>6, FineFacts, LiesPieced
<1>8. Spares(s.fns, t.fns)
  BY <1>3, SparesFacts
<1> QED BY <1>3, <1>7, <1>8 DEF Fares, HousedAt

LEMMA DescribeFares ==
  ASSUME NEW s, NEW c, NEW t, NEW d, Fine(s, c), TypeInv(t, d), NEW H, Heights(s.marks, c, H),
         Lies(s.fns, s.marks, s.gen, c, H), DescribeOf(s, c, t, d)
  PROVE  Fares(s, t, d)
<1>1. StOK(s) /\ StOK(t) /\ Extra(s, t) /\ d = c
  BY FineFacts DEF DescribeOf, TypeInv
<1>2. Heights(t.marks, c, H) /\ Lies(t.fns, t.marks, t.gen, c, H) /\ Spares(s.fns, t.fns)
  BY <1>1, ExtraLies
<1> QED BY <1>1, <1>2 DEF Fares, HousedAt

\* Something is described, or not, and the store is as before.
LEMMA DescribedLies ==
  ASSUME NEW s, NEW c, Fine(s, c), NEW x, DescribedOf(s, x), NEW H, Heights(s.marks, c, H),
         Lies(s.fns, s.marks, s.gen, c, H)
  PROVE  Heights(x.marks, c, H) /\ Lies(x.fns, x.marks, x.gen, c, H) /\ Spares(s.fns, x.fns)
<1>1. CASE x = s
  BY <1>1, SparesFacts
<1>2. CASE Extra(s, x)
  <2>1. StOK(s) /\ StOK(x)
    BY FineFacts DEF DescribedOf
  <2> QED BY <1>2, <2>1, ExtraLies
<1> QED BY <1>1, <1>2 DEF DescribedOf

LEMMA HeadFares ==
  ASSUME NEW s, NEW c, NEW t, NEW d, Fine(s, c), TypeInv(t, d), NEW H, Heights(s.marks, c, H),
         Lies(s.fns, s.marks, s.gen, c, H), HeadOf(s, c, t, d)
  PROVE  Fares(s, t, d)
<1>1. c \in Seq(FrameType) /\ d \in Seq(FrameType)
  BY FineFacts DEF TypeInv
<1>2. Heights(t.marks, c, H) /\ Lies(t.fns, t.marks, t.gen, c, H) /\ Spares(s.fns, t.fns)
  BY DescribedLies DEF HeadOf
<1>3. /\ Retopped(c, d) /\ On(d).k = "fn" /\ On(d).fn = On(c).fn /\ On(d).mark = On(c).mark
  BY DEF HeadOf, FrameIs
<1>4. Heights(t.marks, d, H)
  BY <1>1, <1>2, <1>3, HeightsRetop
<1>5. Lies(t.fns, t.marks, t.gen, d, H)
  BY <1>1, <1>2, <1>3, LiesRetop DEF WithFn
<1> QED BY <1>2, <1>4, <1>5 DEF Fares, HousedAt

\* A function that no store has been read for yet.
LEMMA NewLies ==
  ASSUME NEW s, NEW c, Fine(s, c), NEW K, NEW o, GrownBy(s.fns, K, {}, o), NEW H,
         Lies(s.fns, s.marks, s.gen, c, H)
  PROVE  Lies(K, s.marks, s.gen, c, H) /\ Spares(s.fns, K)
<1>1. PICK S : S = {}
  OBVIOUS
<1>2. \A i \in 1 .. Len(c) : c[i].k \in {"fn", "build"} /\ c[i].fn = Len(s.fns) + 1 => i = Len(c)
  <2>1. ASSUME NEW i \in 1 .. Len(c), c[i].k \in {"fn", "build"} PROVE c[i].fn # Len(s.fns) + 1
    <3>1. Sits(s.fns, c[i])
      BY FineFacts DEF AllSit
    <3>2. c[i].fn \in 1 .. Len(s.fns)
      BY <2>1, <3>1 DEF Sits
    <3> QED BY <3>2, FineFacts
  <2> QED BY <2>1
<1>3. GrownBy(s.fns, K, S, o)
  BY <1>1
<1>4. Len(s.fns) \in Nat /\ Len(s.marks) \in Nat /\ Len(c) \in Nat
  BY FineFacts
<1>5. Lies(K, s.marks, s.gen, c, H)
  BY <1>1, <1>2, <1>3, <1>4, LiesGrown
<1> QED BY <1>5, SparesFacts

\* A call is made that sets no mark.
LEMMA PushedHoused ==
  ASSUME NEW M, NEW G, NEW g, NEW c \in Seq(FrameType), NEW d, NEW H, Heights(M, c, H),
         Lies(G, M, g, c, H), Pushed(c, d), On(d).mark = 0, Len(M) \in Nat,
         \A q \in 1 .. Len(M) : M[q].blk # 0
  PROVE  \E I : Heights(M, d, I) /\ Lies(G, M, g, d, I)
<1>1. PICK h : h = H[Len(c)]
  OBVIOUS
<1>2. Len(c) \in Nat
  BY StackLen
<1>3. PICK I : Higher(H, I, Len(c), h)
  BY <1>2, HigherIs
<1>4. Heights(M, d, I)
  BY <1>1, <1>2, <1>3, HeightsPush
<1>5. Lies(G, M, g, d, I)
  BY <1>2, <1>3, LiesPush
<1> QED BY <1>4, <1>5

LEMMA MembersFares ==
  ASSUME NEW s, NEW c, NEW t, NEW d, Fine(s, c), TypeInv(t, d), NEW H, Heights(s.marks, c, H),
         Lies(s.fns, s.marks, s.gen, c, H), MembersOf(s, c, t, d)
  PROVE  Fares(s, t, d)
<1>1. c \in Seq(FrameType) /\ d \in Seq(FrameType) /\ Len(s.marks) \in Nat
  BY FineFacts DEF TypeInv
<1>2. PICK b : /\ Retopped(c, b) /\ FrameIs(On(b), "fn", On(c).fn, On(c).mark, On(c).saved, "body")
               /\ b \in Seq(FrameType) /\ b # <<>>
               /\ \/ t = s /\ d = b
                  \/ /\ "core" \in features
                     /\ Still(s, t) /\ GrownBy(s.fns, t.fns, {}, FALSE)
                     /\ Pushed(b, d) /\ FrameIs(On(d), "build", Len(s.fns) + 1, 0, <<>>, "top")
  BY DEF MembersOf
<1>3. On(b).k = "fn" /\ On(b).fn = On(c).fn /\ On(b).mark = On(c).mark
  BY <1>2 DEF FrameIs
<1>4. Heights(s.marks, b, H)
  BY <1>1, <1>2, <1>3, HeightsRetop
<1>5. ASSUME NEW G, Lies(G, s.marks, s.gen, c, H) PROVE Lies(G, s.marks, s.gen, b, H)
  BY <1>1, <1>2, <1>3, <1>5, LiesRetop DEF WithFn
<1>6. CASE t = s /\ d = b
  <2>1. Lies(s.fns, s.marks, s.gen, b, H)
    BY <1>5
  <2> QED BY <1>4, <1>6, <2>1, SparesFacts DEF Fares, HousedAt
<1>7. CASE /\ Still(s, t) /\ GrownBy(s.fns, t.fns, {}, FALSE)
           /\ Pushed(b, d) /\ FrameIs(On(d), "build", Len(s.fns) + 1, 0, <<>>, "top")
  <2>1. Lies(t.fns, s.marks, s.gen, c, H) /\ Spares(s.fns, t.fns)
    BY <1>7, NewLies
  <2>2. Lies(t.fns, s.marks, s.gen, b, H)
    BY <1>5, <2>1
  <2>3. On(d).mark = 0
    BY <1>7 DEF FrameIs
  <2>4. \A q \in 1 .. Len(s.marks) : s.marks[q].blk # 0
    BY FineFacts
  <2>5. \E I : Heights(s.marks, d, I) /\ Lies(t.fns, s.marks, s.gen, d, I)
    BY <1>1, <1>2, <1>4, <1>7, <2>2, <2>3, <2>4, PushedHoused
  <2>6. t.marks = s.marks /\ t.gen = s.gen
    BY <1>7 DEF Still, Lists
  <2> QED BY <2>1, <2>5, <2>6 DEF Fares, HousedAt
<1> QED BY <1>2, <1>6, <1>7

LEMMA NotedFares ==
  ASSUME NEW s, NEW c, NEW t, NEW d, Fine(s, c), TypeInv(t, d), NEW H, Heights(s.marks, c, H),
         Lies(s.fns, s.marks, s.gen, c, H), NotedOf(s, c, t, d)
  PROVE  Fares(s, t, d)
<1>1. /\ c \in Seq(FrameType) /\ d \in Seq(FrameType) /\ StOK(t) /\ Len(c) \in Nat
  BY FineFacts DEF TypeInv
<1>2. PICK f : f = On(c).fn
  OBVIOUS
<1>3. PICK M : M = s.marks
  OBVIOUS
<1>4. PICK N : N = t.marks
  OBVIOUS
<1>5. PICK g : g = s.gen
  OBVIOUS
<1>6. PICK h : h = t.gen
  OBVIOUS
<1>7. PICK K : K = t.fns
  OBVIOUS
<1>8. PICK m \in Nat : m = Len(M) /\ m >= 1
  BY <1>3, FineFacts
<1>9. PICK a : a = [fn |-> f, mark |-> N[Len(N)].blk]
  OBVIOUS
<1>10. a.fn = f /\ a.mark = N[Len(N)].blk
  BY <1>9
<1>11. /\ c # <<>> /\ On(c).k = "build" /\ Popped(c, d) /\ Appended(M, N) /\ Consed(g, h, a)
       /\ Pieced(s.fns, K, f, m)
  BY <1>2, <1>3, <1>4, <1>5, <1>6, <1>7, <1>8, <1>9 DEF NotedOf, NoteOf
<1>12. Len(c) \in 1 .. Len(c) /\ On(c) = c[Len(c)]
  BY <1>1, <1>11, StackLen DEF On
<1>13. InCall(c, f)
  BY <1>2, <1>11, <1>12 DEF InCall, WithFn
<1>14. \A i \in 1 .. Len(c) : c[i].k \in {"fn", "build"} /\ c[i].fn = f => i = Len(c)
  BY <1>2, <1>11, <1>12, FineApart
<1>15. Lies(K, M, g, c, H)
  <2>1. Lies(s.fns, M, g, c, H)
    BY <1>3, <1>5
  <2> QED BY <1>1, <1>8, <1>11, <1>13, <1>14, <2>1, LiesPieced
<1>16. N[Len(N)].blk # 0
  BY <1>1, <1>4, TopFacts DEF Blk
<1>17. /\ \A j \in 1 .. Len(c) : c[j].mark # a.mark
       /\ \A i \in 1 .. Len(g) : g[i].mark # a.mark
  BY <1>3, <1>5, <1>10, <1>11, <1>16, FineOwners
<1>18. K \in Seq(FnType)
  BY <1>1, <1>7, StFields DEF StOK
<1>19. f \in 1 .. Len(K)
  <2>1. Sits(s.fns, On(c))
    BY <1>11, FineFacts
  <2> QED BY <1>2, <1>11, <2>1 DEF Sits, Pieced
<1>20. /\ Lies(K, N, h, c, H) /\ Sheltered(K, N, h, c, f)
  <2>1. /\ Lies(K, N, h, c, H)
        /\ \A L : (\A l \in L[a.fn].store : l \in Nat /\ l <= Len(M)) => Sheltered(L, N, h, c, a.fn)
    <3>1. \A j \in 1 .. Len(c) : c[j].mark # a.mark
      BY <1>17
    <3>2. \A i \in 1 .. Len(g) : g[i].mark # a.mark
      BY <1>17
    <3>3. a.mark = N[Len(N)].blk
      BY <1>10
    <3>4. Len(M) \in Nat /\ Len(M) >= 1 /\ Len(g) \in Nat
      BY <1>5, <1>8, FineFacts
    <3> QED BY <1>11, <1>15, <1>18, <3>1, <3>2, <3>3, <3>4, LiesNoted
  <2>2. \A l \in K[a.fn].store : l \in Nat /\ l <= Len(M)
    BY <1>10, <1>15, <1>18, <1>19, FnFields DEF Lies, Low
  <2> QED BY <1>10, <2>1, <2>2
<1>21. Lies(K, N, h, d, H)
  BY <1>1, <1>2, <1>11, <1>20, LiesPop
<1>22. Heights(N, d, H)
  <2>1. Heights(M, c, H) /\ Len(M) \in Nat
    BY <1>3, <1>8
  <2>2. Heights(N, c, H)
    BY <1>1, <1>11, <2>1, HeightsAppend
  <2> QED BY <1>1, <1>11, <2>2, HeightsPop
<1>23. Spares(s.fns, t.fns)
  BY <1>7, <1>11, SparesFacts
<1> QED BY <1>4, <1>6, <1>7, <1>21, <1>22, <1>23 DEF Fares, HousedAt

LEMMA EndFnFares ==
  ASSUME NEW s, NEW c, NEW t, NEW d, Fine(s, c), TypeInv(t, d), NEW H, Heights(s.marks, c, H),
         Lies(s.fns, s.marks, s.gen, c, H), EndFnOf(s, c, t, d)
  PROVE  Fares(s, t, d)
<1>1. c \in Seq(FrameType) /\ d \in Seq(FrameType)
  BY FineFacts DEF TypeInv
<1>2. CASE Still(s, t) /\ OneMade(s.fns, t.fns, On(c).fn) /\ Popped(c, d)
  <2>1. Fewer(s.fns, t.fns) /\ Spares(s.fns, t.fns)
    BY <1>2, FewerFacts, SparesFacts
  <2>2. Lies(t.fns, s.marks, s.gen, c, H)
    BY <2>1, LiesFewer
  <2>3. On(c).fn \in 1 .. Len(t.fns) => t.fns[On(c).fn].store = {}
    BY <1>2 DEF OneMade
  <2>4. Lies(t.fns, s.marks, s.gen, d, H)
    BY <1>1, <1>2, <2>2, <2>3, LiesPop
  <2>5. Heights(s.marks, d, H)
    BY <1>1, <1>2, HeightsPop
  <2>6. t.marks = s.marks /\ t.gen = s.gen
    BY <1>2 DEF Still, Lists
  <2> QED BY <2>1, <2>4, <2>5, <2>6 DEF Fares, HousedAt
<1>3. CASE t = s /\ Retopped(c, d) /\ FrameIs(On(d), "cg", On(c).fn, On(c).mark, <<>>, "top")
  <2>1. On(d).k = "cg" /\ On(d).fn = On(c).fn /\ On(d).mark = On(c).mark
    BY <1>3 DEF FrameIs
  <2>2. Heights(s.marks, d, H)
    BY <1>1, <1>3, <2>1, HeightsRetop
  <2>3. Lies(s.fns, s.marks, s.gen, d, H)
    BY <1>1, <1>3, <2>1, LiesRetop DEF WithFn
  <2> QED BY <1>3, <2>2, <2>3, SparesFacts DEF Fares, HousedAt
<1> QED BY <1>2, <1>3 DEF EndFnOf

LEMMA ClassFares ==
  ASSUME NEW s, NEW c, NEW t, NEW d, Fine(s, c), NEW H, Heights(s.marks, c, H),
         Lies(s.fns, s.marks, s.gen, c, H),
         \/ InstanceClassOf(s, c, t, d) \/ LocalClassOf(s, c, t, d) \/ TopClassOf(s, c, t, d)
         \/ NestedClassOf(s, c, t, d)
  PROVE  Fares(s, t, d)
<1>1. Pushed(c, d) /\ On(d).mark = 0
  BY DEF InstanceClassOf, LocalClassOf, TopClassOf, NestedClassOf, FrameIs
<1>2. t.marks = s.marks /\ t.gen = s.gen /\ t.fns = s.fns
  BY DEF InstanceClassOf, LocalClassOf, TopClassOf, NestedClassOf, PendIs
<1>3. \E I : Heights(s.marks, d, I) /\ Lies(s.fns, s.marks, s.gen, d, I)
  BY <1>1, FineFacts, PushedHoused
<1> QED BY <1>2, <1>3, SparesFacts DEF Fares, HousedAt

LEMMA MemberFares ==
  ASSUME NEW s, NEW c, NEW t, NEW d, Fine(s, c), NEW H, Heights(s.marks, c, H),
         Lies(s.fns, s.marks, s.gen, c, H), MemberFnOf(s, c, t, d)
  PROVE  Fares(s, t, d)
<1>1. PICK only : GrownBy(s.fns, t.fns, {}, only)
  BY DEF MemberFnOf
<1>2. Lies(t.fns, s.marks, s.gen, c, H) /\ Spares(s.fns, t.fns)
  BY <1>1, NewLies
<1>3. t.marks = s.marks /\ t.gen = s.gen /\ d = c
  BY DEF MemberFnOf
<1> QED BY <1>2, <1>3 DEF Fares, HousedAt

LEMMA GenerateFares ==
  ASSUME NEW s, NEW c, NEW t, NEW d, Fine(s, c), NEW H, Heights(s.marks, c, H),
         Lies(s.fns, s.marks, s.gen, c, H), GenerateFnOf(s, c, t, d)
  PROVE  Fares(s, t, d)
<1>1. PICK b : /\ Retopped(c, b) /\ FrameIs(On(b), "class", On(c).fn, On(c).mark, On(c).saved, On(c).how)
               /\ b \in Seq(FrameType) /\ b # <<>>
               /\ Pushed(b, d) /\ FrameIs(On(d), "build", Len(s.fns) + 1, 0, <<>>, "top")
  BY DEF GenerateFnOf
<1>2. On(c).k = "class" /\ On(b).mark = On(c).mark /\ On(d).mark = 0
  BY <1>1 DEF GenerateFnOf, FrameIs
<1>3. GrownBy(s.fns, t.fns, {}, FALSE) /\ t.marks = s.marks /\ t.gen = s.gen
  BY DEF GenerateFnOf, Still, Lists
<1>4. Lies(t.fns, s.marks, s.gen, c, H) /\ Spares(s.fns, t.fns)
  BY <1>3, NewLies
<1>5. c \in Seq(FrameType)
  BY FineFacts
<1>6. Lies(t.fns, s.marks, s.gen, b, H)
  BY <1>1, <1>2, <1>4, <1>5, LiesRetop DEF WithFn
<1>7. Heights(s.marks, b, H)
  BY <1>1, <1>2, <1>5, HeightsRetop
<1>8. \E I : Heights(s.marks, d, I) /\ Lies(t.fns, s.marks, s.gen, d, I)
  BY <1>1, <1>2, <1>6, <1>7, FineFacts, PushedHoused
<1> QED BY <1>3, <1>4, <1>8 DEF Fares, HousedAt

LEMMA EntryLies ==
  ASSUME NEW s, NEW c, Fine(s, c), NEW H, Heights(s.marks, c, H),
         Lies(s.fns, s.marks, s.gen, c, H), NEW e, EntryOf(s, c, e), CallingOf(s, c)
  PROVE  /\ e.marks = s.marks /\ e.gen = s.gen /\ e.out = "ok" /\ Len(e.fns) = Len(s.fns)
         /\ Lies(e.fns, s.marks, s.gen, c, H) /\ Spares(s.fns, e.fns)
         /\ Low(e.fns, Len(s.marks) - 1) /\ StOK(e) /\ e.fns \in Seq(FnType)
<1>1. Low(s.fns, Len(s.marks) - 1)
  <2>1. c = <<>> \/ On(c).k \in {"loop", "cg"}
    BY DEF CallingOf
  <2>2. c # <<>> /\ On(c).k = "cg" /\ On(c).fn \in 1 .. Len(s.fns) => s.fns[On(c).fn].store = {}
    BY DEF CallingOf
  <2>3. PICK G : G = s.fns
    OBVIOUS
  <2>4. G \in Seq(FnType) /\ Lies(G, s.marks, s.gen, c, H)
    BY <2>3, FineFacts
  <2>5. c # <<>> /\ On(c).k = "cg" /\ On(c).fn \in 1 .. Len(G) => G[On(c).fn].store = {}
    BY <2>2, <2>3
  <2>6. Low(G, Len(s.marks) - 1)
    BY <2>1, <2>4, <2>5, Dry
  <2> QED BY <2>3, <2>6
<1>2. StOK(e) /\ e.fns \in Seq(FnType)
  BY StFields DEF EntryOf, StOK
<1>3. CASE c = <<>>
  <2>1. DropOf(s, e)
    BY <1>3 DEF EntryOf
  <2>2. Given(s.fns, e.fns, Len(s.marks) - 1) /\ e.marks = s.marks /\ e.gen = s.gen /\ e.out = "ok"
    BY <2>1, FineFacts DEF DropOf, Lists
  <2>3. Fewer(s.fns, e.fns) /\ Spares(s.fns, e.fns)
    BY <1>1, <2>2, FewerFacts, SparesFacts
  <2>4. Lies(e.fns, s.marks, s.gen, c, H)
    BY <2>3, LiesFewer
  <2>5. Low(e.fns, Len(s.marks) - 1)
    BY <2>2 DEF Given, Low
  <2>6. Len(e.fns) = Len(s.fns)
    BY <2>2 DEF Given
  <2> QED BY <1>2, <2>2, <2>3, <2>4, <2>5, <2>6
<1>4. CASE c # <<>>
  <2>1. e = s
    BY <1>4 DEF EntryOf
  <2> QED BY <1>1, <1>2, <2>1, FineFacts, SparesFacts
<1> QED BY <1>3, <1>4

LEMMA PendingFares ==
  ASSUME NEW s, NEW c, NEW t, NEW d, Fine(s, c), TypeInv(t, d), NEW H, Heights(s.marks, c, H),
         Lies(s.fns, s.marks, s.gen, c, H), PendingOf(s, c, t, d)
  PROVE  Fares(s, t, d)
<1>1. /\ c \in Seq(FrameType) /\ d \in Seq(FrameType) /\ Len(c) \in Nat
  BY FineFacts DEF TypeInv
<1>2. PICK m \in Nat : m = Len(s.marks)
  BY FineFacts
<1>3. PICK f : f = s.pend[1]
  OBVIOUS
<1>4. PICK e, x : /\ EntryOf(s, c, e) /\ PendIs(e, x, Tail(s.pend)) /\ StOK(x)
                  /\ Consed(x.pend, s.pend, s.pend[1])
                  /\ Still(x, t) /\ Pieced(x.fns, t.fns, s.pend[1], Len(x.marks))
  BY DEF PendingOf
<1>5. CallingOf(s, c) /\ Pushed(c, d) /\ On(d).k = "fn" /\ On(d).fn = f /\ On(d).mark = 0
  BY <1>3 DEF PendingOf, FrameIs
<1>6. /\ e.marks = s.marks /\ e.gen = s.gen /\ Lies(e.fns, s.marks, s.gen, c, H)
      /\ Spares(s.fns, e.fns) /\ Len(e.fns) = Len(s.fns)
  BY <1>4, <1>5, EntryLies
<1>7. x.fns = e.fns /\ t.marks = s.marks /\ t.gen = s.gen /\ Pieced(e.fns, t.fns, f, m)
  BY <1>2, <1>3, <1>4, <1>6 DEF PendIs, Still, Lists
<1>8. PICK G : G = e.fns
  OBVIOUS
<1>9. PICK I : Heights(s.marks, d, I) /\ Lies(G, s.marks, s.gen, d, I)
  <2>1. Lies(G, s.marks, s.gen, c, H)
    BY <1>6, <1>8
  <2> QED BY <1>1, <1>5, <2>1, FineFacts, PushedHoused
<1>10. Len(d) = Len(c) + 1 /\ (\A i \in 1 .. Len(c) : d[i] = c[i]) /\ d[Len(c) + 1] = On(d)
  BY <1>5 DEF Pushed, On
<1>11. Len(d) \in 1 .. Len(d) /\ Len(d) \in Nat
  BY <1>1, <1>10
<1>12. InCall(d, f)
  BY <1>5, <1>10, <1>11 DEF InCall, WithFn
<1>13. 1 \in 1 .. Len(s.pend)
  <2>1. Len(x.pend) \in Nat
    BY <1>4, LenFacts
  <2> QED BY <1>4, <2>1 DEF Consed
<1>14. ASSUME NEW i \in 1 .. Len(d), d[i].k \in {"fn", "build"}, d[i].fn = f PROVE i = Len(d)
  <2>1. SUFFICES ASSUME i # Len(d) PROVE FALSE
    OBVIOUS
  <2>2. i \in 1 .. Len(c) /\ d[i] = c[i]
    BY <1>1, <1>10, <2>1
  <2> QED BY <1>3, <1>13, <1>14, <2>2, FineApart
<1>15. Lies(t.fns, s.marks, s.gen, d, I)
  <2>1. Pieced(G, t.fns, f, m)
    BY <1>7, <1>8
  <2> QED BY <1>2, <1>9, <1>11, <1>12, <1>14, <2>1, LiesPieced
<1>16. Spares(s.fns, t.fns)
  <2>1. Spares(e.fns, t.fns)
    BY <1>7, SparesFacts
  <2> QED BY <1>6, <2>1, FineFacts, SparesTwice
<1> QED BY <1>7, <1>9, <1>15, <1>16 DEF Fares, HousedAt

LEMMA SourceFares ==
  ASSUME NEW s, NEW c, NEW t, NEW d, Fine(s, c), TypeInv(t, d), NEW H, Heights(s.marks, c, H),
         Lies(s.fns, s.marks, s.gen, c, H), SourceOf(s, c, t, d)
  PROVE  Fares(s, t, d)
<1>1. /\ c \in Seq(FrameType) /\ d \in Seq(FrameType) /\ Len(s.marks) \in Nat /\ Len(s.marks) >= 1
  BY FineFacts DEF TypeInv
<1>2. PICK e : /\ StOK(e) /\ DropOf(s, e)
               /\ \/ \E only \in BOOLEAN :
                       /\ Still(e, t) /\ GrownBy(e.fns, t.fns, {Len(e.marks)}, only)
                       /\ FrameIs(On(d), "fn", Len(e.fns) + 1, 0, <<>>, "top")
                  \/ t = e /\ FrameIs(On(d), "decl", 0, 0, <<>>, "top")
  BY DEF SourceOf
<1>3. c = <<>> /\ Len(c) = 0 /\ Pushed(c, d) /\ On(d).mark = 0 /\ CallingOf(s, c)
  BY <1>2 DEF SourceOf, FrameIs, CallingOf
<1>4. EntryOf(s, c, e)
  BY <1>2, <1>3 DEF EntryOf
<1>5. /\ e.marks = s.marks /\ e.gen = s.gen /\ Lies(e.fns, s.marks, s.gen, c, H)
      /\ Spares(s.fns, e.fns) /\ Len(e.fns) = Len(s.fns)
  BY <1>3, <1>4, EntryLies
<1>6. t.marks = s.marks /\ t.gen = s.gen
  BY <1>2, <1>5 DEF Still, Lists
<1>7. PICK G : G = e.fns
  OBVIOUS
<1>8. PICK I : Heights(s.marks, d, I) /\ Lies(G, s.marks, s.gen, d, I)
  <2>1. Lies(G, s.marks, s.gen, c, H)
    BY <1>5, <1>7
  <2> QED BY <1>1, <1>3, <2>1, FineFacts, PushedHoused
<1>9. CASE t = e
  BY <1>5, <1>6, <1>7, <1>8, <1>9 DEF Fares, HousedAt
<1>10. ASSUME NEW only \in BOOLEAN, GrownBy(e.fns, t.fns, {Len(e.marks)}, only),
              FrameIs(On(d), "fn", Len(e.fns) + 1, 0, <<>>, "top")
       PROVE  Fares(s, t, d)
  <2>1. PICK S : S = {Len(s.marks)}
    OBVIOUS
  <2>2. S \subseteq 1 .. Len(s.marks) /\ GrownBy(G, t.fns, S, only)
    BY <1>1, <1>5, <1>7, <1>10, <2>1
  <2>3. Len(G) \in Nat
    BY <1>5, <1>7, FineFacts
  <2>4. On(d).k = "fn" /\ On(d).fn = Len(G) + 1
    BY <1>7, <1>10 DEF FrameIs
  <2>5. Len(d) = 1 /\ On(d) = d[1]
    BY <1>3 DEF Pushed, On
  <2>6. 1 \in 1 .. Len(d) /\ Len(d) \in Nat /\ \A i \in 1 .. Len(d) : i = Len(d)
    BY <2>5
  <2>7. InCall(d, Len(G) + 1)
    BY <2>4, <2>5, <2>6 DEF InCall, WithFn
  <2>8. Housed(t.fns, s.marks, s.gen, d, Len(G) + 1)
    BY <2>7 DEF Housed
  <2>9. \A i \in 1 .. Len(d) : d[i].k \in {"fn", "build"} /\ d[i].fn = Len(G) + 1 => i = Len(d)
    BY <2>6
  <2>10. Lies(t.fns, s.marks, s.gen, d, I)
    BY <1>1, <1>8, <2>2, <2>3, <2>6, <2>8, <2>9, LiesGrown
  <2>11. Spares(G, t.fns)
    BY <2>2, SparesFacts
  <2>12. Spares(s.fns, t.fns)
    BY <1>5, <1>7, <2>3, <2>11, SparesTwice
  <2> QED BY <1>6, <1>8, <2>10, <2>12 DEF Fares, HousedAt
<1> QED BY <1>2, <1>9, <1>10

LEMMA EndOfFileFares ==
  ASSUME NEW s, NEW c, NEW t, NEW d, Fine(s, c), NEW H, Heights(s.marks, c, H),
         Lies(s.fns, s.marks, s.gen, c, H), EndOfFileOf(s, c, t, d)
  PROVE  Fares(s, t, d)
<1>1. PICK e : StOK(e) /\ DropOf(s, e) /\ t.fns = e.fns
  BY DEF EndOfFileOf
<1>2. c = <<>> /\ CallingOf(s, c) /\ t.out # "ok"
  BY DEF EndOfFileOf, CallingOf
<1>3. EntryOf(s, c, e)
  BY <1>1, <1>2 DEF EntryOf
<1>4. Spares(s.fns, e.fns)
  BY <1>2, <1>3, EntryLies
<1> QED BY <1>1, <1>2, <1>4 DEF Fares

\* A call is made that sets a mark.
LEMMA MarkedHoused ==
  ASSUME NEW M, NEW N, NEW G \in Seq(FnType), NEW g, NEW c \in Seq(FrameType), NEW d, NEW H,
         Heights(M, c, H), Lies(G, M, g, c, H), Appended(M, N), Pushed(c, d), Len(M) \in Nat,
         On(d).mark = N[Len(N)].blk, On(d).mark # 0
  PROVE  \E I : Heights(N, d, I) /\ Lies(G, N, g, d, I)
<1>1. PICK h : h = Len(N)
  OBVIOUS
<1>2. Len(c) \in Nat /\ Len(N) = Len(M) + 1 /\ Len(N) \in Nat /\ ~N[Len(N)].unmarked
  BY StackLen DEF Appended
<1>3. PICK I : Higher(H, I, Len(c), h)
  BY <1>2, HigherIs
<1>4. Heights(N, c, H)
  BY <1>2, HeightsAppend
<1>5. H[Len(c)] \in 1 .. Len(M)
  <2>1. Len(c) \in 0 .. Len(c)
    BY <1>2
  <2> QED BY <2>1 DEF Heights
<1>6. h \in 1 .. Len(N) /\ H[Len(c)] < h /\ N[h].blk = On(d).mark /\ ~N[h].unmarked
  BY <1>1, <1>2, <1>5
<1>7. Heights(N, d, I)
  BY <1>2, <1>3, <1>4, <1>6, HeightsPush
<1>8. Lies(G, N, g, d, I)
  BY <1>1, <1>2, <1>3, LiesMark
<1> QED BY <1>7, <1>8

LEMMA InstanceFnFares ==
  ASSUME NEW s, NEW c, NEW t, NEW d, Fine(s, c), TypeInv(t, d), NEW H, Heights(s.marks, c, H),
         Lies(s.fns, s.marks, s.gen, c, H), InstanceFnOf(s, c, t, d)
  PROVE  Fares(s, t, d)
<1>1. /\ c \in Seq(FrameType) /\ d \in Seq(FrameType) /\ Len(s.marks) \in Nat /\ Len(c) \in Nat
      /\ StOK(s) /\ StOK(t)
  BY FineFacts DEF TypeInv
<1>2. PICK m : /\ StOK(m) /\ MarkOf(s, m)
               /\ Still(m, t) /\ GrownBy(m.fns, t.fns, {Len(m.marks)}, FALSE)
               /\ FrameIs(On(d), "fn", Len(s.fns) + 1, m.marks[Len(m.marks)].blk, <<>>, "top")
  BY DEF InstanceFnOf
<1>3. PICK M : M = s.marks
  OBVIOUS
<1>4. PICK N : N = t.marks
  OBVIOUS
<1>5. PICK G : G = s.fns
  OBVIOUS
<1>6. PICK g : g = s.gen
  OBVIOUS
<1>7. PICK S : S = {Len(N)}
  OBVIOUS
<1>8. /\ N = m.marks /\ Appended(M, N) /\ t.gen = g /\ GrownBy(G, t.fns, S, FALSE) /\ Pushed(c, d)
  BY <1>2, <1>3, <1>4, <1>5, <1>6, <1>7 DEF MarkOf, Still, Lists, InstanceFnOf
<1>9. On(d).k = "fn" /\ On(d).fn = Len(G) + 1 /\ On(d).mark = N[Len(N)].blk /\ On(d).mark # 0
  <2>1. m.marks[Len(m.marks)].blk # 0
    BY <1>1, <1>2, TopMarkFacts
  <2> QED BY <1>2, <1>5, <1>8, <2>1 DEF FrameIs
<1>10. G \in Seq(FnType) /\ Len(G) \in Nat /\ Len(M) \in Nat
  BY <1>1, <1>3, <1>5, FineFacts
<1>11. PICK I : Heights(N, d, I) /\ Lies(G, N, g, d, I)
  <2>1. Heights(M, c, H) /\ Lies(G, M, g, c, H)
    BY <1>3, <1>5, <1>6
  <2> QED BY <1>1, <1>8, <1>9, <1>10, <2>1, MarkedHoused
<1>12. Len(d) = Len(c) + 1 /\ (\A i \in 1 .. Len(c) : d[i] = c[i]) /\ d[Len(c) + 1] = On(d)
  BY <1>8 DEF Pushed, On
<1>13. Len(d) \in 1 .. Len(d) /\ Len(d) \in Nat
  BY <1>1, <1>12
<1>14. ASSUME NEW i \in 1 .. Len(d), d[i].k \in {"fn", "build"}, d[i].fn = Len(G) + 1
       PROVE  i = Len(d)
  <2>1. SUFFICES ASSUME i # Len(d) PROVE FALSE
    OBVIOUS
  <2>2. i \in 1 .. Len(c) /\ d[i] = c[i]
    BY <1>1, <1>12, <2>1
  <2>3. Sits(s.fns, c[i])
    BY <2>2, FineFacts DEF AllSit
  <2>4. Len(G) + 1 \in 1 .. Len(G)
    BY <1>5, <1>14, <2>2, <2>3 DEF Sits
  <2> QED BY <1>10, <2>4
<1>15. Housed(t.fns, N, g, d, Len(G) + 1)
  BY <1>9, <1>12, <1>13 DEF Housed, InCall, WithFn
<1>16. S \subseteq 1 .. Len(N) /\ Len(N) \in Nat
  BY <1>7, <1>8, <1>10 DEF Appended
<1>17. Lies(t.fns, N, g, d, I)
  BY <1>8, <1>10, <1>11, <1>13, <1>14, <1>15, <1>16, LiesGrown
<1>18. Spares(s.fns, t.fns)
  BY <1>5, <1>8, SparesFacts
<1> QED BY <1>4, <1>8, <1>11, <1>17, <1>18 DEF Fares, HousedAt

\* A loop is begun, above a mark of its own.
LEMMA LoopFares ==
  ASSUME NEW s, NEW c, NEW t, NEW d \in Seq(FrameType), Fine(s, c), NEW H, Heights(s.marks, c, H),
         Lies(s.fns, s.marks, s.gen, c, H), Retopped(c, d), On(c).k = "class", NEW m, StOK(m),
         MarkOf(s, m), t.marks = m.marks, t.gen = s.gen, t.fns = s.fns,
         On(d).mark = t.marks[Len(t.marks)].blk
  PROVE  Fares(s, t, d)
<1>1. c \in Seq(FrameType) /\ StOK(s) /\ s.fns \in Seq(FnType) /\ Len(s.marks) \in Nat
  BY FineFacts
<1>2. PICK b \in Seq(FrameType) : Popped(c, b) /\ Pushed(b, d)
  BY <1>1, RetopParts
<1>3. Heights(s.marks, b, H)
  BY <1>1, <1>2, HeightsPop
<1>4. Lies(s.fns, s.marks, s.gen, b, H)
  BY <1>1, <1>2, LiesPop DEF WithFn
<1>5. Appended(s.marks, t.marks)
  BY DEF MarkOf
<1>6. On(d).mark # 0
  <2>1. m.marks[Len(m.marks)].blk # 0
    BY <1>1, TopMarkFacts
  <2> QED BY <2>1
<1>7. \E I : Heights(t.marks, d, I) /\ Lies(s.fns, t.marks, s.gen, d, I)
  BY <1>1, <1>2, <1>3, <1>4, <1>5, <1>6, MarkedHoused
<1> QED BY <1>7, SparesFacts DEF Fares, HousedAt

\* A class or a declaration ends.
LEMMA EndedFares ==
  ASSUME NEW s, NEW c, NEW t, NEW d \in Seq(FrameType), Fine(s, c), NEW H, Heights(s.marks, c, H),
         Lies(s.fns, s.marks, s.gen, c, H), Popped(c, d), On(c).k \in {"class", "decl"},
         t.marks = s.marks, t.gen = s.gen, t.fns = s.fns
  PROVE  Fares(s, t, d)
<1>1. c \in Seq(FrameType)
  BY FineFacts
<1>2. Heights(s.marks, d, H)
  BY <1>1, HeightsPop
<1>3. Lies(s.fns, s.marks, s.gen, d, H)
  BY <1>1, LiesPop DEF WithFn
<1> QED BY <1>2, <1>3, SparesFacts DEF Fares, HousedAt

LEMMA EndClassFares ==
  ASSUME NEW s, NEW c, NEW t, NEW d, Fine(s, c), TypeInv(t, d), NEW H, Heights(s.marks, c, H),
         Lies(s.fns, s.marks, s.gen, c, H), EndClassOf(s, c, t, d)
  PROVE  Fares(s, t, d)
<1>1. d \in Seq(FrameType) /\ StOK(t)
  BY DEF TypeInv
<1>2. On(c).k = "class"
  BY DEF EndClassOf
<1>3. CASE /\ MarkOf(s, t) /\ Retopped(c, d)
           /\ FrameIs(On(d), "loop", 0, t.marks[Len(t.marks)].blk, On(c).saved, "top")
  <2>1. On(d).mark = t.marks[Len(t.marks)].blk /\ t.gen = s.gen /\ t.fns = s.fns
    BY <1>3 DEF FrameIs, MarkOf, Lists
  <2> QED BY <1>1, <1>2, <1>3, <2>1, LoopFares
<1>4. ASSUME NEW m, StOK(m), MarkOf(s, m), PendIs(m, t, <<>>), Retopped(c, d),
             FrameIs(On(d), "loop", 0, t.marks[Len(t.marks)].blk, s.pend, "top")
      PROVE  Fares(s, t, d)
  <2>1. On(d).mark = t.marks[Len(t.marks)].blk
    BY <1>4 DEF FrameIs
  <2>2. t.marks = m.marks /\ t.gen = s.gen /\ t.fns = s.fns
    BY <1>4 DEF MarkOf, Lists, PendIs
  <2> QED BY <1>1, <1>2, <1>4, <2>1, <2>2, LoopFares
<1>5. CASE Popped(c, d) /\ (t = s \/ PendIs(s, t, On(c).saved))
  <2>1. t.marks = s.marks /\ t.gen = s.gen /\ t.fns = s.fns
    BY <1>5 DEF PendIs
  <2> QED BY <1>1, <1>2, <1>5, <2>1, EndedFares
<1> QED BY <1>3, <1>4, <1>5 DEF EndClassOf

LEMMA EndDeclFares ==
  ASSUME NEW s, NEW c, NEW t, NEW d, Fine(s, c), TypeInv(t, d), NEW H, Heights(s.marks, c, H),
         Lies(s.fns, s.marks, s.gen, c, H), EndDeclOf(s, c, t, d)
  PROVE  Fares(s, t, d)
<1>1. d \in Seq(FrameType) /\ On(c).k = "decl" /\ t = s /\ Popped(c, d)
  BY DEF EndDeclOf, TypeInv
<1> QED BY <1>1, EndedFares

\* The mark of a function noted is nobody else's.
LEMMA ExtraTop ==
  ASSUME NEW s, NEW c, Fine(s, c), NEW x, StOK(x),
         NEW e, e.marks = s.marks, Extra(e, x)
  PROVE  /\ Len(x.fns) = Len(e.fns) + 1
         /\ \A j \in 1 .. Len(c) : c[j].mark # Top(x).blk
         /\ \A i \in 1 .. Len(s.gen) : s.gen[i].mark # Top(x).blk
<1>1. PICK N : N = x.marks
  OBVIOUS
<1>2. Appended(s.marks, N) /\ Len(x.fns) = Len(e.fns) + 1
  BY <1>1 DEF Extra, GrownBy
<1>3. Top(x) = N[Len(N)] /\ N[Len(N)].blk # 0
  BY <1>1, TopFacts DEF Blk
<1>4. /\ \A j \in 1 .. Len(c) : c[j].mark # N[Len(N)].blk
      /\ \A i \in 1 .. Len(s.gen) : s.gen[i].mark # N[Len(N)].blk
  BY <1>2, <1>3, FineOwners
<1> QED BY <1>2, <1>3, <1>4

LEMMA EndLoopFares ==
  ASSUME NEW s, NEW c, NEW t, NEW d, Fine(s, c), TypeInv(t, d), NEW H, Heights(s.marks, c, H),
         Lies(s.fns, s.marks, s.gen, c, H), EndLoopOf(s, c, t, d)
  PROVE  Fares(s, t, d)
<1>1. /\ c \in Seq(FrameType) /\ d \in Seq(FrameType) /\ StOK(s) /\ s.out = "ok"
      /\ s.fns \in Seq(FnType) /\ Len(c) \in Nat
  BY FineFacts DEF TypeInv
<1>2. c # <<>> /\ On(c).k = "loop" /\ Popped(c, d)
  BY DEF EndLoopOf
<1>3. PICK b : b = On(c).mark
  OBVIOUS
<1>4. PICK u : StOK(u) /\ UnmarkOf(s, u, b) /\ PendIs(u, t, On(c).saved)
  BY <1>3 DEF EndLoopOf
<1>5. t.marks = u.marks /\ t.fns = u.fns /\ t.gen = u.gen /\ t.out = u.out /\ u.gen = s.gen
  BY <1>4 DEF PendIs, UnmarkOf, Lists
<1>6. Low(s.fns, Len(s.marks) - 1)
  <2>1. PICK G : G = s.fns
    OBVIOUS
  <2>2. G \in Seq(FnType) /\ Lies(G, s.marks, s.gen, c, H)
    BY <1>1, <2>1
  <2>3. On(c).k \in {"loop", "cg"} /\ On(c).k # "cg"
    BY <1>2
  <2>4. Low(G, Len(s.marks) - 1)
    BY <2>2, <2>3, Dry
  <2> QED BY <2>1, <2>4
<1>7. Idle(s.gen, c, b)
  <2>1. Len(c) \in 1 .. Len(c)
    BY <1>1, <1>2, StackLen
  <2> QED BY <1>3, <2>1 DEF Idle, On
<1>8. /\ Spares(s.fns, u.fns) \/ Len(u.marks) < Len(s.marks) - 1
      /\ u.out = "ok" => Lies(u.fns, u.marks, s.gen, c, H)
  BY <1>1, <1>4, <1>6, <1>7, UndoLies
<1>9. ASSUME u.out = "ok" PROVE HousedAt(t, d)
  <2>1. b # 0
    BY <1>2, <1>3, FineFacts DEF Sits
  <2>2. \A i, j \in 1 .. Len(c) : c[i].mark # 0 /\ c[i].mark = c[j].mark => i = j
    BY FineOwners DEF OneOwner
  <2>3. UnmarkOf(s, u, On(c).mark) /\ On(c).mark # 0
    BY <1>3, <1>4, <2>1
  <2>4. Heights(u.marks, d, H)
    BY <1>1, <1>2, <1>9, <2>2, <2>3, HeightsReturned
  <2>5. Lies(u.fns, u.marks, s.gen, c, H)
    BY <1>8, <1>9
  <2>6. On(c).k \notin WithFn
    BY <1>2 DEF WithFn
  <2>7. Lies(u.fns, u.marks, s.gen, d, H)
    BY <1>1, <1>2, <2>5, <2>6, LiesPop
  <2> QED BY <1>5, <2>4, <2>7 DEF HousedAt
<1> QED BY <1>5, <1>8, <1>9 DEF Fares

\* What is given back above a level where nothing lies.
LEMMA DroppedLies ==
  ASSUME NEW G, NEW K, NEW M, NEW g, NEW c, NEW H, Lies(G, M, g, c, H), Low(G, Len(M) - 1),
         Given(G, K, Len(M) - 1)
  PROVE  /\ Lies(K, M, g, c, H) /\ Low(K, Len(M) - 1) /\ Spares(G, K) /\ Len(K) = Len(G)
<1>1. Fewer(G, K) /\ Spares(G, K)
  BY FewerFacts, SparesFacts
<1>2. Lies(K, M, g, c, H)
  BY <1>1, LiesFewer
<1>3. Low(K, Len(M) - 1) /\ Len(K) = Len(G)
  BY DEF Given, Low
<1> QED BY <1>1, <1>2, <1>3

\* The function is compiled, and what it lay in dropped; its mark is undone next.
LEMMA CompiledLies ==
  ASSUME NEW s, NEW c, Fine(s, c), On(c).k = "cg", c # <<>>, NEW H, Heights(s.marks, c, H),
         Lies(s.fns, s.marks, s.gen, c, H), NEW x, NEW y, NEW z, DescribedOf(s, x), StOK(y),
         Still(x, y), OneMade(x.fns, y.fns, On(c).fn), StOK(z), DropOf(y, z)
  PROVE  /\ Heights(z.marks, c, H) /\ Lies(z.fns, z.marks, z.gen, c, H)
         /\ Spares(s.fns, z.fns) /\ Low(z.fns, Len(z.marks) - 1) /\ z.out = "ok"
         /\ Len(s.fns) <= Len(z.fns) /\ Len(z.fns) \in Nat
         /\ On(c).fn \in 1 .. Len(z.fns) => z.fns[On(c).fn].store = {}
         /\ Len(z.marks) = Len(s.marks) \/ \A j \in 1 .. Len(c) : c[j].mark # Top(z).blk
<1>1. PICK f : f = On(c).fn
  OBVIOUS
<1>2. Heights(x.marks, c, H) /\ Lies(x.fns, x.marks, x.gen, c, H) /\ Spares(s.fns, x.fns)
  BY DescribedLies
<1>3. y.marks = x.marks /\ y.gen = x.gen /\ y.out = x.out
  BY DEF Still, Lists
<1>4. z.marks = x.marks /\ z.gen = x.gen /\ z.out = x.out /\ Given(y.fns, z.fns, Len(x.marks) - 1)
  BY <1>3 DEF DropOf, Lists
<1>5. PICK G : G = y.fns
  OBVIOUS
<1>6. G \in Seq(FnType)
  BY <1>5, StFields DEF StOK
<1>7. Fewer(x.fns, G) /\ Spares(x.fns, G) /\ Len(G) = Len(x.fns)
  <2>1. OneMade(x.fns, G, f)
    BY <1>1, <1>5
  <2>2. Fewer(x.fns, G)
    BY <2>1, FewerFacts
  <2>3. Spares(x.fns, G)
    BY <2>1, SparesFacts
  <2>4. Len(G) = Len(x.fns)
    BY <2>1 DEF OneMade
  <2> QED BY <2>2, <2>3, <2>4
<1>8. f \in 1 .. Len(G) => G[f].store = {}
  BY <1>1, <1>5 DEF OneMade
<1>9. Lies(G, x.marks, x.gen, c, H)
  BY <1>2, <1>7, LiesFewer
<1>10. /\ Low(G, Len(x.marks) - 1) /\ Len(s.fns) <= Len(x.fns) /\ x.out = "ok"
       /\ Len(x.marks) = Len(s.marks) \/ \A j \in 1 .. Len(c) : c[j].mark # Top(x).blk
  <2>1. CASE x = s
    <3>1. Lies(G, s.marks, s.gen, c, H)
      BY <1>9, <2>1
    <3>2. On(c).k \in {"loop", "cg"}
      OBVIOUS
    <3>3. c # <<>> /\ On(c).k = "cg" /\ On(c).fn \in 1 .. Len(G) => G[On(c).fn].store = {}
      BY <1>1, <1>8
    <3>4. Low(G, Len(s.marks) - 1)
      BY <1>6, <3>1, <3>2, <3>3, Dry
    <3> QED BY <2>1, <3>4, FineFacts
  <2>2. CASE Extra(s, x)
    <3>1. StOK(s) /\ StOK(x)
      BY FineFacts DEF DescribedOf
    <3>2. /\ Low(x.fns, Len(x.marks) - 1) /\ Len(x.fns) = Len(s.fns) + 1 /\ x.out = s.out
          /\ \A j \in 1 .. Len(c) : c[j].mark # Top(x).blk
      <4>1. PICK e : e = s
        OBVIOUS
      <4>2. StOK(e) /\ e.marks = s.marks /\ e.gen = s.gen /\ Len(e.fns) = Len(s.fns)
        BY <3>1, <4>1
      <4>3. Extra(e, x) /\ Lies(e.fns, s.marks, s.gen, c, H)
        BY <2>2, <4>1
      <4>4. Low(x.fns, Len(x.marks) - 1)
        BY <3>1, <4>2, <4>3, ExtraLies
      <4>5. x.out = e.out
        BY <3>1, <4>2, <4>3, ExtraLies
      <4> QED BY <2>2, <3>1, <4>1, <4>4, <4>5, ExtraTop
    <3>3. Low(G, Len(x.marks) - 1)
      BY <1>7, <3>2 DEF Fewer, Low
    <3> QED BY <3>2, <3>3, FineFacts
  <2> QED BY <2>1, <2>2 DEF DescribedOf
<1>11. /\ Lies(z.fns, x.marks, x.gen, c, H) /\ Low(z.fns, Len(x.marks) - 1) /\ Spares(G, z.fns)
       /\ Len(z.fns) = Len(G)
  <2>1. Given(G, z.fns, Len(x.marks) - 1)
    BY <1>4, <1>5
  <2> QED BY <1>9, <1>10, <2>1, DroppedLies
<1>12. Len(z.fns) \in Nat /\ Len(s.fns) <= Len(z.fns)
  BY <1>7, <1>10, <1>11, LenFacts
<1>13. Spares(s.fns, z.fns)
  <2>1. Len(s.fns) \in Nat /\ Len(x.fns) \in Nat /\ Len(G) \in Nat
    BY <1>7, <1>11, <1>12, FineFacts
  <2>2. Spares(s.fns, G)
    BY <1>2, <1>7, <1>10, <2>1, SparesTwice
  <2> QED BY <1>7, <1>10, <1>11, <2>1, <2>2, SparesTwice
<1>14. f \in 1 .. Len(z.fns) => z.fns[f].store = {}
  BY <1>4, <1>5, <1>8, <1>11 DEF Given
<1>15. Top(z) = Top(x)
  BY <1>4 DEF Top
<1> QED BY <1>1, <1>2, <1>4, <1>10, <1>11, <1>12, <1>13, <1>14, <1>15

LEMMA CompiledFares ==
  ASSUME NEW s, NEW c, NEW t, NEW d, Fine(s, c), TypeInv(t, d), NEW H, Heights(s.marks, c, H),
         Lies(s.fns, s.marks, s.gen, c, H), CompiledOf(s, c, t, d)
  PROVE  Fares(s, t, d)
<1>1. /\ c \in Seq(FrameType) /\ d \in Seq(FrameType) /\ Len(c) \in Nat
  BY FineFacts DEF TypeInv
<1>2. c # <<>> /\ On(c).k = "cg" /\ Popped(c, d)
  BY DEF CompiledOf
<1>3. PICK x, y, z :
        /\ DescribedOf(s, x) /\ StOK(y) /\ Still(x, y) /\ OneMade(x.fns, y.fns, On(c).fn)
        /\ StOK(z) /\ DropOf(y, z)
        /\ \/ On(c).mark = 0 /\ t = z
           \/ On(c).mark # 0 /\ \E w : StOK(w) /\ DropOf(z, w) /\ UnmarkOf(w, t, On(c).mark)
  BY DEF CompiledOf
<1>4. /\ Heights(z.marks, c, H) /\ Lies(z.fns, z.marks, z.gen, c, H)
      /\ Spares(s.fns, z.fns) /\ Low(z.fns, Len(z.marks) - 1) /\ z.out = "ok"
      /\ Len(s.fns) <= Len(z.fns) /\ Len(z.fns) \in Nat
      /\ On(c).fn \in 1 .. Len(z.fns) => z.fns[On(c).fn].store = {}
      /\ Len(z.marks) = Len(s.marks) \/ \A j \in 1 .. Len(c) : c[j].mark # Top(z).blk
  BY <1>2, <1>3, CompiledLies
<1>5. CASE On(c).mark = 0 /\ t = z
  <2>1. Heights(z.marks, d, H)
    BY <1>1, <1>2, <1>4, HeightsPop
  <2>2. Lies(z.fns, z.marks, z.gen, d, H)
    BY <1>1, <1>2, <1>4, LiesPop
  <2> QED BY <1>4, <1>5, <2>1, <2>2 DEF Fares, HousedAt
<1>6. ASSUME On(c).mark # 0, NEW w, StOK(w), DropOf(z, w), UnmarkOf(w, t, On(c).mark)
      PROVE  Fares(s, t, d)
  <2>1. PICK b : b = On(c).mark
    OBVIOUS
  <2>2. /\ w.marks = z.marks /\ w.gen = z.gen /\ w.out = "ok" /\ t.gen = z.gen
        /\ Given(z.fns, w.fns, Len(z.marks) - 1)
    BY <1>4, <1>6 DEF DropOf, UnmarkOf, Lists
  <2>3. PICK g : g = z.gen
    OBVIOUS
  <2>4. /\ Lies(w.fns, w.marks, g, c, H) /\ Low(w.fns, Len(w.marks) - 1) /\ Spares(z.fns, w.fns)
        /\ Len(w.fns) = Len(z.fns)
    <3>1. PICK M : M = z.marks
      OBVIOUS
    <3>2. Lies(z.fns, M, g, c, H)
      BY <1>4, <2>3, <3>1
    <3>3. Low(z.fns, Len(M) - 1)
      BY <1>4, <3>1
    <3>4. Given(z.fns, w.fns, Len(M) - 1)
      BY <2>2, <3>1
    <3>5. /\ Lies(w.fns, M, g, c, H) /\ Low(w.fns, Len(M) - 1) /\ Spares(z.fns, w.fns)
          /\ Len(w.fns) = Len(z.fns)
      BY <3>2, <3>3, <3>4, DroppedLies
    <3> QED BY <2>2, <3>1, <3>5
  <2>5. Spares(s.fns, w.fns)
    BY <1>4, <2>4, FineFacts, SparesTwice
  <2>6. Idle(g, c, b)
    <3>1. Len(c) \in 1 .. Len(c)
      BY <1>1, <1>2, StackLen
    <3> QED BY <2>1, <3>1 DEF Idle, On
  <2>7. PICK u : u = t
    OBVIOUS
  <2>8. UnmarkOf(w, u, b)
    BY <1>6, <2>1, <2>7
  <2>9. /\ Spares(w.fns, u.fns) \/ Len(u.marks) < Len(s.marks) - 1
        /\ u.out = "ok" => Lies(u.fns, u.marks, g, c, H)
    <3>1. CASE Len(z.marks) = Len(s.marks)
      <4>1. Len(w.marks) = Len(s.marks)
        BY <2>2, <3>1
      <4>2. /\ Spares(w.fns, u.fns) \/ Len(u.marks) < Len(w.marks) - 1
            /\ u.out = "ok" => Lies(u.fns, u.marks, g, c, H)
        BY <1>6, <2>2, <2>4, <2>6, <2>8, UndoLies
      <4> QED BY <4>1, <4>2
    <3>2. CASE \A j \in 1 .. Len(c) : c[j].mark # Top(z).blk
      <4>1. Top(w) = Top(z)
        BY <2>2 DEF Top
      <4>2. Len(c) \in 1 .. Len(c) /\ On(c) = c[Len(c)]
        BY <1>1, <1>2, StackLen DEF On
      <4>3. Top(w).blk # b
        BY <2>1, <3>2, <4>1, <4>2
      <4> QED BY <1>6, <2>2, <2>4, <2>6, <2>8, <4>3, UndoUnder
    <3> QED BY <1>4, <3>1, <3>2
  <2>10. Spares(s.fns, u.fns) \/ Len(u.marks) < Len(s.marks) - 1
    <3>1. Len(w.fns) \in Nat /\ Len(s.fns) <= Len(w.fns) /\ Len(s.fns) \in Nat
      BY <1>4, <2>4, FineFacts
    <3> QED BY <2>5, <2>9, <3>1, SparesTwice
  <2>11. ASSUME u.out = "ok" PROVE HousedAt(u, d)
    <3>1. \A i, j \in 1 .. Len(c) : c[i].mark # 0 /\ c[i].mark = c[j].mark => i = j
      BY FineOwners DEF OneOwner
    <3>2. UnmarkOf(w, u, On(c).mark) /\ Heights(w.marks, c, H)
      BY <1>4, <2>1, <2>2, <2>8
    <3>3. Heights(u.marks, d, H)
      BY <1>1, <1>2, <1>6, <2>11, <3>1, <3>2, HeightsReturned
    <3>4. Fewer(w.fns, u.fns)
      <4>1. u.fns = w.fns \/ \E n : Given(w.fns, u.fns, n)
        BY <2>8 DEF UnmarkOf, NoSuchMark, NotDropped, CutBack, JustNoted
      <4> QED BY <4>1, FewerFacts
    <3>5. On(c).fn \in 1 .. Len(u.fns) => u.fns[On(c).fn].store = {}
      <4>1. Fewer(z.fns, w.fns)
        BY <2>2, FewerFacts
      <4> QED BY <1>4, <3>4, <4>1 DEF Fewer
    <3>6. Lies(u.fns, u.marks, g, d, H)
      BY <1>1, <1>2, <2>9, <2>11, <3>5, LiesPop
    <3>7. u.gen = g
      BY <2>2, <2>3, <2>7
    <3> QED BY <3>3, <3>6, <3>7 DEF HousedAt
  <2> QED BY <2>7, <2>10, <2>11 DEF Fares
<1> QED BY <1>3, <1>5, <1>6

Notes(g, r) == \E i \in 1 .. Len(g) : g[i] = r

\* Nothing lies above the mark to be undone, or another mark does.
Undoable(s, x) ==
  \/ Top(x).blk # s.gen[1].mark
  \/ Low(x.fns, Len(x.marks) - 1) /\ Len(x.marks) = Len(s.marks)

\* What is generated is known of, and with it perhaps one function more.
LEMMA TakenLies ==
  ASSUME NEW s, NEW c, Fine(s, c), s.gen # <<>>, CallingOf(s, c), NEW H, Heights(s.marks, c, H),
         Lies(s.fns, s.marks, s.gen, c, H), NEW e, NEW x, EntryOf(s, c, e), DescribedOf(e, x)
  PROVE  /\ StOK(x) /\ Heights(x.marks, c, H) /\ Lies(x.fns, x.marks, x.gen, c, H)
         /\ Spares(s.fns, x.fns) /\ x.out = "ok" /\ Len(s.fns) <= Len(x.fns)
         /\ Notes(x.gen, s.gen[1]) /\ Undoable(s, x)
<1>1. /\ e.marks = s.marks /\ e.gen = s.gen /\ e.out = "ok" /\ Len(e.fns) = Len(s.fns)
      /\ Lies(e.fns, s.marks, s.gen, c, H) /\ Spares(s.fns, e.fns)
      /\ Low(e.fns, Len(s.marks) - 1) /\ StOK(e)
  BY EntryLies
<1>2. Len(s.gen) \in Nat /\ Len(s.fns) \in Nat /\ StOK(s)
  BY FineFacts
<1>3. 1 \in 1 .. Len(s.gen)
  <2>1. s.gen \in Seq(NoteType)
    BY FineFacts, StFields
  <2> QED BY <2>1, EmptySeq, LenProperties
<1>4. CASE x = e
  BY <1>1, <1>2, <1>3, <1>4 DEF Notes, Undoable
<1>5. CASE Extra(e, x)
  <2>1. StOK(x)
    BY DEF DescribedOf
  <2>2. Heights(x.marks, c, H) /\ Lies(x.fns, x.marks, x.gen, c, H) /\ Spares(e.fns, x.fns)
    BY <1>1, <1>5, <2>1, ExtraLies
  <2>3. Len(x.fns) = Len(s.fns) + 1
    BY <1>1, <1>5, <2>1, ExtraTop
  <2>4. Top(x).blk # s.gen[1].mark
    BY <1>1, <1>3, <1>5, <2>1, ExtraTop
  <2>5. x.out = "ok"
    BY <1>1, <1>5 DEF Extra
  <2>6. Spares(s.fns, x.fns)
    BY <1>1, <1>2, <2>2, SparesTwice
  <2>7. \E i \in 1 .. Len(x.gen) : x.gen[i] = s.gen[1]
    <3>1. Len(x.gen) = Len(s.gen) + 1 /\ \A i \in 1 .. Len(s.gen) : x.gen[i + 1] = s.gen[i]
      BY <1>1, <1>5 DEF Extra, Consed
    <3>2. 1 + 1 \in 1 .. Len(x.gen) /\ x.gen[1 + 1] = s.gen[1]
      BY <1>2, <1>3, <3>1
    <3> QED BY <3>2
  <2> QED BY <1>2, <2>1, <2>2, <2>3, <2>4, <2>5, <2>6, <2>7 DEF Notes, Undoable
<1> QED BY <1>4, <1>5 DEF DescribedOf

LEMMA GeneratedFares ==
  ASSUME NEW s, NEW c, NEW t, NEW d, Fine(s, c), TypeInv(t, d), NEW H, Heights(s.marks, c, H),
         Lies(s.fns, s.marks, s.gen, c, H), GeneratedOf(s, c, t, d)
  PROVE  Fares(s, t, d)
<1>1. /\ c \in Seq(FrameType) /\ d \in Seq(FrameType) /\ Len(c) \in Nat /\ StOK(t)
      /\ Len(s.fns) \in Nat
  BY FineFacts DEF TypeInv
<1>2. PICK b : b = s.gen[1].mark
  OBVIOUS
<1>3. PICK f : f = s.gen[1].fn
  OBVIOUS
<1>4. PICK e, x, y : /\ EntryOf(s, c, e) /\ DescribedOf(e, x) /\ StOK(y) /\ GenTaken(x, y)
                     /\ UnmarkOf(y, t, b)
  BY <1>2 DEF GeneratedOf
<1>5. /\ CallingOf(s, c) /\ s.gen # <<>> /\ Pushed(c, d)
      /\ On(d).k = "cg" /\ On(d).fn = f /\ On(d).mark = 0
  BY <1>3 DEF GeneratedOf, FrameIs
<1>6. /\ StOK(x) /\ Heights(x.marks, c, H) /\ Lies(x.fns, x.marks, x.gen, c, H)
      /\ Spares(s.fns, x.fns) /\ x.out = "ok" /\ Len(s.fns) <= Len(x.fns)
      /\ Notes(x.gen, s.gen[1]) /\ Undoable(s, x)
  BY <1>4, <1>5, TakenLies
<1>7. PICK M : M = x.marks
  OBVIOUS
<1>8. Len(M) \in Nat /\ \A q \in 1 .. Len(M) : M[q].blk # 0
  <2>1. Len(M) \in Nat
    BY <1>6, <1>7, TopFacts
  <2>2. M \in Seq(MarkType)
    BY <1>6, <1>7, StFields DEF StOK
  <2>3. ASSUME NEW q \in 1 .. Len(M) PROVE M[q].blk # 0
    <3>1. M[q].blk \in Blk
      BY <2>2, MarkFields
    <3> QED BY <3>1 DEF Blk
  <2> QED BY <2>1, <2>3
<1>9. PICK g : g = x.gen
  OBVIOUS
<1>10. PICK I : Heights(M, d, I) /\ Lies(x.fns, M, g, d, I)
  <2>1. Heights(M, c, H) /\ Lies(x.fns, M, g, c, H)
    BY <1>6, <1>7, <1>9
  <2> QED BY <1>1, <1>5, <1>8, <2>1, PushedHoused
<1>11. Len(d) = Len(c) + 1 /\ (\A i \in 1 .. Len(c) : d[i] = c[i]) /\ d[Len(c) + 1] = On(d)
  BY <1>5 DEF Pushed, On
<1>12. Idle(g, d, b)
  <2>1. PICK i \in 1 .. Len(g) : g[i] = s.gen[1]
    BY <1>6, <1>9 DEF Notes
  <2>2. Len(d) \in 1 .. Len(d) /\ d[Len(d)] = On(d)
    BY <1>1, <1>11
  <2>3. InCall(d, f)
    BY <1>5, <2>2 DEF InCall, WithFn
  <2> QED BY <1>2, <1>3, <2>1, <2>3 DEF Idle
<1>13. y.marks = M /\ y.fns = x.fns /\ y.out = "ok" /\ Consed(y.gen, g, g[1])
  BY <1>4, <1>6, <1>7, <1>9 DEF GenTaken
<1>14. t.gen = y.gen
  BY <1>4 DEF UnmarkOf, Lists
<1>15. PICK u : u = t
  OBVIOUS
<1>16. UnmarkOf(y, u, b) /\ Lies(y.fns, y.marks, g, d, I)
  BY <1>4, <1>10, <1>13, <1>15
<1>17. /\ Spares(x.fns, u.fns) \/ Len(u.marks) < Len(s.marks) - 1
       /\ u.out = "ok" => Lies(u.fns, u.marks, g, d, I)
  <2>1. CASE Top(x).blk # b
    <3>1. Top(y).blk # b
      BY <1>7, <1>13, <2>1 DEF Top
    <3>2. /\ Spares(y.fns, u.fns)
          /\ u.out = "ok" => Lies(u.fns, u.marks, g, d, I)
      BY <1>4, <1>12, <1>13, <1>16, <3>1, UndoUnder
    <3> QED BY <1>13, <3>2
  <2>2. CASE Low(x.fns, Len(x.marks) - 1) /\ Len(x.marks) = Len(s.marks)
    <3>1. Low(y.fns, Len(y.marks) - 1)
      BY <1>7, <1>13, <2>2
    <3>2. /\ Spares(y.fns, u.fns) \/ Len(u.marks) < Len(y.marks) - 1
          /\ u.out = "ok" => Lies(u.fns, u.marks, g, d, I)
      BY <1>4, <1>12, <1>13, <1>16, <3>1, UndoLies
    <3> QED BY <1>7, <1>13, <2>2, <3>2
  <2> QED BY <1>2, <1>6, <2>1, <2>2 DEF Undoable
<1>18. Spares(s.fns, u.fns) \/ Len(u.marks) < Len(s.marks) - 1
  <2>1. Len(x.fns) \in Nat
    BY <1>6, LenFacts
  <2> QED BY <1>1, <1>6, <1>17, <2>1, SparesTwice
<1>19. ASSUME u.out = "ok" PROVE HousedAt(u, d)
  <2>1. ASSUME NEW j \in 1 .. Len(d) PROVE d[j].mark # b
    <3>1. 1 \in 1 .. Len(s.gen)
      <4>1. s.gen \in Seq(NoteType)
        BY FineFacts, StFields
      <4> QED BY <1>5, <4>1, EmptySeq, LenProperties
    <3>2. b # 0 /\ \A i \in 1 .. Len(c) : c[i].mark # b
      BY <1>2, <3>1, FineOwners DEF OneOwner
    <3>3. j \in 1 .. Len(c) \/ j = Len(c) + 1
      BY <1>1, <1>11
    <3> QED BY <1>5, <1>11, <3>2, <3>3
  <2>2. Len(d) \in Nat /\ Heights(y.marks, d, I)
    BY <1>1, <1>10, <1>11, <1>13
  <2>3. Heights(u.marks, d, I)
    BY <1>4, <1>16, <1>19, <2>1, <2>2, HeightsUndone
  <2>4. Len(y.gen) \in Nat
    BY <1>4, LenFacts
  <2>5. Lies(u.fns, u.marks, y.gen, d, I)
    BY <1>13, <1>17, <1>19, <2>4, LiesTaken
  <2> QED BY <1>14, <1>15, <2>3, <2>5 DEF HousedAt
<1> QED BY <1>15, <1>18, <1>19 DEF Fares

LEMMA StepFares ==
  ASSUME NEW s, NEW c, NEW t, NEW d, Fine(s, c), TypeInv(t, d), HousedAt(s, c), Steps(s, c, t, d)
  PROVE  Fares(s, t, d)
<1>1. PICK H : Heights(s.marks, c, H) /\ Lies(s.fns, s.marks, s.gen, c, H)
  BY DEF HousedAt
<1>2. CASE GeneratedOf(s, c, t, d)
  BY <1>1, <1>2, GeneratedFares
<1>3. CASE PendingOf(s, c, t, d)
  BY <1>1, <1>3, PendingFares
<1>4. CASE SourceOf(s, c, t, d)
  BY <1>1, <1>4, SourceFares
<1>5. CASE EndOfFileOf(s, c, t, d)
  BY <1>1, <1>5, EndOfFileFares
<1>6. CASE ReadOf(s, c, t, d)
  BY <1>1, <1>6, ReadFares
<1>7. CASE DescribeOf(s, c, t, d)
  BY <1>1, <1>7, DescribeFares
<1>8. CASE HeadOf(s, c, t, d)
  BY <1>1, <1>8, HeadFares
<1>9. CASE MembersOf(s, c, t, d)
  BY <1>1, <1>9, MembersFares
<1>10. CASE NotedOf(s, c, t, d)
  BY <1>1, <1>10, NotedFares
<1>11. CASE EndFnOf(s, c, t, d)
  BY <1>1, <1>11, EndFnFares
<1>12. CASE CompiledOf(s, c, t, d)
  BY <1>1, <1>12, CompiledFares
<1>13. CASE InstanceFnOf(s, c, t, d)
  BY <1>1, <1>13, InstanceFnFares
<1>14. CASE \/ InstanceClassOf(s, c, t, d) \/ LocalClassOf(s, c, t, d) \/ TopClassOf(s, c, t, d)
            \/ NestedClassOf(s, c, t, d)
  BY <1>1, <1>14, ClassFares
<1>15. CASE MemberFnOf(s, c, t, d)
  BY <1>1, <1>15, MemberFares
<1>16. CASE GenerateFnOf(s, c, t, d)
  BY <1>1, <1>16, GenerateFares
<1>17. CASE EndClassOf(s, c, t, d)
  BY <1>1, <1>17, EndClassFares
<1>18. CASE EndLoopOf(s, c, t, d)
  BY <1>1, <1>18, EndLoopFares
<1>19. CASE EndDeclOf(s, c, t, d)
  BY <1>1, <1>19, EndDeclFares
<1>20. SUFFICES ASSUME ~(\/ GeneratedOf(s, c, t, d) \/ PendingOf(s, c, t, d) \/ SourceOf(s, c, t, d)
                        \/ EndOfFileOf(s, c, t, d) \/ ReadOf(s, c, t, d)
                        \/ DescribeOf(s, c, t, d) \/ HeadOf(s, c, t, d) \/ MembersOf(s, c, t, d))
                PROVE  Fares(s, t, d)
  BY <1>2, <1>3, <1>4, <1>5, <1>6, <1>7, <1>8, <1>9
<1> QED BY <1>10, <1>11, <1>12, <1>13, <1>14, <1>15, <1>16, <1>17, <1>18, <1>19, <1>20 DEF Steps

\* The invariant.
HousedInv == OnceInv /\ (st.out = "ok" => Nested(ctl) /\ HousedAt(st, ctl))

LEMMA InitHoused ==
  ASSUME Init PROVE HousedInv
<1>1. OnceInv /\ Start
  BY InitOnce, InitStarts
<1>2. PICK H : H = [i \in {0} |-> 1]
  OBVIOUS
<1>3. H[0] = 1
  BY <1>2
<1>4. \A i \in 1 .. 0 : FALSE
  OBVIOUS
<1>5. Len(ctl) = 0 /\ Len(st.fns) = 0 /\ Len(st.marks) = 1
  BY <1>1 DEF Start
<1>6. ~st.marks[1].unmarked
  BY <1>1 DEF Start
<1>7. (\A p \in 1 .. 1 : p = 1) /\ \A i \in 0 .. 0 : i = 0
  OBVIOUS
<1>8. Heights(st.marks, ctl, H)
  <2>1. \A i, j \in 0 .. 0 : ~(i < j)
    OBVIOUS
  <2> QED BY <1>3, <1>4, <1>5, <1>6, <1>7, <2>1 DEF Heights
<1>9. Lies(st.fns, st.marks, st.gen, ctl, H)
  BY <1>4, <1>5 DEF Lies, Low, HandLow
<1>10. Nested(ctl)
  <2>1. \A i \in 1 .. 0 - 1 : FALSE
    OBVIOUS
  <2> QED BY <1>1, <1>5, <2>1 DEF Nested, Start
<1> QED BY <1>1, <1>8, <1>9, <1>10 DEF HousedInv, HousedAt

\* A step does no harm but where alloc_unmark undoes pending marks as well.
LEMMA HousedSteps ==
  ASSUME HousedInv, [Next]_vars
  PROVE  /\ Spares(st.fns, st'.fns) \/ Len(st'.marks) < Len(st.marks) - 1
         /\ st'.out = "ok" => Nested(ctl') /\ HousedAt(st', ctl')
<1>1. OnceInv /\ MarksInv /\ Types /\ KnownInv(st, ctl)
  BY DEF HousedInv, OnceInv, MarksInv
<1>2. TypeInv(st, ctl) /\ TypeInv(st', ctl')
  BY <1>1, NextSteps DEF Types
<1>3. CASE UNCHANGED vars
  <2>1. st' = st /\ ctl' = ctl
    BY <1>3 DEF vars
  <2> QED BY <2>1, SparesFacts DEF HousedInv
<1>4. CASE st.out = "ok" /\ Steps(st, ctl, st', ctl')
  <2>1. Nested(ctl) /\ HousedAt(st, ctl)
    BY <1>4 DEF HousedInv
  <2>2. Owned(st, ctl) /\ OncePlaced(st, ctl)
    BY <1>1, <1>4 DEF MarksInv, OnceInv
  <2>3. Fine(st, ctl)
    BY <1>1, <1>2, <1>4, <2>1, <2>2 DEF Fine
  <2>4. Fares(st, st', ctl')
    BY <1>2, <1>4, <2>1, <2>3, StepFares
  <2>5. Nested(ctl')
    BY <1>1, <1>2, <1>4, <2>1, StepNested
  <2> QED BY <2>4, <2>5 DEF Fares
<1> QED BY <1>1, <1>3, <1>4, NextSteps

LEMMA HousedStays ==
  ASSUME HousedInv, [Next]_vars PROVE HousedInv'
<1>1. OnceInv' /\ Types
  BY OnceStays DEF HousedInv, OnceInv, MarksInv
<1>2. features' = features
  BY <1>1, NextSteps
<1>3. Nested(ctl') => Nested(ctl)'
  BY <1>2 DEF Nested, Makes
<1>4. HousedAt(st', ctl') => HousedAt(st, ctl)'
  OBVIOUS
<1>5. st'.out = "ok" => Nested(ctl)' /\ HousedAt(st, ctl)'
  BY <1>3, <1>4, HousedSteps
<1> QED BY <1>1, <1>5 DEF HousedInv

\* Whatever the features, a function is damaged in one way only: by an alloc_unmark of the
\* top mark that undoes pending marks under it too, set before its store was allocated. A
\* drop_local_store gives back nothing that a function still needs, and so does an
\* alloc_unmark that undoes one mark, or none.
THEOREM GeneratedDamage == Spec => DamageByPending
<1>1. HousedInv /\ [Next]_vars =>
        [(\E f \in DOMAIN F : F[f].whole /\ ~F'[f].whole) => Place(st') < Place(st) - 1]_vars
  <2>1. SUFFICES ASSUME HousedInv, [Next]_vars, NEW f \in DOMAIN F, F[f].whole, ~F'[f].whole
                 PROVE  Place(st') < Place(st) - 1
    OBVIOUS
  <2>2. st.fns \in Seq(FnType)
    BY <2>1 DEF HousedInv, OnceInv, MarksInv, Types, TypeInv, StOK, StType
  <2>3. f \in 1 .. Len(st.fns)
    BY <2>1, <2>2, LenProperties DEF F
  <2>4. ~Spares(st.fns, st'.fns)
    BY <2>1, <2>3 DEF Spares, F
  <2> QED BY <2>1, <2>4, HousedSteps DEF Place
<1> QED BY <1>1, InitHoused, HousedStays, PTL DEF Spec, DamageByPending

============================================================================
