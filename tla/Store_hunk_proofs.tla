-------------------------- MODULE Store_hunk_proofs --------------------------
(***************************************************************************)
(* Where hunks go, for every value of the constants: no hunk is in two     *)
(* pools of the store allocator, no array of hunks is written past its     *)
(* end, a hunk leaves every pool only in the ways the code is known to     *)
(* lose one, and the allocators and the marks of Store point into the      *)
(* hunks that they count as the last.                                      *)
(***************************************************************************)
EXTENDS Store_proofs

----------------------------------------------------------------------------
(* Sequences as sets.                                                      *)

LEMMA SetOfSeq ==
  ASSUME NEW S, NEW s \in Seq(S)
  PROVE  /\ ToSet(s) = {s[i] : i \in 1 .. Len(s)} /\ ToSet(s) \subseteq S
         /\ IsInjective(s) <=> \A i, j \in 1 .. Len(s) : s[i] = s[j] => i = j
         /\ Len(s) \in Nat
<1>1. DOMAIN s = 1 .. Len(s) /\ Len(s) \in Nat
  BY LenProperties
<1>2. \A i \in 1 .. Len(s) : s[i] \in S
  BY ElementOfSeq
<1> QED BY <1>1, <1>2 DEF ToSet, IsInjective

LEMMA SubsetSeq ==
  ASSUME NEW S, NEW s \in Seq(S), NEW t \in Seq(S),
         \A i \in 1 .. Len(t) : \E j \in 1 .. Len(s) : t[i] = s[j]
  PROVE  ToSet(t) \subseteq ToSet(s)
<1>1. /\ ToSet(s) = {s[i] : i \in 1 .. Len(s)}
      /\ ToSet(t) = {t[i] : i \in 1 .. Len(t)}
  BY SetOfSeq
<1> QED BY <1>1

LEMMA AppendSet ==
  ASSUME NEW S, NEW s \in Seq(S), NEW e \in S
  PROVE  /\ ToSet(Append(s, e)) = ToSet(s) \cup {e}
         /\ IsInjective(s) /\ e \notin ToSet(s) => IsInjective(Append(s, e))
<1> DEFINE t == Append(s, e)
<1>1. /\ t \in Seq(S) /\ Len(t) = Len(s) + 1 /\ Len(s) \in Nat
      /\ \A i \in 1 .. Len(s) : t[i] = s[i]
      /\ t[Len(s) + 1] = e
  BY AppendProperties, LenProperties
<1> HIDE DEF t
<1>2. \A i \in 1 .. Len(t) : i \in 1 .. Len(s) \/ i = Len(s) + 1
  BY <1>1
<1>3. Len(s) + 1 \in 1 .. Len(t) /\ \A i \in 1 .. Len(s) : i \in 1 .. Len(t)
  BY <1>1
<1>4. ToSet(t) = ToSet(s) \cup {e}
  BY <1>1, <1>2, <1>3, SetOfSeq
<1>5. ASSUME IsInjective(s), e \notin ToSet(s) PROVE IsInjective(t)
  <2>1. \A i \in 1 .. Len(s) : s[i] # e
    BY <1>5, SetOfSeq
  <2>2. \A i, j \in 1 .. Len(t) : t[i] = t[j] => i = j
    BY <1>1, <1>2, <1>5, <2>1, SetOfSeq
  <2> QED BY <1>1, <2>2, SetOfSeq
<1> QED BY <1>4, <1>5 DEF t

LEMMA FrontSet ==
  ASSUME NEW S, NEW s \in Seq(S), s # <<>>, IsInjective(s)
  PROVE  /\ ToSet(Front(s)) = ToSet(s) \ {Last(s)}
         /\ IsInjective(Front(s)) /\ Last(s) \in ToSet(s)
<1> DEFINE t == Front(s)
<1>1. /\ t \in Seq(S) /\ Len(t) = Len(s) - 1 /\ Len(s) \in Nat \ {0}
      /\ \A i \in 1 .. Len(s) - 1 : t[i] = s[i]
  BY FrontFacts, EmptySeq
<1>2. Last(s) = s[Len(s)] /\ Len(s) \in 1 .. Len(s)
  BY <1>1 DEF Last
<1> HIDE DEF t
<1>3. \A i, j \in 1 .. Len(s) : s[i] = s[j] => i = j
  BY SetOfSeq
<1>4. \A i \in 1 .. Len(s) : i \in 1 .. Len(t) \/ i = Len(s)
  BY <1>1
<1>5. \A i \in 1 .. Len(t) : i \in 1 .. Len(s) /\ i # Len(s)
  BY <1>1
<1>6. ToSet(t) = ToSet(s) \ {s[Len(s)]}
  <2>1. /\ ToSet(s) = {s[i] : i \in 1 .. Len(s)}
        /\ ToSet(t) = {t[i] : i \in 1 .. Len(t)}
    BY <1>1, SetOfSeq
  <2>2. \A i \in 1 .. Len(t) : t[i] = s[i] /\ i \in 1 .. Len(s) /\ s[i] # s[Len(s)]
    BY <1>1, <1>2, <1>3, <1>5
  <2>3. \A i \in 1 .. Len(s) : s[i] # s[Len(s)] => i \in 1 .. Len(t) /\ s[i] = t[i]
    BY <1>1, <1>4
  <2> QED BY <2>1, <2>2, <2>3
<1>7. IsInjective(t)
  BY <1>1, <1>3, <1>5, SetOfSeq
<1> QED BY <1>2, <1>6, <1>7, SetOfSeq DEF t

LEMMA TailSet ==
  ASSUME NEW S, NEW s \in Seq(S), s # <<>>, IsInjective(s)
  PROVE  /\ ToSet(Tail(s)) = ToSet(s) \ {Head(s)}
         /\ IsInjective(Tail(s)) /\ Head(s) \in ToSet(s)
<1> DEFINE t == Tail(s)
<1>1. /\ t \in Seq(S) /\ Len(t) = Len(s) - 1 /\ Len(s) \in Nat \ {0}
      /\ \A i \in 1 .. Len(t) : t[i] = s[i + 1]
  BY HeadTailProperties, EmptySeq
<1>2. Head(s) = s[1] /\ 1 \in 1 .. Len(s)
  BY <1>1
<1> HIDE DEF t
<1>3. \A i, j \in 1 .. Len(s) : s[i] = s[j] => i = j
  BY SetOfSeq
<1>4. \A i \in 1 .. Len(s) : i = 1 \/ (i - 1 \in 1 .. Len(t) /\ s[i] = t[i - 1])
  BY <1>1
<1>5. \A i \in 1 .. Len(t) : i + 1 \in 1 .. Len(s) /\ i + 1 # 1
  BY <1>1
<1>6. ToSet(t) = ToSet(s) \ {s[1]}
  <2>1. /\ ToSet(s) = {s[i] : i \in 1 .. Len(s)}
        /\ ToSet(t) = {t[i] : i \in 1 .. Len(t)}
    BY <1>1, SetOfSeq
  <2>2. \A i \in 1 .. Len(t) : t[i] = s[i + 1] /\ i + 1 \in 1 .. Len(s) /\ s[i + 1] # s[1]
    BY <1>1, <1>2, <1>3, <1>5
  <2>3. \A i \in 1 .. Len(s) : s[i] # s[1] => i - 1 \in 1 .. Len(t) /\ s[i] = t[i - 1]
    BY <1>4
  <2> QED BY SMTT(30), <2>1, <2>2, <2>3
<1>7. IsInjective(t)
  <2>1. \A i, j \in 1 .. Len(t) : t[i] = t[j] => i + 1 = j + 1
    BY <1>1, <1>3, <1>5
  <2>2. \A i, j \in 1 .. Len(t) : t[i] = t[j] => i = j
    BY <1>1, <2>1
  <2> QED BY <1>1, <2>2, SetOfSeq
<1> QED BY <1>2, <1>6, <1>7, SetOfSeq DEF t

LEMMA ConsSet ==
  ASSUME NEW S, NEW s \in Seq(S), NEW e \in S
  PROVE  /\ <<e>> \o s \in Seq(S)
         /\ ToSet(<<e>> \o s) = ToSet(s) \cup {e}
         /\ IsInjective(s) /\ e \notin ToSet(s) => IsInjective(<<e>> \o s)
<1> DEFINE t == <<e>> \o s
<1>0. <<e>> \in Seq(S) /\ Len(<<e>>) = 1 /\ <<e>>[1] = e
  OBVIOUS
<1>1. /\ t \in Seq(S) /\ Len(t) = 1 + Len(s) /\ Len(s) \in Nat
      /\ \A i \in 1 .. 1 + Len(s) : t[i] = IF i <= 1 THEN e ELSE s[i - 1]
  <2>1. \A i \in 1 .. 1 + Len(s) : i <= 1 => <<e>>[i] = e
    BY LenProperties
  <2> QED BY <1>0, <2>1, ConcatProperties, LenProperties
<1> HIDE DEF t
<1>2. t[1] = e /\ 1 \in 1 .. Len(t)
  BY <1>1
<1>3. \A i \in 1 .. Len(s) : i + 1 \in 1 .. Len(t) /\ t[i + 1] = s[i]
  BY <1>1
<1>4. \A i \in 1 .. Len(t) : i = 1 \/ (i - 1 \in 1 .. Len(s) /\ t[i] = s[i - 1])
  BY <1>1
<1>5. ToSet(t) = ToSet(s) \cup {e}
  <2>1. /\ ToSet(s) = {s[i] : i \in 1 .. Len(s)}
        /\ ToSet(t) = {t[i] : i \in 1 .. Len(t)}
    BY <1>1, SetOfSeq
  <2>2. \A i \in 1 .. Len(t) : t[i] = e \/ \E j \in 1 .. Len(s) : t[i] = s[j]
    BY <1>2, <1>4
  <2>3. \A i \in 1 .. Len(s) : \E j \in 1 .. Len(t) : s[i] = t[j]
    BY <1>3
  <2>4. e \in ToSet(t)
    BY <1>2, <2>1
  <2> HIDE DEF t
  <2> QED BY <2>1, <2>2, <2>3, <2>4
<1>6. ASSUME IsInjective(s), e \notin ToSet(s) PROVE IsInjective(t)
  <2>1. \A i \in 1 .. Len(s) : s[i] # e
    BY <1>6, SetOfSeq
  <2>2. \A i, j \in 1 .. Len(s) : s[i] = s[j] => i = j
    BY <1>6, SetOfSeq
  <2>3. \A i, j \in 1 .. Len(t) : t[i] = t[j] => i = j
    <3> TAKE i, j \in 1 .. Len(t)
    <3> HAVE t[i] = t[j]
    <3>1. i = 1 /\ j # 1 => FALSE
      BY <1>2, <1>4, <2>1
    <3>2. i # 1 /\ j = 1 => FALSE
      BY <1>2, <1>4, <2>1
    <3>3. i # 1 /\ j # 1 => i - 1 = j - 1
      BY <1>4, <2>2
    <3> QED BY <1>1, <3>1, <3>2, <3>3
  <2> QED BY <1>1, <2>3, SetOfSeq
<1> QED BY <1>1, <1>5, <1>6 DEF t

LEMMA SwapSet ==
  ASSUME NEW S, NEW s \in Seq(S), NEW i \in 1 .. Len(s), NEW j \in 1 .. Len(s)
  PROVE  /\ \A k \in 1 .. Len(s) : Swap(s, i, j)[k] = IF k = j THEN s[i]
                                                     ELSE IF k = i THEN s[j] ELSE s[k]
         /\ ToSet(Swap(s, i, j)) = ToSet(s)
         /\ IsInjective(s) => IsInjective(Swap(s, i, j))
<1> DEFINE t == Swap(s, i, j)
<1>1. t \in Seq(S) /\ Len(t) = Len(s)
  BY SwapFacts
<1>2. \A k \in 1 .. Len(s) : t[k] = IF k = j THEN s[i] ELSE IF k = i THEN s[j] ELSE s[k]
  BY DEF Swap
<1> HIDE DEF t
<1>3. ToSet(t) = ToSet(s)
  <2>2. \A k \in 1 .. Len(s) : \E l \in 1 .. Len(s) : t[k] = s[l]
    BY <1>2
  <2>3. \A k \in 1 .. Len(s) : \E l \in 1 .. Len(s) : s[k] = t[l]
    <3> TAKE k \in 1 .. Len(s)
    <3>1. CASE k = i
      <4>1. s[k] = t[j]
        BY <1>2, <3>1
      <4> QED BY <4>1
    <3>2. CASE k = j
      <4>1. s[k] = t[i]
        BY <1>2, <3>2
      <4> QED BY <4>1
    <3>3. CASE k # i /\ k # j
      <4>1. s[k] = t[k]
        BY <1>2, <3>3
      <4> QED BY <4>1
    <3> QED BY <3>1, <3>2, <3>3
  <2>4. ToSet(t) \subseteq ToSet(s) /\ ToSet(s) \subseteq ToSet(t)
    BY <1>1, <2>2, <2>3, SubsetSeq
  <2> QED BY <2>4
<1>4. ASSUME IsInjective(s) PROVE IsInjective(t)
  <2>1. \A k, l \in 1 .. Len(s) : s[k] = s[l] => k = l
    BY <1>4, SetOfSeq
  <2>2. \A k, l \in 1 .. Len(s) : t[k] = t[l] => k = l
    BY <1>2, <2>1
  <2> QED BY <1>1, <2>2, SetOfSeq
<1> QED BY <1>2, <1>3, <1>4 DEF t

LEMMA PrefixSet ==
  ASSUME NEW S, NEW s \in Seq(S), NEW n \in Nat, n <= Len(s), IsInjective(s)
  PROVE  ToSet(SubSeq(s, 1, n)) \subseteq ToSet(s) /\ IsInjective(SubSeq(s, 1, n))
<1> DEFINE t == SubSeq(s, 1, n)
<1>1. t \in Seq(S) /\ Len(t) = n /\ \A i \in 1 .. n : t[i] = s[i]
  BY SubSeqFacts
<1>2. \A i \in 1 .. n : i \in 1 .. Len(s)
  BY LenProperties
<1> HIDE DEF t
<1>3. \A i, j \in 1 .. Len(s) : s[i] = s[j] => i = j
  BY SetOfSeq
<1>4. IsInjective(t)
  BY <1>1, <1>2, <1>3, SetOfSeq
<1>5. ToSet(t) \subseteq ToSet(s)
  BY <1>1, <1>2, SubsetSeq
<1> QED BY <1>4, <1>5 DEF t

LEMMA EmptySet == ToSet(<<>>) = {} /\ IsInjective(<<>>)
BY DEF ToSet, IsInjective

----------------------------------------------------------------------------
(* The pages of Glob.                                                      *)

LEMMA PageSeq ==
  ASSUME NEW p \in Seq(Page)
  PROVE  /\ PageHunks(p) \in Seq(Hunk) /\ Len(PageHunks(p)) = Len(p)
         /\ \A i \in 1 .. Len(p) : PageHunks(p)[i] = p[i].hunk
<1> DEFINE h == PageHunks(p)
<1>1. Len(p) \in Nat /\ \A i \in 1 .. Len(p) : p[i] \in Page
  BY LenProperties, ElementOfSeq
<1>2. \A i \in 1 .. Len(p) : p[i].hunk \in Hunk
  BY <1>1 DEF Page
<1>3. h \in [1 .. Len(p) -> Hunk] /\ DOMAIN h = 1 .. Len(p)
  BY <1>2 DEF PageHunks
<1>4. h \in Seq(Hunk)
  BY <1>1, <1>3, SeqDef
<1>5. 1 .. Len(h) = 1 .. Len(p) /\ Len(h) \in Nat
  <2>1. DOMAIN h = 1 .. Len(h) /\ Len(h) \in Nat
    BY <1>4, LenProperties
  <2> QED BY <1>3, <2>1
<1>6. Len(h) = Len(p)
  BY <1>1, <1>5
<1>7. \A i \in 1 .. Len(p) : h[i] = p[i].hunk
  BY DEF PageHunks
<1> QED BY <1>4, <1>6, <1>7

LEMMA PageAppend ==
  ASSUME NEW p \in Seq(Page), NEW q \in Page
  PROVE  PageHunks(Append(p, q)) = Append(PageHunks(p), q.hunk)
<1> DEFINE s == PageHunks(Append(p, q))
           t == Append(PageHunks(p), q.hunk)
<1>1. /\ Append(p, q) \in Seq(Page) /\ Len(Append(p, q)) = Len(p) + 1 /\ Len(p) \in Nat
      /\ \A i \in 1 .. Len(p) : Append(p, q)[i] = p[i]
      /\ Append(p, q)[Len(p) + 1] = q
  BY AppendProperties, LenProperties
<1>2. PageHunks(p) \in Seq(Hunk) /\ Len(PageHunks(p)) = Len(p) /\ q.hunk \in Hunk
  BY PageSeq DEF Page
<1>3. /\ t \in Seq(Hunk) /\ Len(t) = Len(p) + 1
      /\ \A i \in 1 .. Len(p) : t[i] = PageHunks(p)[i]
      /\ t[Len(p) + 1] = q.hunk
  BY <1>2, AppendProperties
<1>4. /\ s \in Seq(Hunk) /\ Len(s) = Len(p) + 1
      /\ \A i \in 1 .. Len(p) + 1 : s[i] = Append(p, q)[i].hunk
  BY <1>1, PageSeq
<1>5. \A i \in 1 .. Len(p) + 1 : i \in 1 .. Len(p) \/ i = Len(p) + 1
  BY <1>1
<1> HIDE DEF s, t
<1>6. \A i \in 1 .. Len(p) : PageHunks(p)[i] = p[i].hunk
  BY PageSeq
<1>7. \A i \in 1 .. Len(s) : s[i] = t[i]
  BY <1>1, <1>3, <1>4, <1>5, <1>6
<1>8. s = t
  BY <1>3, <1>4, <1>7, SeqEqual
<1> QED BY <1>8 DEF s, t

LEMMA PageFront ==
  ASSUME NEW p \in Seq(Page), p # <<>>
  PROVE  /\ PageHunks(p) # <<>>
         /\ PageHunks(Front(p)) = Front(PageHunks(p))
         /\ Last(PageHunks(p)) = Last(p).hunk
<1> DEFINE s == PageHunks(Front(p))
           t == Front(PageHunks(p))
<1>1. /\ Front(p) \in Seq(Page) /\ Len(Front(p)) = Len(p) - 1 /\ Len(p) \in Nat \ {0}
      /\ \A i \in 1 .. Len(p) - 1 : Front(p)[i] = p[i]
  BY FrontFacts, EmptySeq
<1>2. /\ PageHunks(p) \in Seq(Hunk) /\ Len(PageHunks(p)) = Len(p)
      /\ \A i \in 1 .. Len(p) : PageHunks(p)[i] = p[i].hunk
  BY PageSeq
<1>3. PageHunks(p) # <<>>
  BY <1>1, <1>2, EmptySeq
<1>4. /\ t \in Seq(Hunk) /\ Len(t) = Len(p) - 1
      /\ \A i \in 1 .. Len(p) - 1 : t[i] = PageHunks(p)[i]
  BY <1>2, <1>3, FrontFacts
<1>5. /\ s \in Seq(Hunk) /\ Len(s) = Len(p) - 1
      /\ \A i \in 1 .. Len(p) - 1 : s[i] = Front(p)[i].hunk
  BY <1>1, PageSeq
<1> HIDE DEF s, t
<1>6. \A i \in 1 .. Len(s) : s[i] = t[i]
  <2>1. \A i \in 1 .. Len(p) - 1 : i \in 1 .. Len(p)
    BY <1>1
  <2> QED BY <1>1, <1>2, <1>4, <1>5, <2>1
<1>7. s = t
  BY <1>4, <1>5, <1>6, SeqEqual
<1>8. Last(PageHunks(p)) = Last(p).hunk
  <2>1. Len(p) \in 1 .. Len(p)
    BY <1>1
  <2> QED BY <1>2, <2>1 DEF Last
<1> QED BY <1>3, <1>7, <1>8 DEF s, t

LEMMA PageTail ==
  ASSUME NEW p \in Seq(Page), p # <<>>
  PROVE  /\ PageHunks(p) # <<>>
         /\ PageHunks(Tail(p)) = Tail(PageHunks(p))
         /\ Head(PageHunks(p)) = Head(p).hunk
<1> DEFINE s == PageHunks(Tail(p))
           t == Tail(PageHunks(p))
<1>1. /\ Tail(p) \in Seq(Page) /\ Len(Tail(p)) = Len(p) - 1 /\ Len(p) \in Nat \ {0}
      /\ \A i \in 1 .. Len(Tail(p)) : Tail(p)[i] = p[i + 1]
  BY HeadTailProperties, EmptySeq
<1>2. /\ PageHunks(p) \in Seq(Hunk) /\ Len(PageHunks(p)) = Len(p)
      /\ \A i \in 1 .. Len(p) : PageHunks(p)[i] = p[i].hunk
  BY PageSeq
<1>3. PageHunks(p) # <<>>
  BY <1>1, <1>2, EmptySeq
<1>4. /\ t \in Seq(Hunk) /\ Len(t) = Len(p) - 1
      /\ \A i \in 1 .. Len(t) : t[i] = PageHunks(p)[i + 1]
  BY <1>2, <1>3, HeadTailProperties
<1>5. /\ s \in Seq(Hunk) /\ Len(s) = Len(p) - 1
      /\ \A i \in 1 .. Len(p) - 1 : s[i] = Tail(p)[i].hunk
  BY <1>1, PageSeq
<1> HIDE DEF s, t
<1>6. \A i \in 1 .. Len(s) : s[i] = t[i]
  <2>1. \A i \in 1 .. Len(p) - 1 : i + 1 \in 1 .. Len(p)
    BY <1>1
  <2> QED BY <1>1, <1>2, <1>4, <1>5, <2>1
<1>7. s = t
  BY <1>4, <1>5, <1>6, SeqEqual
<1>8. Head(PageHunks(p)) = Head(p).hunk
  <2>1. 1 \in 1 .. Len(p)
    BY <1>1
  <2>2. Head(PageHunks(p)) = PageHunks(p)[1] /\ Head(p) = p[1]
    BY <1>1, <1>2
  <2> QED BY <1>2, <2>1, <2>2
<1> QED BY <1>3, <1>7, <1>8 DEF s, t

LEMMA PageCons ==
  ASSUME NEW p \in Seq(Page), NEW q \in Page
  PROVE  PageHunks(<<q>> \o p) = <<q.hunk>> \o PageHunks(p)
<1> DEFINE s == PageHunks(<<q>> \o p)
           t == <<q.hunk>> \o PageHunks(p)
<1>1. /\ PageHunks(p) \in Seq(Hunk) /\ Len(PageHunks(p)) = Len(p) /\ q.hunk \in Hunk
      /\ \A i \in 1 .. Len(p) : PageHunks(p)[i] = p[i].hunk /\ Len(p) \in Nat
  BY PageSeq, LenProperties DEF Page
<1>2. /\ <<q>> \in Seq(Page) /\ Len(<<q>>) = 1 /\ <<q>>[1] = q
      /\ <<q.hunk>> \in Seq(Hunk) /\ Len(<<q.hunk>>) = 1 /\ <<q.hunk>>[1] = q.hunk
  BY <1>1
<1>3. /\ <<q>> \o p \in Seq(Page) /\ Len(<<q>> \o p) = 1 + Len(p)
      /\ \A i \in 1 .. 1 + Len(p) : (<<q>> \o p)[i] = IF i <= 1 THEN <<q>>[i] ELSE p[i - 1]
  BY <1>2, ConcatProperties
<1>4. /\ t \in Seq(Hunk) /\ Len(t) = 1 + Len(p)
      /\ \A i \in 1 .. 1 + Len(p) :
           t[i] = IF i <= 1 THEN <<q.hunk>>[i] ELSE PageHunks(p)[i - 1]
  BY <1>1, <1>2, ConcatProperties
<1>5. /\ s \in Seq(Hunk) /\ Len(s) = 1 + Len(p)
      /\ \A i \in 1 .. 1 + Len(p) : s[i] = (<<q>> \o p)[i].hunk
  BY <1>3, PageSeq
<1> HIDE DEF s, t
<1>6. \A i \in 1 .. 1 + Len(p) : s[i] = t[i]
  <2> TAKE i \in 1 .. 1 + Len(p)
  <2>0. Len(p) \in Nat
    BY LenProperties
  <2>1. CASE i <= 1
    <3>1. i = 1
      BY <2>0, <2>1
    <3> QED BY <1>2, <1>3, <1>4, <1>5, <3>1
  <2>2. CASE ~(i <= 1)
    <3>1. i - 1 \in 1 .. Len(p)
      BY <2>0, <2>2
    <3> QED BY <1>1, <1>3, <1>4, <1>5, <2>2, <3>1
  <2> QED BY <2>1, <2>2
<1>7. s = t
  BY <1>4, <1>5, <1>6, SeqEqual
<1> QED BY <1>7 DEF s, t

----------------------------------------------------------------------------
(* What the takers of hunks do to the pool.                                *)

\* The hunks X of Syn and Glob, those of Perm and those that Bind has are all
\* from malloc, none is in two of the three, none twice in Bind.
Apart(s, X) ==
  /\ X \subseteq 1 .. s.chain /\ s.perm \subseteq 1 .. s.chain
  /\ ToSet(s.bindseg) \subseteq 1 .. s.chain /\ IsInjective(s.bindseg)
  /\ X \cap s.perm = {} /\ X \cap ToSet(s.bindseg) = {}
  /\ s.perm \cap ToSet(s.bindseg) = {}

\* The free store of Perm is in one of its hunks.
PermSound(s) ==
  s.permallp = Duff \/ (s.permallp.hunk \in s.perm /\ s.permallp.off <= SEGSIZE)

\* Store of Perm up to offset e of hunk h, which will not be handed out again.
PermUpTo(s, h, e) ==
  h \in s.perm /\ e <= IF h = s.permallp.hunk THEN s.permallp.off ELSE SEGSIZE

\* What happens to the pool from s to t: spares leave from the end of bindseg,
\* Perm grows, and segmax does.
Passes(s, t) ==
  /\ Keeps(s, t)
  /\ \A i \in 1 .. Len(t.bindseg) : t.bindseg[i] = s.bindseg[i]
  /\ s.segmax <= t.segmax
  /\ t.err \in {s.err, "space", "overlarge"}
  /\ \A X : Apart(s, X) => Apart(t, X)
  /\ Apart(s, {}) /\ PermSound(s) =>
       /\ PermSound(t)
       /\ \A h : \A e \in Nat : PermUpTo(s, h, e) => PermUpTo(t, h, e)

LEMMA PassesTransitive ==
  ASSUME NEW s \in PoolType, NEW t, NEW u, Passes(s, t), Passes(t, u)
  PROVE  Passes(s, u)
<1>1. Keeps(s, u) /\ t \in PoolType /\ u \in PoolType
  BY KeepsTransitive DEF Passes, Keeps
<1>2. s.segmax <= u.segmax
  BY <1>1, PoolFields DEF Passes
<1>3. \A i \in 1 .. Len(u.bindseg) : u.bindseg[i] = s.bindseg[i]
  <2>1. /\ Len(u.bindseg) <= Len(t.bindseg)
        /\ Len(u.bindseg) \in Nat /\ Len(t.bindseg) \in Nat
    BY <1>1, PoolFields DEF Passes, Keeps
  <2>2. \A i \in 1 .. Len(u.bindseg) : i \in 1 .. Len(t.bindseg)
    BY <2>1
  <2> QED BY <2>2 DEF Passes
<1>4. u.err \in {s.err, "space", "overlarge"}
  BY DEF Passes
<1>5. \A X : Apart(s, X) => Apart(u, X)
  BY DEF Passes
<1>6. Apart(s, {}) /\ PermSound(s) =>
       /\ PermSound(u)
       /\ \A h : \A e \in Nat : PermUpTo(s, h, e) => PermUpTo(u, h, e)
  BY DEF Passes
<1> QED BY <1>1, <1>2, <1>3, <1>4, <1>5, <1>6 DEF Passes

LEMMA PassesSelf == ASSUME NEW s \in PoolType PROVE Passes(s, s)
<1>1. Keeps(s, s)
  BY PoolFields DEF Keeps
<1> QED BY <1>1, PoolFields DEF Passes

\* An update of fields that say nothing about hunks.
LEMMA PassesError ==
  ASSUME NEW s \in PoolType, NEW e \in {"space", "overlarge"}
  PROVE  Passes(s, [s EXCEPT !.err = e])
<1> DEFINE t == [s EXCEPT !.err = e]
<1>1. /\ t \in PoolType /\ t.err = e /\ t.segmax = s.segmax /\ t.chain = s.chain
      /\ t.perm = s.perm /\ t.permallp = s.permallp /\ t.bindseg = s.bindseg
      /\ t.bindsegcur = s.bindsegcur
  BY DEF PoolType, Errors
<1> HIDE DEF t
<1>2. Keeps(s, t)
  BY <1>1, PoolFields DEF Keeps
<1>3. \A X : Apart(s, X) => Apart(t, X)
  BY <1>1 DEF Apart
<1>4. /\ PermSound(s) => PermSound(t)
      /\ \A h : \A x \in Nat : PermUpTo(s, h, x) => PermUpTo(t, h, x)
  BY <1>1 DEF PermSound, PermUpTo
<1> QED BY SMTT(30), <1>1, <1>2, <1>3, <1>4, PoolFields DEF Passes, t

LEMMA SpareLeaves ==
  ASSUME NEW s \in PoolType, NEW X, Apart(s, X), Spare(s)
  PROVE  LET t == [s EXCEPT !.bindseg = Front(s.bindseg)]
         IN  /\ Apart(t, X \cup {Last(s.bindseg)})
             /\ Last(s.bindseg) \notin X \cup s.perm
<1> DEFINE t == [s EXCEPT !.bindseg = Front(s.bindseg)]
           h == Last(s.bindseg)
<1>1. s.bindseg \in Seq(Hunk) /\ s.bindseg # <<>> /\ IsInjective(s.bindseg)
  BY PoolFields, EmptySeq DEF Spare, Apart
<1>2. /\ ToSet(Front(s.bindseg)) = ToSet(s.bindseg) \ {h}
      /\ IsInjective(Front(s.bindseg)) /\ h \in ToSet(s.bindseg)
  BY <1>1, FrontSet
<1>3. t.bindseg = Front(s.bindseg) /\ t.chain = s.chain /\ t.perm = s.perm
  BY DEF PoolType
<1> HIDE DEF t, h
<1>4. Apart(t, X \cup {h}) /\ h \notin X \cup s.perm
  BY <1>2, <1>3 DEF Apart
<1> QED BY <1>4 DEF t, h

LEMMA FreshHunk ==
  ASSUME NEW s \in PoolType, NEW X, Apart(s, X)
  PROVE  LET t == [s EXCEPT !.chain = s.chain + 1]
         IN  /\ Apart(t, X \cup {s.chain + 1})
             /\ s.chain + 1 \notin X \cup s.perm
<1> DEFINE t == [s EXCEPT !.chain = s.chain + 1]
           h == s.chain + 1
<1>1. t.bindseg = s.bindseg /\ t.chain = h /\ t.perm = s.perm /\ s.chain \in Nat
  BY PoolFields DEF PoolType
<1>2. 1 .. s.chain \subseteq 1 .. h /\ h \in 1 .. h /\ h \notin 1 .. s.chain
  BY <1>1
<1> HIDE DEF t, h
<1>3. Apart(t, X \cup {h}) /\ h \notin X \cup s.perm
  BY <1>1, <1>2 DEF Apart
<1> QED BY <1>3 DEF t, h

\* With fewer hunks elsewhere the pools are apart all the more.
LEMMA ApartLess ==
  ASSUME NEW s, NEW X, NEW Y, Apart(s, X), Y \subseteq X
  PROVE  Apart(s, Y)
BY DEF Apart

LEMMA TakeHunkPasses ==
  ASSUME NEW s \in PoolType
  PROVE  /\ Passes(s, TakeHunk(s))
         /\ TakeHunk(s).err \in {s.err, "space"}
         /\ TakeHunk(s).segmax = s.segmax /\ TakeHunk(s).perm = s.perm
         /\ TakeHunk(s).permallp = s.permallp
         /\ TakeHunk(s).err = "none" =>
              /\ HunkFor(s) \in Hunk
              /\ \A X : Apart(s, X) => /\ Apart(TakeHunk(s), X \cup {HunkFor(s)})
                                       /\ HunkFor(s) \notin X \cup s.perm
<1> DEFINE t == TakeHunk(s)
           h == HunkFor(s)
<1>1. Keeps(s, t) /\ (t.err = "none" => h \in Hunk)
  BY TakeHunkKeeps
<1>2. CASE Spare(s)
  <2>1. t = [s EXCEPT !.bindseg = Front(s.bindseg)] /\ h = Last(s.bindseg)
    BY <1>2 DEF TakeHunk, HunkFor
  <2>2. /\ t.segmax = s.segmax /\ t.perm = s.perm /\ t.permallp = s.permallp
        /\ t.err = s.err /\ t.bindseg = Front(s.bindseg)
    BY <2>1 DEF PoolType
  <2>3. \A X : Apart(s, X) => Apart(t, X \cup {h}) /\ h \notin X \cup s.perm
    BY <1>2, <2>1, SpareLeaves
  <2>4. s.bindseg \in Seq(Hunk) /\ s.bindseg # <<>>
    BY <1>2, PoolFields, EmptySeq DEF Spare
  <2>5. \A i \in 1 .. Len(t.bindseg) : t.bindseg[i] = s.bindseg[i]
    BY <2>2, <2>4, FrontFacts
  <2> HIDE DEF t, h
  <2>6. \A X : Apart(s, X) => Apart(t, X)
    <3> TAKE X
    <3> HAVE Apart(s, X)
    <3>1. Apart(t, X \cup {h})
      BY <2>3
    <3> QED BY <3>1, ApartLess
  <2>7. /\ PermSound(s) => PermSound(t)
        /\ \A x : \A e \in Nat : PermUpTo(s, x, e) => PermUpTo(t, x, e)
    BY <2>2 DEF PermSound, PermUpTo
  <2>8. s.segmax <= t.segmax
    BY <2>2, PoolFields
  <2> QED BY <1>1, <2>2, <2>3, <2>5, <2>6, <2>7, <2>8 DEF Passes, t, h
<1>3. CASE ~Spare(s) /\ s.chain < MaxHunks
  <2>1. t = [s EXCEPT !.chain = s.chain + 1] /\ h = s.chain + 1
    BY <1>3 DEF TakeHunk, HunkFor, CcAlloc
  <2>2. /\ t.segmax = s.segmax /\ t.perm = s.perm /\ t.permallp = s.permallp
        /\ t.err = s.err /\ t.bindseg = s.bindseg
    BY <2>1 DEF PoolType
  <2>3. \A X : Apart(s, X) => Apart(t, X \cup {h}) /\ h \notin X \cup s.perm
    BY <2>1, FreshHunk
  <2> HIDE DEF t, h
  <2>6. \A X : Apart(s, X) => Apart(t, X)
    <3> TAKE X
    <3> HAVE Apart(s, X)
    <3>1. Apart(t, X \cup {h})
      BY <2>3
    <3> QED BY <3>1, ApartLess
  <2>7. /\ PermSound(s) => PermSound(t)
        /\ \A x : \A e \in Nat : PermUpTo(s, x, e) => PermUpTo(t, x, e)
    BY <2>2 DEF PermSound, PermUpTo
  <2>8. s.segmax <= t.segmax
    BY <2>2, PoolFields
  <2> QED BY <1>1, <2>2, <2>3, <2>6, <2>7, <2>8 DEF Passes, t, h
<1>4. CASE ~Spare(s) /\ ~(s.chain < MaxHunks)
  <2>1. t = [s EXCEPT !.err = "space"]
    BY <1>4 DEF TakeHunk, CcAlloc
  <2>2. /\ t.segmax = s.segmax /\ t.perm = s.perm /\ t.permallp = s.permallp
        /\ t.err = "space"
    BY <2>1 DEF PoolType
  <2>3. Passes(s, t)
    BY <2>1, PassesError
  <2> QED BY <2>2, <2>3
<1> QED BY <1>2, <1>3, <1>4

LEMMA CcAllocPasses ==
  ASSUME NEW s \in PoolType
  PROVE  /\ Passes(s, CcAlloc(s))
         /\ CcAlloc(s).segmax = s.segmax /\ CcAlloc(s).bindseg = s.bindseg
         /\ CcAlloc(s).bindsegcur = s.bindsegcur
         /\ CcAlloc(s).err = "none" =>
              /\ s.chain + 1 \in Hunk
              /\ \A X : Apart(s, X) => /\ Apart(CcAlloc(s), X \cup {s.chain + 1})
                                       /\ s.chain + 1 \notin X \cup s.perm
<1> DEFINE t == CcAlloc(s)
           h == s.chain + 1
<1>1. Keeps(s, t) /\ (t.err = "none" => h \in Hunk)
  BY CcAllocKeeps
<1>2. CASE s.chain < MaxHunks
  <2>1. t = [s EXCEPT !.chain = s.chain + 1]
    BY <1>2 DEF CcAlloc
  <2>2. /\ t.segmax = s.segmax /\ t.perm = s.perm /\ t.permallp = s.permallp
        /\ t.err = s.err /\ t.bindseg = s.bindseg /\ t.bindsegcur = s.bindsegcur
    BY <2>1 DEF PoolType
  <2>3. \A X : Apart(s, X) => Apart(t, X \cup {h}) /\ h \notin X \cup s.perm
    BY <2>1, FreshHunk
  <2> HIDE DEF t, h
  <2>4. \A X : Apart(s, X) => Apart(t, X)
    <3> TAKE X
    <3> HAVE Apart(s, X)
    <3>1. Apart(t, X \cup {h})
      BY <2>3
    <3> QED BY <3>1, ApartLess
  <2>5. /\ PermSound(s) => PermSound(t)
        /\ \A x : \A e \in Nat : PermUpTo(s, x, e) => PermUpTo(t, x, e)
    BY <2>2 DEF PermSound, PermUpTo
  <2>6. s.segmax <= t.segmax
    BY <2>2, PoolFields
  <2> QED BY <1>1, <2>2, <2>3, <2>4, <2>5, <2>6 DEF Passes, t, h
<1>3. CASE ~(s.chain < MaxHunks)
  <2>1. t = [s EXCEPT !.err = "space"]
    BY <1>3 DEF CcAlloc
  <2>2. /\ t.segmax = s.segmax /\ t.bindseg = s.bindseg /\ t.err = "space"
        /\ t.bindsegcur = s.bindsegcur
    BY <2>1 DEF PoolType
  <2>3. Passes(s, t)
    BY <2>1, PassesError
  <2> QED BY <2>2, <2>3
<1> QED BY <1>2, <1>3

\* PermAlloc: what it hands out lies above all that Perm had handed out in the
\* same hunk.
LEMMA PermAllocPasses ==
  ASSUME NEW s \in PoolType, NEW n \in Nat
  PROVE  /\ Passes(s, PermAlloc(s, n)) /\ PermAlloc(s, n).segmax = s.segmax
         /\ PermAlloc(s, n).err = "none" /\ Apart(s, {}) /\ PermSound(s) =>
              /\ PermAlloc(s, n).permallp.hunk \in PermAlloc(s, n).perm
              /\ PermAlloc(s, n).permallp.off <= SEGSIZE
              /\ \A h : \A e \in Nat :
                   PermUpTo(s, h, e) /\ h = PermAlloc(s, n).permallp.hunk =>
                     e <= PermAlloc(s, n).permallp.off - n
<1> DEFINE t == PermAlloc(s, n)
<1>1. Keeps(s, t)
  BY PermAllocKeeps
<1>2. CASE n > SEGSIZE
  <2>1. t = [s EXCEPT !.err = "overlarge"]
    BY <1>2 DEF PermAlloc
  <2>2. t.segmax = s.segmax /\ t.err = "overlarge"
    BY <2>1 DEF PoolType
  <2>3. Passes(s, t)
    BY <2>1, PassesError
  <2> QED BY <2>2, <2>3
<1>3. CASE ~(n > SEGSIZE) /\ Fits(s.permallp, n, SEGSIZE)
  <2> DEFINE p == Advance(s.permallp, n)
  <2>1. t = [s EXCEPT !.permallp = p]
    BY <1>3 DEF PermAlloc
  <2>2. /\ s.permallp \in Pointer /\ s.permallp # Duff /\ s.permallp.off + n <= SEGSIZE
        /\ p = [s.permallp EXCEPT !.off = s.permallp.off + n]
    BY <1>3, PoolFields DEF Fits, Advance
  <2>3. /\ p.hunk = s.permallp.hunk /\ p.off = s.permallp.off + n /\ p # Duff
        /\ s.permallp.off \in Nat /\ p.off <= SEGSIZE
    <3>1. p.hunk = s.permallp.hunk /\ p.off = s.permallp.off + n /\ s.permallp.off \in Nat
      BY <2>2 DEF Pointer
    <3>2. CASE p = Duff
      <4> HIDE DEF p
      <4>0. p.hunk = 0 /\ p.off = 0
        BY <3>2 DEF Duff
      <4>1. s.permallp.hunk = 0 /\ s.permallp.off = 0
        BY <3>1, <4>0
      <4>2. s.permallp = Duff
        BY <2>2, <4>1 DEF Pointer, Duff
      <4> QED BY <2>2, <4>2
    <3> QED BY <2>2, <3>1, <3>2
  <2>4. /\ t.segmax = s.segmax /\ t.perm = s.perm /\ t.permallp = p
        /\ t.chain = s.chain /\ t.err = s.err /\ t.bindseg = s.bindseg
    BY <2>1 DEF PoolType
  <2> HIDE DEF t, p
  <2>5. \A X : Apart(s, X) => Apart(t, X)
    BY <2>4 DEF Apart
  <2>6. PermSound(s) => /\ PermSound(t) /\ t.permallp.hunk \in t.perm
                        /\ t.permallp.off <= SEGSIZE
    BY <2>2, <2>3, <2>4 DEF PermSound
  <2>7. \A h : \A e \in Nat : PermUpTo(s, h, e) =>
          PermUpTo(t, h, e) /\ (h = t.permallp.hunk => e <= t.permallp.off - n)
    BY <2>3, <2>4 DEF PermUpTo
  <2>8. Passes(s, t)
    BY <1>1, <2>4, <2>5, <2>6, <2>7, PoolFields DEF Passes, t
  <2> QED BY <2>4, <2>6, <2>7, <2>8 DEF t
<1>4. CASE ~(n > SEGSIZE) /\ ~Fits(s.permallp, n, SEGSIZE)
  <2> DEFINE u == TakeHunk(s)
             h == HunkFor(s)
             q == [hunk |-> h, off |-> n]
  <2>1. t = IF u.err # "none" THEN u
            ELSE [u EXCEPT !.perm = u.perm \cup {h}, !.permallp = q]
    <3>1. t = NewPermSegment(s, n)
      BY <1>4 DEF PermAlloc
    <3> QED BY <3>1 DEF NewPermSegment
  <2>2. /\ Passes(s, u) /\ u.err \in {s.err, "space"} /\ u.segmax = s.segmax
        /\ u.perm = s.perm /\ u.permallp = s.permallp
        /\ u.err = "none" =>
             /\ h \in Hunk
             /\ \A X : Apart(s, X) => Apart(u, X \cup {h}) /\ h \notin X \cup s.perm
    BY TakeHunkPasses
  <2>3. u \in PoolType /\ q.hunk = h /\ q.off = n
    BY <2>2 DEF Passes, Keeps
  <2> HIDE DEF u, h, q
  <2>4. CASE u.err # "none"
    BY <2>1, <2>2, <2>4
  <2>5. CASE u.err = "none"
    <3>1. /\ t.segmax = u.segmax /\ t.perm = u.perm \cup {h} /\ t.permallp = q
          /\ t.chain = u.chain /\ t.err = u.err /\ t.bindseg = u.bindseg
      BY <2>1, <2>3, <2>5 DEF PoolType
    <3> HIDE DEF t
    <3>2. \A X : Apart(s, X) => Apart(t, X)
      <4> TAKE X
      <4> HAVE Apart(s, X)
      <4>1. Apart(u, X \cup {h}) /\ h \notin X
        BY <2>2, <2>5
      <4> QED BY <3>1, <4>1 DEF Apart
    <3>3. PermSound(t) /\ t.permallp.hunk \in t.perm /\ t.permallp.off <= SEGSIZE
      BY <1>4, <2>3, <3>1, SizesNat DEF PermSound
    <3>4. Apart(s, {}) => h \notin s.perm
      BY <2>2, <2>5
    <3>5. \A x : \A e \in Nat : PermUpTo(s, x, e) /\ PermSound(s) /\ Apart(s, {}) =>
            PermUpTo(t, x, e) /\ x # t.permallp.hunk
      <4> TAKE x
      <4> TAKE e \in Nat
      <4> HAVE PermUpTo(s, x, e) /\ PermSound(s) /\ Apart(s, {})
      <4>1. x \in s.perm /\ x # h
        BY <3>4 DEF PermUpTo
      <4>2. x # t.permallp.hunk /\ x \in t.perm
        BY <2>2, <2>3, <3>1, <4>1
      <4>3. e <= SEGSIZE
        <5>1. CASE x = s.permallp.hunk /\ s.permallp # Duff
          <6>1. s.permallp.off <= SEGSIZE /\ e <= s.permallp.off /\ s.permallp.off \in Nat
            BY <5>1, PoolFields DEF PermSound, PermUpTo, Pointer
          <6> QED BY <6>1, SizesNat
        <5>2. CASE x = s.permallp.hunk /\ s.permallp = Duff
          <6>1. e <= 0
            BY <5>2 DEF PermUpTo, Duff
          <6> QED BY <6>1, SizesNat
        <5>3. CASE x # s.permallp.hunk
          BY <5>3 DEF PermUpTo
        <5> QED BY <5>1, <5>2, <5>3
      <4> QED BY <4>2, <4>3 DEF PermUpTo
    <3>6. Passes(s, t)
      <4>1. /\ s.segmax <= t.segmax
            /\ \A i \in 1 .. Len(t.bindseg) : t.bindseg[i] = s.bindseg[i]
            /\ t.err \in {s.err, "space", "overlarge"}
        BY <2>2, <3>1 DEF Passes
      <4> QED BY <1>1, <3>2, <3>3, <3>5, <4>1 DEF Passes, t
    <3> QED BY <2>2, <3>1, <3>3, <3>5, <3>6 DEF t
  <2> QED BY <2>4, <2>5
<1> QED BY <1>2, <1>3, <1>4

\* expand_segmax, and the room that the callers then have.
LEMMA ExpandSegmaxPasses ==
  ASSUME NEW s \in PoolType, NEW m \in Nat, s.segmax <= m
  PROVE  Passes(s, ExpandSegmax(s, m)) /\ ExpandSegmax(s, m).segmax = m
<1> DEFINE P(t) == PermAlloc(t, ArrayWords(m))
<1>1. \A t : t \in PoolType => Passes(t, P(t)) /\ P(t).segmax = t.segmax
  BY PermAllocPasses, ArrayWordsNat
<1> DEFINE a == P(s)  b == P(a)  c == P(b)  d == P(c)  e == P(d)  f == P(e)
<1>2. /\ a \in PoolType /\ b \in PoolType /\ c \in PoolType /\ d \in PoolType
      /\ e \in PoolType /\ f \in PoolType
  <2> HIDE DEF P
  <2> QED BY <1>1 DEF Passes, Keeps
<1>3. /\ Passes(s, a) /\ Passes(a, b) /\ Passes(b, c) /\ Passes(c, d)
      /\ Passes(d, e) /\ Passes(e, f) /\ f.segmax = s.segmax
  <2> HIDE DEF P
  <2> QED BY <1>1, <1>2
<1>4. ExpandSegmax(s, m) = [f EXCEPT !.segmax = m]
  BY DEF ExpandSegmax
<1> HIDE DEF a, b, c, d, e, f, P
<1>5. Passes(s, f)
  BY <1>2, <1>3, PassesTransitive
<1> DEFINE t == ExpandSegmax(s, m)
<1>6. /\ t.segmax = m /\ t.perm = f.perm /\ t.permallp = f.permallp
      /\ t.chain = f.chain /\ t.err = f.err /\ t.bindseg = f.bindseg
  BY <1>2, <1>4 DEF PoolType
<1>7. Keeps(s, t)
  BY ExpandSegmaxKeeps
<1> HIDE DEF t
<1>8. \A X : Apart(f, X) => Apart(t, X)
  BY <1>6 DEF Apart
<1>9. /\ PermSound(f) => PermSound(t)
      /\ \A h : \A x \in Nat : PermUpTo(f, h, x) => PermUpTo(t, h, x)
  BY <1>6 DEF PermSound, PermUpTo
<1>10. Passes(s, t)
  BY <1>5, <1>6, <1>7, <1>8, <1>9 DEF Passes
<1> QED BY <1>6, <1>10 DEF t

LEMMA RoomPasses ==
  ASSUME NEW s \in PoolType, NEW cnt \in Nat
  PROVE  /\ Passes(s, Room(s, cnt))
         /\ s.segmax > 0 /\ cnt <= s.segmax => cnt < Room(s, cnt).segmax
<1>1. s.segmax \in Nat /\ SEGMAX_FACTOR \in Nat /\ SEGMAX_FACTOR >= 2
  BY PoolFields, StoreAssumption
<1>2. CASE cnt >= s.segmax
  <2> DEFINE m == s.segmax * SEGMAX_FACTOR
  <2>1. m \in Nat /\ s.segmax <= m /\ (s.segmax > 0 => s.segmax < m)
    <3>1. m = s.segmax * 2 + s.segmax * (SEGMAX_FACTOR - 2)
      BY <1>1
    <3>2. s.segmax * (SEGMAX_FACTOR - 2) \in Nat
      BY <1>1
    <3> HIDE DEF m
    <3> QED BY <1>1, <3>1, <3>2
  <2>2. Room(s, cnt) = ExpandSegmax(s, m)
    BY <1>2 DEF Room
  <2> HIDE DEF m
  <2>3. Passes(s, Room(s, cnt)) /\ Room(s, cnt).segmax = m
    BY <2>1, <2>2, ExpandSegmaxPasses
  <2> QED BY <1>1, <2>1, <2>3
<1>3. CASE ~(cnt >= s.segmax)
  <2>1. Room(s, cnt) = s
    BY <1>3 DEF Room
  <2> QED BY <1>1, <1>3, <2>1, PassesSelf
<1> QED BY <1>2, <1>3

----------------------------------------------------------------------------
(* Glob's pages.                                                           *)

HunksOf(g) == ToSet(PageHunks(g.seg)) \cup ToSet(PageHunks(g.os))

PagesApart(g) ==
  /\ IsInjective(PageHunks(g.seg)) /\ IsInjective(PageHunks(g.os))
  /\ ToSet(PageHunks(g.seg)) \cap ToSet(PageHunks(g.os)) = {}

\* Hunks X apart from those of Glob, and all of them from the pool's.
GlobApart(s, X, g) ==
  Apart(s, X \cup HunksOf(g)) /\ X \cap HunksOf(g) = {} /\ PagesApart(g)

\* A page with a hunk from elsewhere is added to those in use.
LEMMA PageAdded ==
  ASSUME NEW s, NEW X, NEW g \in GlobType, NEW page \in Page, NEW t,
         t.seg = Append(g.seg, page), t.os = g.os,
         page.hunk \notin X \cup HunksOf(g),
         Apart(s, X \cup HunksOf(g) \cup {page.hunk}), X \cap HunksOf(g) = {}, PagesApart(g)
  PROVE  GlobApart(s, X, t) /\ Len(t.seg) = Len(g.seg) + 1
<1> DEFINE A == PageHunks(g.seg)
           O == PageHunks(g.os)
           B == PageHunks(t.seg)
           h == page.hunk
<1>1. g.seg \in Seq(Page) /\ A \in Seq(Hunk) /\ h \in Hunk
  BY GlobFields, PageSeq DEF Page
<1>2. B = Append(A, h)
  BY <1>1, PageAppend
<1>3. h \notin ToSet(A) /\ h \notin ToSet(O) /\ IsInjective(A)
  BY DEF HunksOf, PagesApart
<1>4. ToSet(B) = ToSet(A) \cup {h} /\ IsInjective(B)
  <2> HIDE DEF A, B, h
  <2> QED BY <1>1, <1>2, <1>3, AppendSet
<1>5. HunksOf(t) = HunksOf(g) \cup {h}
  BY <1>4 DEF HunksOf
<1>6. PagesApart(t)
  BY <1>3, <1>4 DEF PagesApart
<1>7. Len(t.seg) = Len(g.seg) + 1
  BY <1>1, AppendProperties
<1>8. X \cup HunksOf(t) = X \cup HunksOf(g) \cup {h} /\ X \cap HunksOf(t) = {}
  BY <1>5
<1> QED BY <1>6, <1>7, <1>8 DEF GlobApart

\* An oversize page kept from an earlier file is taken into use.
LEMMA PageTaken ==
  ASSUME NEW s, NEW X, NEW g \in GlobType, NEW t, g.os # <<>>,
         t.seg = Append(g.seg, Head(g.os)), t.os = Tail(g.os), GlobApart(s, X, g)
  PROVE  GlobApart(s, X, t) /\ Len(t.seg) = Len(g.seg) + 1
<1> DEFINE A == PageHunks(g.seg)
           O == PageHunks(g.os)
           B == PageHunks(t.seg)
           Q == PageHunks(t.os)
           h == Head(g.os).hunk
<1>1. /\ g.seg \in Seq(Page) /\ A \in Seq(Hunk) /\ g.os \in Seq(Page) /\ O \in Seq(Hunk)
      /\ Head(g.os) \in Page
  BY GlobFields, PageSeq, HeadTailProperties
<1>2. B = Append(A, h) /\ h \in Hunk
  BY <1>1, PageAppend DEF Page
<1>3. Q = Tail(O) /\ Head(O) = h /\ O # <<>>
  BY <1>1, PageTail
<1>4. IsInjective(A) /\ IsInjective(O) /\ ToSet(A) \cap ToSet(O) = {}
  BY DEF GlobApart, PagesApart
<1>5. ToSet(Q) = ToSet(O) \ {h} /\ IsInjective(Q) /\ h \in ToSet(O)
  <2> HIDE DEF O, Q, h
  <2> QED BY <1>1, <1>3, <1>4, TailSet
<1>6. ToSet(B) = ToSet(A) \cup {h} /\ IsInjective(B)
  <2>1. h \notin ToSet(A)
    BY <1>4, <1>5
  <2> HIDE DEF A, B, h
  <2> QED BY <1>1, <1>2, <1>4, <2>1, AppendSet
<1>7. HunksOf(t) = HunksOf(g)
  BY <1>5, <1>6 DEF HunksOf
<1>8. PagesApart(t)
  BY <1>4, <1>5, <1>6 DEF PagesApart
<1>9. Len(t.seg) = Len(g.seg) + 1
  BY <1>1, AppendProperties
<1> QED BY <1>7, <1>8, <1>9 DEF GlobApart

LEMMA NewGlobalSegmentPasses ==
  ASSUME NEW s \in PoolType, NEW g \in GlobType, NEW n \in Nat
  PROVE  LET r == NewGlobalSegment(s, g, n)
         IN  /\ Passes(s, r.pool)
             /\ r.pool.err = "none" =>
                  /\ \A X : GlobApart(s, X, g) => GlobApart(r.pool, X, r.glob)
                  /\ s.segmax > 0 /\ Len(g.seg) <= s.segmax =>
                       Len(r.glob.seg) <= r.pool.segmax
<1> DEFINE r    == NewGlobalSegment(s, g, n)
           u    == Room(s, Len(g.seg))
           page == IF g.os # <<>> THEN Head(g.os) ELSE [hunk |-> HunkFor(u), size |-> SEGSIZE]
           t    == IF g.os # <<>> THEN u ELSE TakeHunk(u)
           os   == IF g.os # <<>> THEN Tail(g.os) ELSE <<>>
<1>1. Passes(s, u) /\ u \in PoolType /\ Len(g.seg) \in Nat
  BY RoomPasses, GlobFields DEF Passes, Keeps
<1>2. s.segmax > 0 /\ Len(g.seg) <= s.segmax => Len(g.seg) < u.segmax
  BY RoomPasses, GlobFields
<1>3. r.pool = t /\ r.glob.seg = Append(g.seg, page) /\ r.glob.os = os
  BY DEF NewGlobalSegment
<1> HIDE DEF r, u
<1>4. CASE g.os # <<>>
  <2>1. t = u /\ page = Head(g.os) /\ os = Tail(g.os)
    BY <1>4
  <2>2. \A X : GlobApart(s, X, g) => GlobApart(u, X, g)
    BY <1>1 DEF Passes, GlobApart
  <2> HIDE DEF t, page, os
  <2>3. \A X : GlobApart(u, X, g) =>
          GlobApart(u, X, r.glob) /\ Len(r.glob.seg) = Len(g.seg) + 1
    BY <1>3, <1>4, <2>1, PageTaken
  <2>4. Len(r.glob.seg) = Len(g.seg) + 1
    <3>1. page \in Page
      BY <1>4, <2>1, GlobFields, HeadTailProperties
    <3> QED BY <1>3, <3>1, GlobFields, AppendProperties
  <2>5. u.segmax \in Nat
    BY <1>1, PoolFields
  <2> QED BY <1>1, <1>2, <1>3, <2>1, <2>2, <2>3, <2>4, <2>5 DEF r
<1>5. CASE g.os = <<>>
  <2>1. t = TakeHunk(u) /\ page = [hunk |-> HunkFor(u), size |-> SEGSIZE] /\ os = g.os
    BY <1>5
  <2>2. /\ Passes(u, t)
        /\ t.segmax = u.segmax
        /\ t.err = "none" =>
             /\ HunkFor(u) \in Hunk
             /\ \A X : Apart(u, X) => Apart(t, X \cup {HunkFor(u)}) /\ HunkFor(u) \notin X
    BY <1>1, <2>1, TakeHunkPasses
  <2> HIDE DEF t, os
  <2>3. Passes(s, t)
    BY <1>1, <2>2, PassesTransitive
  <2>4. ASSUME t.err = "none" PROVE page \in Page /\ page.hunk = HunkFor(u)
    BY <2>1, <2>2, <2>4, SizesNat DEF Page
  <2> HIDE DEF page
  <2>5. ASSUME t.err = "none", NEW X, GlobApart(s, X, g)
        PROVE  GlobApart(t, X, r.glob)
    <3>1. Apart(u, X \cup HunksOf(g)) /\ X \cap HunksOf(g) = {} /\ PagesApart(g)
      BY <1>1, <2>5 DEF Passes, GlobApart
    <3>2. /\ Apart(t, X \cup HunksOf(g) \cup {page.hunk})
          /\ page.hunk \notin X \cup HunksOf(g)
      BY <2>2, <2>4, <2>5, <3>1
    <3> QED BY <1>3, <2>1, <2>4, <2>5, <3>1, <3>2, PageAdded
  <2>6. ASSUME t.err = "none" PROVE Len(r.glob.seg) = Len(g.seg) + 1
    BY <1>3, <2>4, <2>6, GlobFields, AppendProperties
  <2>7. u.segmax \in Nat
    BY <1>1, PoolFields
  <2> QED BY <1>1, <1>2, <1>3, <2>2, <2>3, <2>5, <2>6, <2>7 DEF r
<1> QED BY <1>4, <1>5

LEMMA GlobAllocPasses ==
  ASSUME NEW s \in PoolType, NEW g \in GlobType, NEW n \in Nat
  PROVE  LET r == GlobAlloc(s, g, n)
         IN  /\ Passes(s, r.pool)
             /\ r.pool.err = "none" =>
                  /\ \A X : GlobApart(s, X, g) => GlobApart(r.pool, X, r.glob)
                  /\ s.segmax > 0 /\ Len(g.seg) <= s.segmax =>
                       Len(r.glob.seg) <= r.pool.segmax
<1> DEFINE r == GlobAlloc(s, g, n)
<1>1. CASE n > SEGSIZE
  <2> DEFINE u == Room(s, Len(g.seg))
             t == CcAlloc(u)
             p == [hunk |-> u.chain + 1, size |-> n]
  <2>1. Passes(s, u) /\ u \in PoolType /\ Len(g.seg) \in Nat
    BY RoomPasses, GlobFields DEF Passes, Keeps
  <2>2. s.segmax > 0 /\ Len(g.seg) <= s.segmax => Len(g.seg) < u.segmax
    BY RoomPasses, GlobFields
  <2>3. r.pool = t /\ r.glob = [g EXCEPT !.seg = Append(g.seg, p)]
    BY <1>1 DEF GlobAlloc, OverlargePage
  <2>4. r.glob.seg = Append(g.seg, p) /\ r.glob.os = g.os
    BY <2>3 DEF GlobType
  <2>5. /\ Passes(u, t) /\ t.segmax = u.segmax
        /\ t.err = "none" =>
             /\ u.chain + 1 \in Hunk
             /\ \A X : Apart(u, X) => Apart(t, X \cup {u.chain + 1}) /\ u.chain + 1 \notin X
    BY <2>1, CcAllocPasses
  <2> HIDE DEF r, u, t
  <2>6. Passes(s, t)
    BY <2>1, <2>5, PassesTransitive
  <2>7. ASSUME t.err = "none" PROVE p \in Page /\ p.hunk = u.chain + 1
    BY <2>5, <2>7 DEF Page
  <2> HIDE DEF p
  <2>8. ASSUME t.err = "none", NEW X, GlobApart(s, X, g)
        PROVE  GlobApart(t, X, r.glob)
    <3>1. Apart(u, X \cup HunksOf(g)) /\ X \cap HunksOf(g) = {} /\ PagesApart(g)
      BY <2>1, <2>8 DEF Passes, GlobApart
    <3>2. /\ Apart(t, X \cup HunksOf(g) \cup {p.hunk})
          /\ p.hunk \notin X \cup HunksOf(g)
      BY <2>5, <2>7, <2>8, <3>1
    <3> QED BY <2>4, <2>7, <2>8, <3>1, <3>2, PageAdded
  <2>9. ASSUME t.err = "none" PROVE Len(r.glob.seg) = Len(g.seg) + 1
    BY <2>4, <2>7, <2>9, GlobFields, AppendProperties
  <2>10. u.segmax \in Nat
    BY <2>1, PoolFields
  <2> QED BY <2>1, <2>2, <2>3, <2>5, <2>6, <2>8, <2>9, <2>10 DEF r
<1>2. CASE ~(n > SEGSIZE) /\ Fits(g.allp, n, g.size)
  <2>1. r.pool = s /\ r.glob = [g EXCEPT !.allp = Advance(g.allp, n)]
    BY <1>2 DEF GlobAlloc
  <2>2. r.glob.seg = g.seg /\ r.glob.os = g.os
    BY <2>1 DEF GlobType
  <2> HIDE DEF r
  <2>3. \A X : GlobApart(s, X, g) => GlobApart(s, X, r.glob)
    BY <2>2 DEF GlobApart, HunksOf, PagesApart
  <2> QED BY <2>1, <2>2, <2>3, PassesSelf DEF r
<1>3. CASE ~(n > SEGSIZE) /\ ~Fits(g.allp, n, g.size)
  <2>1. r = NewGlobalSegment(s, g, n)
    BY <1>3 DEF GlobAlloc
  <2> QED BY <2>1, NewGlobalSegmentPasses
<1> QED BY <1>1, <1>2, <1>3

----------------------------------------------------------------------------
(* The hunks of the allocator with y those of Syn.                         *)

\* Every pool has its own hunks, and the arrays that list them are long enough.
Tidy(s, y, g) ==
  /\ GlobApart(s, ToSet(y), g) /\ IsInjective(y) /\ PermSound(s)
  /\ s.segmax > 0 /\ Len(y) <= s.segmax /\ Len(g.seg) <= s.segmax
  /\ Len(s.bindseg) <= s.segmax

LEMMA TidyPasses ==
  ASSUME NEW s \in PoolType, NEW t, NEW y \in Seq(Hunk), NEW g \in GlobType,
         Tidy(s, y, g), Passes(s, t)
  PROVE  Tidy(t, y, g)
<1>1. GlobApart(t, ToSet(y), g)
  BY DEF Passes, Tidy, GlobApart
<1>2. PermSound(t)
  <2>1. Apart(s, {})
    BY ApartLess DEF Tidy, GlobApart
  <2> QED BY <2>1 DEF Passes, Tidy
<1>3. /\ s.segmax \in Nat /\ t.segmax \in Nat /\ s.segmax <= t.segmax
      /\ Len(t.bindseg) <= Len(s.bindseg) /\ Len(s.bindseg) \in Nat
      /\ Len(t.bindseg) \in Nat /\ Len(g.seg) \in Nat /\ Len(y) \in Nat
  BY PoolFields, GlobFields, LenProperties DEF Passes, Keeps
<1> QED BY <1>1, <1>2, <1>3 DEF Tidy

\* Fewer hunks in Syn, and any place where Bind's use of its hunks ends.
LEMMA TidyLess ==
  ASSUME NEW s \in PoolType, NEW y \in Seq(Hunk), NEW g, NEW z \in Seq(Hunk),
         Tidy(s, y, g), ToSet(z) \subseteq ToSet(y), IsInjective(z), Len(z) <= Len(y)
  PROVE  Tidy(s, z, g) /\ \A c \in Nat : Tidy([s EXCEPT !.bindsegcur = c], z, g)
<1>1. GlobApart(s, ToSet(z), g)
  BY ApartLess DEF Tidy, GlobApart
<1>2. Tidy(s, z, g)
  BY <1>1, PoolFields, LenProperties DEF Tidy
<1>3. ASSUME NEW c \in Nat PROVE Tidy([s EXCEPT !.bindsegcur = c], z, g)
  <2> DEFINE t == [s EXCEPT !.bindsegcur = c]
  <2>1. /\ t.segmax = s.segmax /\ t.bindseg = s.bindseg /\ t.perm = s.perm
        /\ t.chain = s.chain /\ t.permallp = s.permallp
    BY DEF PoolType
  <2> HIDE DEF t
  <2>2. Tidy(t, z, g)
    BY <1>2, <2>1 DEF Tidy, GlobApart, Apart, PermSound
  <2> QED BY <2>2 DEF t
<1> QED BY <1>2, <1>3

LEMMA TidyNoSyn ==
  ASSUME NEW s \in PoolType, NEW y \in Seq(Hunk), NEW g, Tidy(s, y, g)
  PROVE  Tidy(s, <<>>, g) /\ \A c \in Nat : Tidy([s EXCEPT !.bindsegcur = c], <<>>, g)
<1> DEFINE z == <<>>
<1>1. z \in Seq(Hunk) /\ Len(z) = 0 /\ ToSet(z) = {} /\ IsInjective(z)
  BY EmptySeq, EmptySet
<1>2. Len(z) <= Len(y)
  BY <1>1, LenProperties
<1> HIDE DEF z
<1>3. Tidy(s, z, g) /\ \A c \in Nat : Tidy([s EXCEPT !.bindsegcur = c], z, g)
  BY <1>1, <1>2, TidyLess
<1> QED BY <1>3 DEF z

LEMMA TidyGlobAlloc ==
  ASSUME NEW s \in PoolType, NEW y \in Seq(Hunk), NEW g \in GlobType, NEW n \in Nat,
         Tidy(s, y, g), GlobAlloc(s, g, n).pool.err = "none"
  PROVE  Tidy(GlobAlloc(s, g, n).pool, y, GlobAlloc(s, g, n).glob)
<1> DEFINE t == GlobAlloc(s, g, n).pool
           h == GlobAlloc(s, g, n).glob
<1>1. Passes(s, t) /\ GlobApart(t, ToSet(y), h) /\ Len(h.seg) <= t.segmax
  BY GlobAllocPasses DEF Tidy
<1>2. Tidy(t, y, g)
  BY <1>1, TidyPasses
<1> HIDE DEF t, h
<1>3. Tidy(t, y, h)
  BY <1>1, <1>2 DEF Tidy
<1> QED BY <1>3 DEF t, h

\* SynAlloc takes a hunk.
LEMMA TidySynHunk ==
  ASSUME NEW s \in PoolType, NEW y \in Seq(Hunk), NEW g \in GlobType, Tidy(s, y, g),
         TakeHunk(Room(s, Len(y))).err = "none"
  PROVE  LET r == Room(s, Len(y))
         IN  /\ Passes(s, TakeHunk(r)) /\ HunkFor(r) \in Hunk /\ HunkFor(r) \notin ToSet(y)
             /\ Tidy(TakeHunk(r), Append(y, HunkFor(r)), g)
<1> DEFINE r == Room(s, Len(y))
           t == TakeHunk(r)
           h == HunkFor(r)
           z == Append(y, h)
<1>1. Len(y) \in Nat /\ s.segmax > 0 /\ Len(y) <= s.segmax
  BY LenProperties DEF Tidy
<1>2. Passes(s, r) /\ r \in PoolType /\ Len(y) < r.segmax
  BY <1>1, RoomPasses DEF Passes, Keeps
<1>3. /\ Passes(r, t) /\ t.segmax = r.segmax /\ h \in Hunk
      /\ \A X : Apart(r, X) => Apart(t, X \cup {h}) /\ h \notin X
  BY <1>2, TakeHunkPasses
<1> HIDE DEF r, t, h
<1>4. Passes(s, t)
  BY <1>2, <1>3, PassesTransitive
<1>5. Tidy(t, y, g) /\ Tidy(r, y, g)
  BY <1>2, <1>4, TidyPasses
<1>6. /\ Apart(t, ToSet(y) \cup HunksOf(g) \cup {h})
      /\ h \notin ToSet(y) \cup HunksOf(g)
  BY <1>3, <1>5 DEF Tidy, GlobApart
<1>7. ToSet(z) = ToSet(y) \cup {h} /\ IsInjective(z)
  BY <1>3, <1>5, <1>6, AppendSet DEF Tidy
<1>8. Len(z) = Len(y) + 1
  BY <1>3, AppendProperties
<1> HIDE DEF z
<1>9. GlobApart(t, ToSet(z), g)
  <2>1. ToSet(z) \cup HunksOf(g) = ToSet(y) \cup HunksOf(g) \cup {h}
    BY <1>7
  <2> QED BY <1>5, <1>6, <1>7, <2>1 DEF GlobApart, Tidy
<1>10. Len(z) <= t.segmax
  BY <1>1, <1>2, <1>3, <1>8, PoolFields
<1>11. Tidy(t, z, g)
  BY <1>5, <1>7, <1>9, <1>10 DEF Tidy
<1> QED BY <1>3, <1>4, <1>6, <1>11 DEF r, t, h, z

\* A hunk h of none of the pools joins Bind's, where there is room for it.
LEMMA TidyBindHunk ==
  ASSUME NEW s \in PoolType, NEW y, NEW g, NEW h \in Hunk,
         Tidy(s, y, g), Len(s.bindseg) < s.segmax,
         Apart(s, ToSet(y) \cup HunksOf(g) \cup {h}), h \notin ToSet(y) \cup HunksOf(g)
  PROVE  Tidy([s EXCEPT !.bindseg = Append(s.bindseg, h)], y, g)
<1> DEFINE w == Append(s.bindseg, h)
           t == [s EXCEPT !.bindseg = w]
<1>1. s.bindseg \in Seq(Hunk) /\ Len(s.bindseg) \in Nat /\ s.segmax \in Nat
  BY PoolFields
<1>2. h \notin ToSet(s.bindseg) /\ IsInjective(s.bindseg) /\ h \in 1 .. s.chain /\ h \notin s.perm
  BY DEF Apart
<1>3. ToSet(w) = ToSet(s.bindseg) \cup {h} /\ IsInjective(w)
  BY <1>1, <1>2, AppendSet
<1>4. Len(w) = Len(s.bindseg) + 1
  BY <1>1, AppendProperties
<1> HIDE DEF w
<1>5. /\ t.segmax = s.segmax /\ t.bindseg = w /\ t.perm = s.perm
      /\ t.chain = s.chain /\ t.permallp = s.permallp
  BY DEF PoolType
<1> HIDE DEF t
<1>6. Apart(t, ToSet(y) \cup HunksOf(g))
  BY <1>2, <1>3, <1>5 DEF Apart
<1>7. Tidy(t, y, g)
  BY <1>1, <1>4, <1>5, <1>6 DEF Tidy, GlobApart, PermSound
<1> QED BY <1>7 DEF t, w

\* drop_local_store passes the last hunk of Syn on to Bind.
LEMMA TidyDrop ==
  ASSUME NEW s \in PoolType, NEW y \in Seq(Hunk), NEW g \in GlobType, Tidy(s, y, g),
         y # <<>>, Room(s, Len(s.bindseg)).err = "none"
  PROVE  LET r == Room(s, Len(s.bindseg))
         IN  Tidy([r EXCEPT !.bindseg = Append(r.bindseg, Last(y))], Front(y), g)
<1> DEFINE r == Room(s, Len(s.bindseg))
           h == Last(y)
           z == Front(y)
<1>1. Len(s.bindseg) \in Nat /\ Len(s.bindseg) <= s.segmax /\ s.segmax > 0
  BY PoolFields DEF Tidy
<1>2. Passes(s, r) /\ r \in PoolType /\ Len(s.bindseg) < r.segmax
  BY <1>1, RoomPasses DEF Passes, Keeps
<1> HIDE DEF r
<1>3. Tidy(r, y, g)
  BY <1>2, TidyPasses
<1>4. Len(r.bindseg) < r.segmax
  BY <1>1, <1>2, PoolFields DEF Passes, Keeps
<1>5. /\ ToSet(z) = ToSet(y) \ {h} /\ IsInjective(z) /\ h \in ToSet(y)
      /\ z \in Seq(Hunk) /\ Len(z) = Len(y) - 1 /\ h \in Hunk /\ Len(y) \in Nat
  BY FrontSet, FrontFacts, LenProperties DEF Tidy
<1> HIDE DEF h, z
<1>6. Tidy(r, z, g)
  BY <1>2, <1>3, <1>5, TidyLess
<1>7. /\ Apart(r, ToSet(z) \cup HunksOf(g) \cup {h})
      /\ h \notin ToSet(z) \cup HunksOf(g)
  <2>1. ToSet(z) \cup HunksOf(g) \cup {h} = ToSet(y) \cup HunksOf(g)
    BY <1>5
  <2> QED BY <1>3, <1>5, <2>1 DEF Tidy, GlobApart
<1>8. Tidy([r EXCEPT !.bindseg = Append(r.bindseg, h)], z, g)
  BY <1>2, <1>4, <1>5, <1>6, <1>7, TidyBindHunk
<1> QED BY <1>8 DEF r, h, z

\* The search for scraps swaps two hunks of Syn, or two of Bind.
LEMMA TidySwap ==
  ASSUME NEW s \in PoolType, NEW y \in Seq(Hunk), NEW g, Tidy(s, y, g)
  PROVE  /\ \A i, j \in 1 .. Len(y) : Tidy(s, Swap(y, i, j), g)
         /\ \A i, j \in 1 .. Len(s.bindseg) :
              Tidy([s EXCEPT !.bindseg = Swap(s.bindseg, i, j)], y, g)
<1>1. ASSUME NEW i \in 1 .. Len(y), NEW j \in 1 .. Len(y)
      PROVE  Tidy(s, Swap(y, i, j), g)
  <2>1. /\ ToSet(Swap(y, i, j)) = ToSet(y) /\ Len(Swap(y, i, j)) = Len(y)
        /\ IsInjective(Swap(y, i, j))
    BY SwapSet, SwapFacts DEF Tidy
  <2> QED BY <2>1 DEF Tidy
<1>2. ASSUME NEW i \in 1 .. Len(s.bindseg), NEW j \in 1 .. Len(s.bindseg)
      PROVE  Tidy([s EXCEPT !.bindseg = Swap(s.bindseg, i, j)], y, g)
  <2> DEFINE w == Swap(s.bindseg, i, j)
             t == [s EXCEPT !.bindseg = w]
  <2>1. s.bindseg \in Seq(Hunk) /\ IsInjective(s.bindseg)
    BY PoolFields DEF Tidy, GlobApart, Apart
  <2>2. ToSet(w) = ToSet(s.bindseg) /\ Len(w) = Len(s.bindseg) /\ IsInjective(w)
    BY <2>1, SwapSet, SwapFacts
  <2> HIDE DEF w
  <2>3. /\ t.segmax = s.segmax /\ t.bindseg = w /\ t.perm = s.perm
        /\ t.chain = s.chain /\ t.permallp = s.permallp
    BY DEF PoolType
  <2> HIDE DEF t
  <2>4. Tidy(t, y, g)
    BY <2>2, <2>3 DEF Tidy, GlobApart, Apart, PermSound
  <2> QED BY <2>4 DEF t, w
<1> QED BY <1>1, <1>2

\* BindAlloc moves on to a spare, or to a hunk from malloc.
LEMMA TidyNextBind ==
  ASSUME NEW s \in PoolType, NEW y \in Seq(Hunk), NEW g \in GlobType, Tidy(s, y, g),
         s.bindsegcur <= Len(s.bindseg), NextBindHunk(s).err = "none"
  PROVE  /\ Tidy(NextBindHunk(s), y, g)
         /\ \A i \in 1 .. s.bindsegcur : NextBindHunk(s).bindseg[i] = s.bindseg[i]
         /\ PermSound(s) => PermSound(NextBindHunk(s))
         /\ \A h : \A e \in Nat : PermUpTo(s, h, e) => PermUpTo(NextBindHunk(s), h, e)
<1>1. CASE Spare(s)
  BY <1>1 DEF NextBindHunk
<1>2. CASE ~Spare(s)
  <2> DEFINE a == CcAlloc(s)
             r == Room(a, Len(s.bindseg))
             h == s.chain + 1
             t == [r EXCEPT !.bindseg = Append(r.bindseg, h)]
  <2>1. NextBindHunk(s) = t
    BY <1>2 DEF NextBindHunk
  <2>2. /\ Passes(s, a) /\ a \in PoolType /\ a.segmax = s.segmax /\ a.bindseg = s.bindseg
        /\ a.err = "none" =>
             /\ h \in Hunk
             /\ \A X : Apart(s, X) => Apart(a, X \cup {h}) /\ h \notin X
    BY CcAllocPasses DEF Passes, Keeps
  <2>3. /\ Len(s.bindseg) \in Nat /\ s.segmax > 0 /\ Len(s.bindseg) <= s.segmax
        /\ s.bindsegcur \in Nat /\ s.bindseg \in Seq(Hunk)
    BY PoolFields DEF Tidy
  <2>4. Passes(a, r) /\ r \in PoolType /\ Len(s.bindseg) < r.segmax
    BY <2>2, <2>3, RoomPasses DEF Passes, Keeps
  <2> HIDE DEF a, r, h
  <2>5. Passes(s, r)
    BY <2>2, <2>4, PassesTransitive
  <2>6. /\ t.err = r.err /\ t.bindseg = Append(r.bindseg, h) /\ t.perm = r.perm
        /\ t.permallp = r.permallp
    BY <2>4 DEF PoolType
  <2>7. a.err = "none"
    <3>1. r.err = "none" /\ r.err \in {a.err, "space", "overlarge"}
      BY <2>1, <2>4, <2>6 DEF Passes
    <3>2. Keeps(a, r)
      BY <2>4 DEF Passes
    <3> QED BY <3>1, <3>2 DEF Keeps
  <2>8. Tidy(r, y, g)
    BY <2>5, TidyPasses
  <2>9. Len(r.bindseg) < r.segmax /\ Len(r.bindseg) \in Nat
    BY <2>3, <2>4, <2>5, PoolFields DEF Passes, Keeps
  <2>10. /\ Apart(r, ToSet(y) \cup HunksOf(g) \cup {h})
         /\ h \notin ToSet(y) \cup HunksOf(g) /\ h \in Hunk
    <3>1. Apart(s, ToSet(y) \cup HunksOf(g))
      BY DEF Tidy, GlobApart
    <3>2. /\ Apart(a, ToSet(y) \cup HunksOf(g) \cup {h})
          /\ h \notin ToSet(y) \cup HunksOf(g) /\ h \in Hunk
      BY <2>2, <2>7, <3>1
    <3> QED BY <2>4, <3>2 DEF Passes
  <2>11. Tidy(t, y, g)
    BY <2>4, <2>8, <2>9, <2>10, TidyBindHunk
  <2>12. r.bindseg = s.bindseg
    <3>1. Keeps(s, r)
      BY <2>5 DEF Passes
    <3>2. ~(s.bindsegcur < Len(s.bindseg))
      BY <1>2 DEF Spare
    <3> QED BY <2>3, <3>1, <3>2 DEF Keeps
  <2>13. \A i \in 1 .. s.bindsegcur : t.bindseg[i] = s.bindseg[i]
    <3>1. \A i \in 1 .. s.bindsegcur : i \in 1 .. Len(s.bindseg)
      BY <2>3
    <3> QED BY <2>3, <2>6, <2>10, <2>12, <3>1, AppendProperties
  <2> HIDE DEF t
  <2>14. /\ PermSound(s) => PermSound(t)
         /\ \A x : \A e \in Nat : PermUpTo(s, x, e) => PermUpTo(t, x, e)
    <3>1. Apart(s, {}) /\ PermSound(s)
      BY ApartLess DEF Tidy, GlobApart
    <3>2. /\ PermSound(r)
          /\ \A x : \A e \in Nat : PermUpTo(s, x, e) => PermUpTo(r, x, e)
      BY <2>5, <3>1 DEF Passes
    <3> QED BY <2>6, <3>2 DEF PermSound, PermUpTo
  <2> QED BY <2>1, <2>11, <2>13, <2>14
<1> QED BY <1>1, <1>2

\* alloc_perfilefinalise puts the last page of Glob into Bind, or keeps it.
LEMMA TidyRecycle ==
  ASSUME NEW s \in PoolType, NEW y \in Seq(Hunk), NEW g \in GlobType, Tidy(s, y, g),
         g.seg # <<>>
  PROVE  LET page == Last(g.seg)
             r    == Room(s, Len(s.bindseg))
         IN  /\ r.err = "none" =>
                  Tidy([r EXCEPT !.bindseg = Append(r.bindseg, page.hunk)], y,
                       [g EXCEPT !.seg = Front(g.seg)])
             /\ Tidy(s, y, [g EXCEPT !.seg = Front(g.seg), !.os = <<page>> \o g.os])
<1> DEFINE page == Last(g.seg)
           h == page.hunk
           r == Room(s, Len(s.bindseg))
           A == PageHunks(g.seg)
           O == PageHunks(g.os)
           B == PageHunks(Front(g.seg))
           Q == PageHunks(<<page>> \o g.os)
           u == [g EXCEPT !.seg = Front(g.seg)]
           v == [g EXCEPT !.seg = Front(g.seg), !.os = <<page>> \o g.os]
<1>1. /\ g.seg \in Seq(Page) /\ A \in Seq(Hunk) /\ g.os \in Seq(Page) /\ O \in Seq(Hunk)
      /\ page \in Page /\ h \in Hunk /\ Front(g.seg) \in Seq(Page)
      /\ Len(Front(g.seg)) = Len(g.seg) - 1 /\ Len(g.seg) \in Nat
  <2>1. g.seg \in Seq(Page) /\ g.os \in Seq(Page) /\ Len(g.seg) \in Nat
    BY GlobFields
  <2>2. A \in Seq(Hunk) /\ O \in Seq(Hunk)
    BY <2>1, PageSeq
  <2>3. page \in Page /\ Front(g.seg) \in Seq(Page) /\ Len(Front(g.seg)) = Len(g.seg) - 1
    BY <2>1, FrontFacts
  <2> QED BY <2>1, <2>2, <2>3 DEF Page
<1>2. B = Front(A) /\ Last(A) = h /\ A # <<>> /\ Q = <<h>> \o O
  BY <1>1, PageFront, PageCons
<1>3. /\ IsInjective(A) /\ IsInjective(O) /\ ToSet(A) \cap ToSet(O) = {}
      /\ Apart(s, ToSet(y) \cup HunksOf(g)) /\ ToSet(y) \cap HunksOf(g) = {}
  BY DEF Tidy, GlobApart, PagesApart
<1>4. ToSet(B) = ToSet(A) \ {h} /\ IsInjective(B) /\ h \in ToSet(A)
  <2> HIDE DEF A, B, h
  <2> QED BY <1>1, <1>2, <1>3, FrontSet
<1>5. ToSet(Q) = {h} \cup ToSet(O) /\ IsInjective(Q)
  <2>1. h \notin ToSet(O)
    BY <1>3, <1>4
  <2> HIDE DEF O, Q, h
  <2> QED BY <1>1, <1>2, <1>3, <2>1, ConsSet
<1>6. u.seg = Front(g.seg) /\ u.os = g.os /\ v.seg = Front(g.seg) /\ v.os = <<page>> \o g.os
  BY DEF GlobType
<1>7. PagesApart(u) /\ PagesApart(v)
  BY <1>3, <1>4, <1>5, <1>6 DEF PagesApart
<1>8. HunksOf(u) = HunksOf(g) \ {h} /\ HunksOf(v) = HunksOf(g) /\ h \in HunksOf(g)
  BY <1>3, <1>4, <1>5, <1>6 DEF HunksOf
<1> HIDE DEF A, O, B, Q, u, v, h, page
<1>9. Tidy(s, y, v)
  BY <1>1, <1>3, <1>6, <1>7, <1>8, PoolFields DEF Tidy, GlobApart
<1>10. ASSUME r.err = "none"
       PROVE  Tidy([r EXCEPT !.bindseg = Append(r.bindseg, h)], y, u)
  <2>1. Len(s.bindseg) \in Nat /\ Len(s.bindseg) <= s.segmax /\ s.segmax > 0
    BY PoolFields DEF Tidy
  <2>2. Passes(s, r) /\ r \in PoolType /\ Len(s.bindseg) < r.segmax
    BY <2>1, RoomPasses DEF Passes, Keeps
  <2> HIDE DEF r
  <2>3. Tidy(r, y, g)
    BY <2>2, TidyPasses
  <2>4. Len(r.bindseg) < r.segmax
    BY <2>1, <2>2, PoolFields DEF Passes, Keeps
  <2>5. /\ ToSet(y) \cup HunksOf(u) \cup {h} = ToSet(y) \cup HunksOf(g)
        /\ h \notin ToSet(y) \cup HunksOf(u) /\ ToSet(y) \cap HunksOf(u) = {}
    BY <1>3, <1>8
  <2>6. Apart(r, ToSet(y) \cup HunksOf(u) \cup {h})
    BY <2>3, <2>5 DEF Tidy, GlobApart
  <2>7. Tidy(r, y, u)
    <3>1. Apart(r, ToSet(y) \cup HunksOf(u))
      BY <2>6, ApartLess
    <3> QED BY <1>1, <1>6, <1>7, <2>2, <2>3, <2>5, <3>1, PoolFields DEF Tidy, GlobApart
  <2> QED BY <1>1, <2>2, <2>4, <2>5, <2>6, <2>7, TidyBindHunk
<1> QED BY <1>9, <1>10 DEF u, v, h, page, r

\* The pool that alloc_initialise leaves, with no hunk elsewhere.
LEMMA TidyInitial ==
  ASSUME NEW c \in Nat, NEW g, g.seg = <<>>, g.os = <<>>
  PROVE  Tidy(InitialPool(c), <<>>, g)
<1> DEFINE s == [segmax |-> 0, chain |-> 0, perm |-> {}, permallp |-> Duff,
                 bindseg |-> <<>>, bindsegcur |-> c, err |-> "none"]
           t == InitialPool(c)
<1>1. Duff \in Pointer /\ 0 \in 0 .. MaxHunks /\ SEGMAX_INIT \in Nat /\ SEGMAX_INIT > 0
  BY SizesNat, StoreAssumption DEF Duff, Pointer
<1>2. s \in PoolType
  BY <1>1, EmptySeq DEF PoolType, Errors
<1>3. t = ExpandSegmax(s, SEGMAX_INIT)
  BY DEF InitialPool
<1>4. /\ s.segmax = 0 /\ s.chain = 0 /\ s.perm = {} /\ s.bindseg = <<>>
      /\ s.permallp = Duff
  OBVIOUS
<1> HIDE DEF s, t
<1>5. Passes(s, t) /\ t.segmax = SEGMAX_INIT
  BY <1>1, <1>2, <1>3, <1>4, ExpandSegmaxPasses
<1>6. HunksOf(g) = {} /\ PagesApart(g) /\ Len(g.seg) = 0
  <2>1. PageHunks(<<>>) = <<>>
    BY DEF PageHunks
  <2> QED BY <2>1, EmptySet DEF HunksOf, PagesApart
<1>7. Apart(s, {}) /\ PermSound(s)
  BY <1>4, EmptySet DEF Apart, PermSound
<1>8. Apart(t, {}) /\ PermSound(t)
  BY <1>5, <1>7 DEF Passes
<1>9. Len(t.bindseg) = 0
  <2>1. Len(t.bindseg) <= Len(s.bindseg) /\ Len(t.bindseg) \in Nat /\ Len(s.bindseg) = 0
    BY <1>4, <1>5, PoolFields DEF Passes, Keeps
  <2> QED BY <2>1
<1>10. GlobApart(t, ToSet(<<>>), g) /\ Len(<<>>) = 0
  BY <1>6, <1>8, EmptySet DEF GlobApart
<1>11. Tidy(t, <<>>, g)
  BY <1>1, <1>5, <1>6, <1>8, <1>9, <1>10, EmptySet DEF Tidy
<1> QED BY <1>11 DEF t

----------------------------------------------------------------------------
(* The steps of the allocator.                                             *)

\* While the statics mean anything the pools share no hunk and their arrays are
\* long enough: the inductive form of HunksDisjoint and ArraysFit.
Hunky == Sound => Tidy(pool, SynSeg, glob)

LEMMA HunkyFields ==
  ASSUME IInv
  PROVE  /\ pool \in PoolType /\ glob \in GlobType /\ SynSeg \in Seq(Hunk)
         /\ syn \in SynType /\ syn.seg \in Seq(Hunk) /\ Len(syn.seg) \in Nat
         /\ pool.bindseg \in Seq(Hunk) /\ pool.bindsegcur \in Nat /\ Len(pool.bindseg) \in Nat
         /\ Running => /\ SynSeg = syn.seg /\ Sound
                       /\ pool.bindsegcur <= Len(pool.bindseg)
         /\ pc = "run" => Running
BY PoolFields, SynFields, EmptySeq DEF IInv, TypeOK, Shape, SynSeg, Sound, Running

LEMMA FailHunky == ASSUME NEW e, Fail(e) PROVE Hunky'
BY DEF Fail, Hunky, Sound, Running

\* Steps that leave the hunks where they are.
LEMMA SameHunky ==
  ASSUME Hunky, UNCHANGED <<pool, glob>>, syn'.seg = syn.seg, Running' <=> Running,
         Sound' => Sound
  PROVE  Hunky'
BY DEF Hunky, SynSeg

LEMMA PermAllocHunky ==
  ASSUME IInv, Hunky, NEW n \in Sizes, PermAllocCall(n)
  PROVE  Hunky'
<1>1. Passes(pool, PermAlloc(pool, n))
  BY HunkyFields, SizesNat, PermAllocPasses
<1>2. CASE Fail(PermAlloc(pool, n).err)
  BY <1>2, FailHunky
<1>3. CASE pool' = PermAlloc(pool, n) /\ UNCHANGED <<glob, syn, pc>>
  BY <1>1, <1>3, HunkyFields, TidyPasses DEF Hunky, SynSeg, Sound, Running
<1> QED BY <1>2, <1>3 DEF PermAllocCall

\* GlobAlloc, by itself or for the block of a mark.
LEMMA GlobHunky ==
  ASSUME IInv, Hunky, NEW n \in Nat, GlobAlloc(pool, glob, n).pool.err = "none",
         pool' = GlobAlloc(pool, glob, n).pool, glob' = GlobAlloc(pool, glob, n).glob,
         UNCHANGED <<syn, pc>>
  PROVE  Hunky'
BY HunkyFields, TidyGlobAlloc DEF Hunky, SynSeg, Sound, Running

LEMMA GlobAllocHunky ==
  ASSUME IInv, Hunky, NEW n \in Sizes, GlobAllocCall(n)
  PROVE  Hunky'
<1> DEFINE r == GlobAlloc(pool, glob, n)
<1>1. CASE Fail(r.pool.err)
  BY <1>1, FailHunky
<1>2. CASE r.pool.err = "none" /\ pool' = r.pool /\ glob' = r.glob /\ UNCHANGED <<syn, pc>>
  BY <1>2, SizesNat, GlobHunky
<1> QED BY <1>1, <1>2 DEF GlobAllocCall

LEMMA AllocMarkHunky ==
  ASSUME IInv, Hunky, AllocMark
  PROVE  Hunky'
<1> DEFINE r == GlobAlloc(pool, glob, MarkSize)
<1>1. CASE Fail(r.pool.err)
  BY <1>1, FailHunky
<1>2. CASE r.pool.err = "none" /\ pool' = r.pool /\ glob' = r.glob /\ UNCHANGED <<syn, pc>>
  BY <1>2, SizesNat, GlobHunky
<1>3. CASE UNCHANGED <<pool, glob, syn, pc>>
  BY <1>3, SameHunky DEF Sound, Running
<1> QED BY <1>1, <1>2, <1>3 DEF AllocMark

LEMMA SynAllocHunky ==
  ASSUME IInv, Hunky, pc = "run", NEW n \in Nat, SynAlloc(n)
  PROVE  Hunky'
<1> DEFINE r == Room(pool, Len(syn.seg))
<1>0. Tidy(pool, syn.seg, glob) /\ Running /\ Sound
  BY HunkyFields DEF Hunky
<1>1. CASE Fail("overlarge") \/ SynFails(n)
  BY <1>1, FailHunky DEF SynFails
<1>2. CASE SynBump(n) /\ UNCHANGED glob
  <2>1. syn'.seg = syn.seg /\ UNCHANGED <<pool, pc>>
    BY <1>2, HunkyFields DEF SynBump, SynType
  <2> QED BY <1>2, <2>1, SameHunky DEF Sound, Running
<1>3. CASE SynScavenge(n) /\ UNCHANGED glob
  <2>1. PICK i \in 1 .. Len(syn.seg) :
          syn' = [Scavenged(syn, i, syn.seg[i], n) EXCEPT !.seg = Swap(@, i, Len(@))]
    BY <1>3 DEF SynScavenge
  <2>2. UNCHANGED <<pool, pc>>
    BY <1>3 DEF SynScavenge
  <2>3. syn'.seg = Swap(syn.seg, i, Len(syn.seg))
    BY <2>1, HunkyFields DEF Scavenged, SynType
  <2>4. Len(syn.seg) \in 1 .. Len(syn.seg)
    BY HunkyFields
  <2>5. Tidy(pool, syn'.seg, glob)
    BY <1>0, <2>3, <2>4, HunkyFields, TidySwap
  <2>6. SynSeg' = syn'.seg
    BY <1>0, <2>2 DEF SynSeg, Running
  <2> QED BY <1>3, <2>2, <2>5, <2>6 DEF Hunky
<1>4. CASE SynNewHunk(n) /\ UNCHANGED glob
  <2>1. /\ pool' = TakeHunk(r) /\ TakeHunk(r).err = "none" /\ UNCHANGED pc
        /\ syn' = [NewCurrent(syn, HunkFor(r), n) EXCEPT !.seg = Append(@, HunkFor(r))]
    BY <1>4 DEF SynNewHunk
  <2>2. syn'.seg = Append(syn.seg, HunkFor(r))
    BY <2>1, HunkyFields DEF NewCurrent, SynType
  <2>3. Tidy(pool', syn'.seg, glob)
    BY <1>0, <2>1, <2>2, HunkyFields, TidySynHunk
  <2>4. SynSeg' = syn'.seg
    BY <1>0, <2>1 DEF SynSeg, Running
  <2> QED BY <1>4, <2>3, <2>4 DEF Hunky
<1> QED BY <1>1, <1>2, <1>3, <1>4 DEF SynAlloc

LEMMA SynConsHunky ==
  ASSUME IInv, Hunky, pc = "run", NEW k \in CellSizes, SynCons(k)
  PROVE  Hunky'
<1>1. CASE syn.free[k] = <<>>
  BY <1>1, SizesNat, SynAllocHunky DEF SynCons
<1>2. CASE syn.free[k] # <<>>
  <2>1. syn'.seg = syn.seg /\ UNCHANGED <<pool, glob, pc>>
    BY <1>2, HunkyFields DEF SynCons, SynType
  <2> QED BY <2>1, SameHunky DEF Sound, Running
<1> QED BY <1>1, <1>2

LEMMA BindAllocHunky ==
  ASSUME IInv, Hunky, pc = "run", NEW n \in Nat, BindAlloc(n)
  PROVE  Hunky'
<1> DEFINE s == NextBindHunk(pool)
<1>0. Tidy(pool, syn.seg, glob) /\ Running /\ Sound
  BY HunkyFields DEF Hunky
<1>1. CASE Fail("overlarge") \/ BindFails(n)
  BY <1>1, FailHunky DEF BindFails
<1>2. CASE BindBump(n) /\ UNCHANGED <<glob, syn>>
  <2>1. UNCHANGED <<pool, pc>>
    BY <1>2 DEF BindBump
  <2> QED BY <1>2, <2>1, SameHunky DEF Sound, Running
<1>3. CASE BindScavenge(n) /\ UNCHANGED <<glob, syn>>
  <2>1. PICK i \in 1 .. pool.bindsegcur :
          pool' = [pool EXCEPT !.bindseg = Swap(pool.bindseg, i, pool.bindsegcur)]
    BY <1>3 DEF BindScavenge
  <2>2. UNCHANGED pc
    BY <1>3 DEF BindScavenge
  <2>3. i \in 1 .. Len(pool.bindseg) /\ pool.bindsegcur \in 1 .. Len(pool.bindseg)
    BY <1>0, <2>1, HunkyFields
  <2>4. Tidy(pool', syn.seg, glob)
    BY <1>0, <2>1, <2>3, HunkyFields, TidySwap
  <2>5. SynSeg' = syn.seg
    BY <1>0, <1>3, <2>2 DEF SynSeg, Running
  <2> QED BY <1>3, <2>2, <2>4, <2>5 DEF Hunky
<1>4. CASE BindNewHunk(n) /\ UNCHANGED <<glob, syn>>
  <2>1. /\ pool' = [s EXCEPT !.bindsegcur = s.bindsegcur + 1] /\ s.err = "none"
        /\ UNCHANGED pc
    BY <1>4 DEF BindNewHunk
  <2>2. /\ s \in PoolType /\ Tidy(s, syn.seg, glob) /\ s.bindsegcur + 1 \in Nat
        /\ IsInjective(syn.seg)
    BY <1>0, <2>1, HunkyFields, NextBindHunkFacts, TidyNextBind DEF Tidy
  <2> HIDE DEF s
  <2>3. Tidy(pool', syn.seg, glob)
    BY <2>1, <2>2, HunkyFields, TidyLess
  <2>4. SynSeg' = syn.seg
    BY <1>0, <1>4, <2>1 DEF SynSeg, Running
  <2> QED BY <1>4, <2>3, <2>4 DEF Hunky
<1> QED BY <1>1, <1>2, <1>3, <1>4 DEF BindAlloc

LEMMA BindConsHunky ==
  ASSUME IInv, Hunky, pc = "run", NEW k \in CellSizes, BindCons(k)
  PROVE  Hunky'
<1>1. CASE bnd.free[k] = <<>>
  BY <1>1, SizesNat, BindAllocHunky DEF BindCons
<1>2. CASE bnd.free[k] # <<>>
  <2>1. UNCHANGED <<pool, glob, syn, pc>>
    BY <1>2 DEF BindCons
  <2> QED BY <2>1, SameHunky DEF Sound, Running
<1> QED BY <1>1, <1>2

LEMMA DiscardHunky ==
  ASSUME IInv, Hunky, NEW o \in Obs, Discard(o)
  PROVE  Hunky'
<1>1. syn'.seg = syn.seg /\ UNCHANGED <<pool, glob, pc>>
  BY HunkyFields DEF Discard, SynType
<1> QED BY <1>1, SameHunky DEF Sound, Running

LEMMA UnmarkTopHunky ==
  ASSUME IInv, Hunky, pc = "run", UnmarkTop
  PROVE  Hunky'
<1>1. PICK k \in 1 .. Len(marklist) - 1 :
        /\ syn' = SynBackTo(marklist[k + 1])
        /\ pool' = [pool EXCEPT !.bindsegcur = marklist[k + 1].bindno]
  BY DEF UnmarkTop
<1>2. UNCHANGED <<glob, pc>>
  BY DEF UnmarkTop
<1> DEFINE m == marklist[k + 1]
           z == SubSeq(syn.seg, 1, m.synno)
<1>3. Len(marklist) \in Nat /\ k + 1 \in 1 .. Len(marklist)
  BY <1>1, MarkFields DEF IInv, TypeOK
<1>4. m.synno \in Nat /\ m.bindno \in Nat /\ m.synno <= Len(syn.seg)
  BY <1>3, HunkyFields, MarkFields DEF IInv, Shape
<1>5. syn'.seg = z /\ pool' = [pool EXCEPT !.bindsegcur = m.bindno]
  BY <1>1 DEF SynBackTo
<1>6. Tidy(pool, syn.seg, glob) /\ Running
  BY HunkyFields DEF Hunky
<1>7. SynSeg' = z
  BY <1>2, <1>5, <1>6 DEF SynSeg, Running
<1> HIDE DEF m
<1>8. /\ ToSet(z) \subseteq ToSet(syn.seg) /\ IsInjective(z) /\ Len(z) <= Len(syn.seg)
      /\ z \in Seq(Hunk)
  BY <1>4, <1>6, HunkyFields, PrefixSet, SubSeqFacts DEF Tidy
<1> HIDE DEF z
<1>9. Tidy(pool', z, glob)
  BY <1>4, <1>5, <1>6, <1>8, HunkyFields, TidyLess
<1> QED BY <1>2, <1>7, <1>9 DEF Hunky

LEMMA AllocUnmarkHunky ==
  ASSUME IInv, Hunky, pc = "run", NEW i \in 2 .. Len(marklist), AllocUnmark(i)
  PROVE  Hunky'
<1>1. CASE UnmarkPending(i)
  BY <1>1, SameHunky DEF UnmarkPending, Sound, Running
<1> QED BY <1>1, UnmarkTopHunky, FailHunky DEF AllocUnmark

\* The calls of drop_local_store and alloc_perfilefinalise, the end of the
\* former's loop and alloc_reinit move no hunk.
LEMMA LoopHunky ==
  ASSUME IInv, Hunky, Drop("drop") \/ DropEnd \/ PerFileFinalise \/ AllocReinit,
         Running
  PROVE  Hunky'
<1>1. CASE Drop("drop")
  BY <1>1, SameHunky DEF Drop, Sound, Running
<1>2. CASE DropEnd
  <2>1. syn'.seg = syn.seg /\ UNCHANGED <<pool, glob>> /\ Running'
    BY <1>2, HunkyFields DEF DropEnd, SynType, Running
  <2> QED BY <2>1, SameHunky DEF Sound
<1>3. CASE PerFileFinalise
  <2>1. CASE Fail("marklist")
    BY <2>1, FailHunky
  <2>2. CASE pc' = "finaldrop" /\ UNCHANGED <<pool, glob, syn>>
    BY <2>2, SameHunky DEF Sound, Running
  <2> QED BY <1>3, <2>1, <2>2 DEF PerFileFinalise
<1>4. CASE AllocReinit
  <2>1. CASE Fail("reinit")
    BY <2>1, FailHunky
  <2>2. CASE /\ pool' = [pool EXCEPT !.bindsegcur = Top.bindno]
             /\ UNCHANGED <<glob, syn, pc>>
    <3>1. Top.bindno \in Nat
      BY TopFacts DEF MarkType
    <3>2. Tidy(pool, syn.seg, glob) /\ IsInjective(syn.seg)
      BY HunkyFields DEF Hunky, Tidy
    <3>3. Tidy(pool', syn.seg, glob)
      BY <2>2, <3>1, <3>2, HunkyFields, TidyLess
    <3> QED BY <2>2, <3>3, HunkyFields DEF Hunky, SynSeg, Running
  <2> QED BY <1>4, <2>1, <2>2 DEF AllocReinit
<1> QED BY <1>1, <1>2, <1>3, <1>4

LEMMA DropHunkHunky ==
  ASSUME IInv, Hunky, DropHunk
  PROVE  Hunky'
<1> DEFINE r == Room(pool, Len(pool.bindseg))
           h == Last(syn.seg)
<1>1. Running /\ Len(syn.seg) > Top.synno
  BY DEF DropHunk, Running
<1>2. syn.seg # <<>>
  BY <1>1, TopFacts, HunkyFields, EmptySeq
<1>3. Tidy(pool, syn.seg, glob)
  BY <1>1, HunkyFields DEF Hunky
<1>4. CASE Fail(r.err)
  BY <1>4, FailHunky
<1>5. CASE /\ r.err = "none" /\ pool' = [r EXCEPT !.bindseg = Append(r.bindseg, h)]
           /\ syn' = [syn EXCEPT !.seg = Front(syn.seg), !.ptr = Front(syn.ptr)]
           /\ UNCHANGED <<glob, pc>>
  <2>1. syn'.seg = Front(syn.seg)
    BY <1>5, HunkyFields DEF SynType
  <2>2. Tidy(pool', syn'.seg, glob)
    BY <1>2, <1>3, <1>5, <2>1, HunkyFields, TidyDrop
  <2>3. SynSeg' = syn'.seg
    BY <1>1, <1>5 DEF SynSeg, Running
  <2> QED BY <1>5, <2>2, <2>3 DEF Hunky
<1> QED BY <1>4, <1>5 DEF DropHunk

LEMMA RecycleHunky ==
  ASSUME IInv, Hunky, RecycleGlobPage
  PROVE  Hunky'
<1> DEFINE r    == Room(pool, Len(pool.bindseg))
           page == Last(glob.seg)
<1>1. Running /\ glob.seg # <<>>
  BY DEF RecycleGlobPage, Running
<1>2. Tidy(pool, syn.seg, glob)
  BY <1>1, HunkyFields DEF Hunky
<1>3. CASE Fail(r.err)
  BY <1>3, FailHunky
<1>4. CASE /\ \/ /\ r.err = "none"
                 /\ pool' = [r EXCEPT !.bindseg = Append(r.bindseg, page.hunk)]
                 /\ glob' = [glob EXCEPT !.seg = Front(glob.seg)]
              \/ /\ UNCHANGED pool
                 /\ glob' = [glob EXCEPT !.seg = Front(glob.seg), !.os = <<page>> \o glob.os]
           /\ UNCHANGED <<syn, pc>>
  <2>1. Tidy(pool', syn.seg, glob')
    BY ZenonT(60), <1>1, <1>2, <1>4, HunkyFields, TidyRecycle
  <2>2. SynSeg' = syn.seg
    BY <1>1, <1>4 DEF SynSeg, Running
  <2> QED BY <1>4, <2>1, <2>2 DEF Hunky
<1> QED BY <1>3, <1>4 DEF RecycleGlobPage, KeepOversize

LEMMA FinaliseEndHunky ==
  ASSUME IInv, Hunky, FinaliseEnd
  PROVE  Hunky'
<1>1. Running /\ UNCHANGED <<pool, glob>> /\ pc' = "idle"
  BY DEF FinaliseEnd, Running
<1>2. Tidy(pool, syn.seg, glob)
  BY <1>1, HunkyFields DEF Hunky
<1>3. Tidy(pool, <<>>, glob)
  BY <1>2, HunkyFields, TidyNoSyn, EmptySeq
<1> QED BY <1>1, <1>3 DEF Hunky, SynSeg, Running

\* A file begins: Glob's pages of a command before it are forgotten.
LEMMA ForgottenGlob ==
  ASSUME IInv, Hunky, Sound, SynSeg = <<>>
  PROVE  LET g == [seg |-> <<>>, os |-> glob.os, allp |-> Duff, size |-> 0]
             s == [pool EXCEPT !.bindsegcur = 0]
         IN  s \in PoolType /\ g \in GlobType /\ Tidy(s, <<>>, g)
<1> DEFINE g == [seg |-> <<>>, os |-> glob.os, allp |-> Duff, size |-> 0]
           s == [pool EXCEPT !.bindsegcur = 0]
<1>1. Duff \in Pointer
  BY SizesNat DEF Duff, Pointer
<1>2. s \in PoolType /\ g \in GlobType /\ glob.os \in Seq(Page)
  BY <1>1, EmptySeq, HunkyFields, GlobFields DEF PoolType, GlobType
<1>3. Tidy(pool, <<>>, glob)
  BY DEF Hunky
<1>4. Tidy(s, <<>>, glob)
  BY <1>3, HunkyFields, TidyNoSyn, EmptySeq
<1>5. g.seg = <<>> /\ g.os = glob.os
  OBVIOUS
<1> HIDE DEF s, g
<1>6. PageHunks(g.seg) = <<>> /\ Len(g.seg) = 0
  BY <1>5 DEF PageHunks
<1>7. HunksOf(g) \subseteq HunksOf(glob) /\ PagesApart(g)
  BY <1>4, <1>5, <1>6, EmptySet DEF HunksOf, PagesApart, Tidy, GlobApart
<1>8. Apart(s, ToSet(<<>>) \cup HunksOf(g)) /\ ToSet(<<>>) \cap HunksOf(g) = {}
  BY <1>4, <1>7, ApartLess, EmptySet DEF Tidy, GlobApart
<1>9. Tidy(s, <<>>, g)
  BY <1>2, <1>4, <1>6, <1>7, <1>8, PoolFields DEF Tidy, GlobApart
<1> QED BY <1>2, <1>9 DEF s, g

LEMMA PerFileInitHunky ==
  ASSUME IInv, Hunky, NEW command \in BOOLEAN, PerFileInit(command)
  PROVE  Hunky'
<1> DEFINE g == [seg |-> <<>>, os |-> glob.os, allp |-> Duff, size |-> 0]
           s == [pool EXCEPT !.bindsegcur = 0]
           r == GlobAlloc(s, g, MarkSize)
<1>1. Sound /\ SynSeg = <<>>
  BY DEF PerFileInit, Sound, SynSeg, Running
<1>2. s \in PoolType /\ g \in GlobType /\ Tidy(s, <<>>, g)
  BY <1>1, ForgottenGlob
<1> HIDE DEF s, g
<1>3. CASE Fail(r.pool.err)
  BY <1>3, FailHunky
<1>4. CASE /\ r.pool.err = "none" /\ pool' = r.pool /\ glob' = r.glob
           /\ pc' = "run" /\ syn'.seg = <<>>
  <2>1. Tidy(pool', <<>>, glob')
    BY <1>2, <1>4, SizesNat, EmptySeq, TidyGlobAlloc
  <2> QED BY <1>4, <2>1 DEF Hunky, SynSeg, Running
<1> QED BY <1>3, <1>4 DEF PerFileInit, s, g

LEMMA InitialHunky ==
  ASSUME NEW c \in Nat, pool' = InitialPool(c), glob'.seg = <<>>, glob'.os = <<>>,
         ~Running'
  PROVE  Hunky'
BY TidyInitial DEF Hunky, SynSeg

LEMMA AllocInitialiseHunky ==
  ASSUME IInv, AllocInitialise
  PROVE  Hunky'
<1>1. pool' = InitialPool(pool.bindsegcur) /\ pc' \in {"idle", "failed"}
  BY DEF AllocInitialise
<1>2. glob'.seg = <<>> /\ glob'.os = <<>>
  BY HunkyFields DEF AllocInitialise, GlobType
<1> QED BY <1>1, <1>2, HunkyFields, InitialHunky DEF Running

LEMMA InitHunky == Init => Hunky
<1> SUFFICES ASSUME Init PROVE Hunky
  OBVIOUS
<1>1. pool = InitialPool(0) /\ glob.seg = <<>> /\ glob.os = <<>> /\ ~Running
  BY DEF Init, Running
<1> QED BY <1>1, TidyInitial DEF Hunky, SynSeg

LEMMA NextHunky == IInv /\ Hunky /\ [Next]_vars => Hunky'
<1> SUFFICES ASSUME IInv, Hunky, [Next]_vars PROVE Hunky'
  OBVIOUS
<1>1. ASSUME pc = "run", Common PROVE Hunky'
  BY <1>1, HunkyFields, SynAllocHunky, SynConsHunky, LoopHunky, SizesNat DEF Common
<1>2. ASSUME pc = "run", Compile PROVE Hunky'
  BY <1>2, HunkyFields, GlobAllocHunky, BindAllocHunky, BindConsHunky, DiscardHunky,
     AllocMarkHunky, AllocUnmarkHunky, LoopHunky, FailHunky, SizesNat
     DEF Compile, DiscardFails
<1>3. ASSUME Loops PROVE Hunky'
  <2>1. DropEnd => Running
    BY DEF DropEnd, Running
  <2> QED BY <1>3, <2>1, DropHunkHunky, LoopHunky, RecycleHunky, FinaliseEndHunky DEF Loops
<1>4. ASSUME AllocFinalise PROVE Hunky'
  BY <1>4 DEF AllocFinalise, Hunky, Sound, Running
<1>5. ASSUME UNCHANGED vars PROVE Hunky'
  BY <1>5, SameHunky DEF vars, Sound, Running
<1> QED BY <1>1, <1>2, <1>3, <1>4, <1>5, PermAllocHunky, PerFileInitHunky,
    AllocInitialiseHunky DEF Next

\* What Hunky says of each pool by itself.
LEMMA HunkyDisjoint == ASSUME IInv, Hunky PROVE HunksDisjoint
<1> SUFFICES ASSUME Sound PROVE HunksDisjoint
  BY DEF HunksDisjoint
<1> DEFINE G == PageHunks(glob.seg)
           O == PageHunks(glob.os)
           P == <<pool.perm, ToSet(SynSeg), ToSet(pool.bindseg), ToSet(G), ToSet(O)>>
<1>1. Tidy(pool, SynSeg, glob)
  BY DEF Hunky
<1>2. /\ IsInjective(SynSeg) /\ IsInjective(pool.bindseg)
      /\ IsInjective(G) /\ IsInjective(O)
      /\ ToSet(G) \cap ToSet(O) = {} /\ HunksOf(glob) = ToSet(G) \cup ToSet(O)
      /\ Apart(pool, ToSet(SynSeg) \cup HunksOf(glob))
      /\ ToSet(SynSeg) \cap HunksOf(glob) = {}
  BY <1>1 DEF Tidy, GlobApart, Apart, PagesApart, HunksOf
<1> HIDE DEF G, O
<1>3. /\ pool.perm \subseteq 1 .. pool.chain /\ ToSet(SynSeg) \subseteq 1 .. pool.chain
      /\ ToSet(pool.bindseg) \subseteq 1 .. pool.chain
      /\ ToSet(G) \subseteq 1 .. pool.chain /\ ToSet(O) \subseteq 1 .. pool.chain
  BY <1>2 DEF Apart
<1>4. /\ pool.perm \cap ToSet(SynSeg) = {} /\ pool.perm \cap ToSet(pool.bindseg) = {}
      /\ pool.perm \cap ToSet(G) = {} /\ pool.perm \cap ToSet(O) = {}
      /\ ToSet(SynSeg) \cap ToSet(pool.bindseg) = {}
      /\ ToSet(SynSeg) \cap ToSet(G) = {} /\ ToSet(SynSeg) \cap ToSet(O) = {}
      /\ ToSet(pool.bindseg) \cap ToSet(G) = {} /\ ToSet(pool.bindseg) \cap ToSet(O) = {}
  BY <1>2 DEF Apart
<1>5. \A i \in 1 .. 5 : i = 1 \/ i = 2 \/ i = 3 \/ i = 4 \/ i = 5
  OBVIOUS
<1>6. \A i \in 1 .. 5 : P[i] \subseteq 1 .. pool.chain
  BY <1>3, <1>5
<1>7. \A i, j \in 1 .. 5 : i # j => P[i] \cap P[j] = {}
  <2> DEFINE A == pool.perm  B == ToSet(SynSeg)  C == ToSet(pool.bindseg)
             D == ToSet(G)   E == ToSet(O)
  <2>1. P = <<A, B, C, D, E>>
    OBVIOUS
  <2>2. /\ A \cap B = {} /\ A \cap C = {} /\ A \cap D = {} /\ A \cap E = {} /\ B \cap C = {}
        /\ B \cap D = {} /\ B \cap E = {} /\ C \cap D = {} /\ C \cap E = {} /\ D \cap E = {}
    BY <1>2, <1>4
  <2> HIDE DEF P, A, B, C, D, E
  <2>3. /\ P[1] = A /\ P[2] = B /\ P[3] = C /\ P[4] = D /\ P[5] = E
    BY <2>1
  <2>4. \A X, Y : X \cap Y = {} => Y \cap X = {}
    OBVIOUS
  <2> TAKE i, j \in 1 .. 5
  <2> HAVE i # j
  <2> QED BY <1>5, <2>2, <2>3, <2>4
<1> QED BY <1>2, <1>6, <1>7 DEF HunksDisjoint, G, O

\* However hunks are recycled between the pools, over declarations, files and
\* tool commands, no hunk is in two pools and none twice in one: what keeps
\* drop_local_store, alloc_perfilefinalise and the takers of spares from handing
\* to Glob or Perm a hunk that Bind or Syn still uses.
THEOREM HunksDisjointCorrect == Spec => []HunksDisjoint
<1>1. IInv /\ Hunky => HunksDisjoint
  BY HunkyDisjoint
<1> QED BY <1>1, InitIInv, NextIInv, InitHunky, NextHunky, PTL DEF Spec

\* globsegbase, bindsegbase and synsegbase are not written past segmax, although
\* expand_segmax may take a spare from bindsegbase between the test for room
\* and the write.
THEOREM ArraysFitCorrect == Spec => []ArraysFit
<1>1. Hunky => ArraysFit
  BY DEF Hunky, ArraysFit, Tidy
<1> QED BY <1>1, InitIInv, NextIInv, InitHunky, NextHunky, PTL DEF Spec


----------------------------------------------------------------------------
(* What becomes of each hunk.                                              *)

HunksIn(s) == s.perm \cup ToSet(s.bindseg)

\* From s to t a taker of hunks gets those in X and no other hunk is lost.
Saves(s, t, X) ==
  \A h \in 1 .. t.chain :
    h \in HunksIn(t) \cup X \/ (h <= s.chain /\ h \notin HunksIn(s))

LEMMA SavesTransitive ==
  ASSUME NEW s, NEW t \in PoolType, NEW u, NEW X, Saves(s, t, {}), Saves(t, u, X)
  PROVE  Saves(s, u, X)
<1>1. t.chain \in Nat
  BY PoolFields
<1> SUFFICES ASSUME NEW h \in 1 .. u.chain, h \notin HunksIn(u) \cup X
             PROVE  h <= s.chain /\ h \notin HunksIn(s)
  BY DEF Saves
<1>2. h <= t.chain /\ h \notin HunksIn(t)
  BY DEF Saves
<1>3. h \in 1 .. t.chain
  BY <1>1, <1>2
<1> QED BY <1>2, <1>3 DEF Saves

LEMMA SavesSame ==
  ASSUME NEW s \in PoolType, NEW t, NEW X, t.chain = s.chain, HunksIn(s) \subseteq HunksIn(t) \cup X
  PROVE  Saves(s, t, X)
BY PoolFields DEF Saves

LEMMA SavesFresh ==
  ASSUME NEW s \in PoolType, NEW t, t.chain = s.chain + 1, HunksIn(s) \subseteq HunksIn(t)
  PROVE  Saves(s, t, {s.chain + 1})
<1>1. s.chain \in Nat
  BY PoolFields
<1> QED BY <1>1 DEF Saves

LEMMA FrontCovers ==
  ASSUME NEW S, NEW s \in Seq(S), s # <<>>
  PROVE  ToSet(s) \subseteq ToSet(Front(s)) \cup {Last(s)}
<1>1. /\ Front(s) \in Seq(S) /\ Len(Front(s)) = Len(s) - 1 /\ Len(s) \in Nat
      /\ \A i \in 1 .. Len(s) - 1 : Front(s)[i] = s[i]
  BY FrontFacts, LenProperties
<1>2. /\ ToSet(s) = {s[i] : i \in 1 .. Len(s)}
      /\ ToSet(Front(s)) = {Front(s)[i] : i \in 1 .. Len(s) - 1}
  BY <1>1, SetOfSeq
<1>3. Last(s) = s[Len(s)]
  BY DEF Last
<1>4. \A i \in 1 .. Len(s) : i \in 1 .. Len(s) - 1 \/ i = Len(s)
  BY <1>1
<1> QED BY <1>1, <1>2, <1>3, <1>4

LEMMA TakeHunkSaves ==
  ASSUME NEW s \in PoolType, TakeHunk(s).err = "none"
  PROVE  Saves(s, TakeHunk(s), {HunkFor(s)})
<1> DEFINE t == TakeHunk(s)
           h == HunkFor(s)
<1>1. CASE Spare(s)
  <2>1. t = [s EXCEPT !.bindseg = Front(s.bindseg)] /\ h = Last(s.bindseg)
    BY <1>1 DEF TakeHunk, HunkFor
  <2>2. t.chain = s.chain /\ t.perm = s.perm /\ t.bindseg = Front(s.bindseg)
    BY <2>1 DEF PoolType
  <2>3. s.bindseg \in Seq(Hunk) /\ s.bindseg # <<>>
    BY <1>1, PoolFields, EmptySeq DEF Spare
  <2>4. HunksIn(s) \subseteq HunksIn(t) \cup {h}
    <3> HIDE DEF t, h
    <3> QED BY <2>1, <2>2, <2>3, FrontCovers DEF HunksIn
  <2> QED BY <2>2, <2>4, SavesSame
<1>2. CASE ~Spare(s)
  <2>1. s.chain < MaxHunks /\ t = [s EXCEPT !.chain = s.chain + 1] /\ h = s.chain + 1
    <3>1. t = CcAlloc(s) /\ h = s.chain + 1
      BY <1>2 DEF TakeHunk, HunkFor
    <3>2. s.chain < MaxHunks
      BY <3>1 DEF CcAlloc, PoolType
    <3> QED BY <3>1, <3>2 DEF CcAlloc
  <2>2. t.chain = s.chain + 1 /\ t.perm = s.perm /\ t.bindseg = s.bindseg
    BY <2>1 DEF PoolType
  <2>3. HunksIn(s) \subseteq HunksIn(t)
    BY <2>2 DEF HunksIn
  <2> QED BY <2>1, <2>2, <2>3, SavesFresh
<1> QED BY <1>1, <1>2

LEMMA CcAllocSaves ==
  ASSUME NEW s \in PoolType, CcAlloc(s).err = "none"
  PROVE  Saves(s, CcAlloc(s), {s.chain + 1})
<1> DEFINE t == CcAlloc(s)
<1>1. s.chain < MaxHunks
  BY DEF CcAlloc, PoolType
<1>2. t = [s EXCEPT !.chain = s.chain + 1]
  BY <1>1 DEF CcAlloc
<1>3. t.chain = s.chain + 1 /\ t.perm = s.perm /\ t.bindseg = s.bindseg
  BY <1>2 DEF PoolType
<1>4. HunksIn(s) \subseteq HunksIn(t)
  BY <1>3 DEF HunksIn
<1> QED BY <1>3, <1>4, SavesFresh

LEMMA PermAllocSaves ==
  ASSUME NEW s \in PoolType, NEW n \in Nat, PermAlloc(s, n).err = "none"
  PROVE  Saves(s, PermAlloc(s, n), {})
<1> DEFINE t == PermAlloc(s, n)
<1>1. ~(n > SEGSIZE)
  BY DEF PermAlloc, PoolType
<1>2. CASE Fits(s.permallp, n, SEGSIZE)
  <2>1. t = [s EXCEPT !.permallp = Advance(s.permallp, n)]
    BY <1>1, <1>2 DEF PermAlloc
  <2>2. t.chain = s.chain /\ t.perm = s.perm /\ t.bindseg = s.bindseg
    BY <2>1 DEF PoolType
  <2> QED BY <2>2, SavesSame DEF HunksIn
<1>3. CASE ~Fits(s.permallp, n, SEGSIZE)
  <2> DEFINE u == TakeHunk(s)
             h == HunkFor(s)
  <2>1. t = NewPermSegment(s, n)
    BY <1>1, <1>3 DEF PermAlloc
  <2>2. u.err = "none"
    BY <2>1 DEF NewPermSegment
  <2>3. t = [u EXCEPT !.perm = u.perm \cup {h}, !.permallp = [hunk |-> h, off |-> n]]
    BY <2>1, <2>2 DEF NewPermSegment
  <2>4. u \in PoolType
    BY TakeHunkPasses DEF Passes, Keeps
  <2>5. Saves(s, u, {h})
    BY <2>2, TakeHunkSaves
  <2> HIDE DEF u, h
  <2>6. t.chain = u.chain /\ t.perm = u.perm \cup {h} /\ t.bindseg = u.bindseg
    BY <2>3, <2>4 DEF PoolType
  <2> QED BY <2>5, <2>6 DEF Saves, HunksIn
<1> QED BY <1>2, <1>3

LEMMA ExpandSegmaxSaves ==
  ASSUME NEW s \in PoolType, NEW m \in Nat, ExpandSegmax(s, m).err = "none"
  PROVE  Saves(s, ExpandSegmax(s, m), {})
<1> DEFINE P(t) == PermAlloc(t, ArrayWords(m))
<1>1. \A t : t \in PoolType => P(t) \in PoolType /\ (P(t).err = "none" => t.err = "none")
  BY PermAllocPasses, ArrayWordsNat DEF Passes, Keeps
<1>2. \A t : t \in PoolType /\ P(t).err = "none" => Saves(t, P(t), {})
  BY PermAllocSaves, ArrayWordsNat
<1> DEFINE a == P(s)  b == P(a)  c == P(b)  d == P(c)  e == P(d)  f == P(e)
<1>3. /\ a \in PoolType /\ b \in PoolType /\ c \in PoolType /\ d \in PoolType
      /\ e \in PoolType /\ f \in PoolType
  <2> HIDE DEF P
  <2> QED BY <1>1
<1>4. ExpandSegmax(s, m) = [f EXCEPT !.segmax = m]
  BY DEF ExpandSegmax
<1>5. f.err = "none"
  <2> HIDE DEF f
  <2> QED BY <1>3, <1>4 DEF PoolType
<1>6. /\ a.err = "none" /\ b.err = "none" /\ c.err = "none" /\ d.err = "none" /\ e.err = "none"
  <2> HIDE DEF P
  <2> QED BY <1>1, <1>3, <1>5
<1>7. /\ Saves(s, a, {}) /\ Saves(a, b, {}) /\ Saves(b, c, {}) /\ Saves(c, d, {})
      /\ Saves(d, e, {}) /\ Saves(e, f, {})
  <2> HIDE DEF P
  <2> QED BY <1>2, <1>3, <1>5, <1>6
<1> HIDE DEF a, b, c, d, e, f, P
<1>8. Saves(s, f, {})
  BY <1>3, <1>7, SavesTransitive
<1> DEFINE t == ExpandSegmax(s, m)
<1>9. t.chain = f.chain /\ t.perm = f.perm /\ t.bindseg = f.bindseg
  BY <1>3, <1>4 DEF PoolType
<1> HIDE DEF t
<1>10. Saves(s, t, {})
  BY <1>8, <1>9 DEF Saves, HunksIn
<1> QED BY <1>10 DEF t

LEMMA RoomSaves ==
  ASSUME NEW s \in PoolType, NEW cnt \in Nat, Room(s, cnt).err = "none"
  PROVE  Saves(s, Room(s, cnt), {})
<1>1. CASE cnt >= s.segmax
  <2> DEFINE m == s.segmax * SEGMAX_FACTOR
  <2>1. m \in Nat
    BY PoolFields, StoreAssumption
  <2>2. Room(s, cnt) = ExpandSegmax(s, m)
    BY <1>1 DEF Room
  <2> HIDE DEF m
  <2> QED BY <2>1, <2>2, ExpandSegmaxSaves
<1>2. CASE ~(cnt >= s.segmax)
  <2>1. Room(s, cnt) = s
    BY <1>2 DEF Room
  <2> QED BY <2>1, SavesSame
<1> QED BY <1>1, <1>2

----------------------------------------------------------------------------
(* The hunks of all pools, Syn's being those in y.                         *)

Kept(s, y, g) == HunksIn(s) \cup ToSet(y) \cup HunksOf(g)

\* From one state of the allocator to another no hunk is lost.
Saved(s, y, g, t, z, f) ==
  \A h \in 1 .. t.chain : h \in Kept(t, z, f) \/ (h <= s.chain /\ h \notin Kept(s, y, g))

LEMMA SavedBy ==
  ASSUME NEW s, NEW y, NEW g, NEW t, NEW z, NEW f, NEW X, Saves(s, t, X),
         X \cup ToSet(y) \cup HunksOf(g) \subseteq Kept(t, z, f)
  PROVE  Saved(s, y, g, t, z, f)
BY DEF Saved, Saves, Kept

LEMMA RoomThenTake ==
  ASSUME NEW s \in PoolType, NEW cnt \in Nat, TakeHunk(Room(s, cnt)).err = "none"
  PROVE  Saves(s, TakeHunk(Room(s, cnt)), {HunkFor(Room(s, cnt))})
<1> DEFINE r == Room(s, cnt)
<1>1. Passes(s, r) /\ r \in PoolType
  BY RoomPasses DEF Passes, Keeps
<1>2. r.err = "none"
  BY <1>1, TakeHunkPasses DEF Passes, Keeps
<1> QED BY <1>1, <1>2, RoomSaves, TakeHunkSaves, SavesTransitive

\* A page of Glob is added, in front of it or from the chain of oversize pages.
LEMMA AddedPage ==
  ASSUME NEW g \in GlobType, NEW page \in Page, NEW f, f.seg = Append(g.seg, page), f.os = g.os
  PROVE  HunksOf(f) = HunksOf(g) \cup {page.hunk}
<1>1. PageHunks(f.seg) = Append(PageHunks(g.seg), page.hunk)
  BY GlobFields, PageAppend
<1>2. PageHunks(g.seg) \in Seq(Hunk) /\ page.hunk \in Hunk
  BY GlobFields, PageSeq DEF Page
<1>3. ToSet(PageHunks(f.seg)) = ToSet(PageHunks(g.seg)) \cup {page.hunk}
  BY <1>1, <1>2, AppendSet
<1> QED BY <1>3 DEF HunksOf

LEMMA TakenPage ==
  ASSUME NEW g \in GlobType, NEW f, g.os # <<>>, IsInjective(PageHunks(g.os)),
         f.seg = Append(g.seg, Head(g.os)), f.os = Tail(g.os)
  PROVE  HunksOf(g) \subseteq HunksOf(f)
<1>1. g.seg \in Seq(Page) /\ g.os \in Seq(Page) /\ Head(g.os) \in Page
  BY GlobFields, HeadTailProperties
<1>2. /\ PageHunks(g.os) # <<>> /\ PageHunks(f.os) = Tail(PageHunks(g.os))
      /\ Head(PageHunks(g.os)) = Head(g.os).hunk
      /\ PageHunks(f.seg) = Append(PageHunks(g.seg), Head(g.os).hunk)
  BY <1>1, PageTail, PageAppend
<1>3. PageHunks(g.seg) \in Seq(Hunk) /\ PageHunks(g.os) \in Seq(Hunk) /\ Head(g.os).hunk \in Hunk
  BY <1>1, PageSeq DEF Page
<1>4. ToSet(PageHunks(f.seg)) = ToSet(PageHunks(g.seg)) \cup {Head(g.os).hunk}
  <2>1. ToSet(Append(PageHunks(g.seg), Head(g.os).hunk))
          = ToSet(PageHunks(g.seg)) \cup {Head(g.os).hunk}
    BY <1>3, AppendSet
  <2> QED BY <1>2, <2>1
<1>5. ToSet(PageHunks(f.os)) = ToSet(PageHunks(g.os)) \ {Head(g.os).hunk}
  BY <1>2, <1>3, TailSet
<1> QED BY <1>4, <1>5 DEF HunksOf

LEMMA GlobAllocSaved ==
  ASSUME NEW s \in PoolType, NEW g \in GlobType, NEW n \in Nat, NEW y,
         IsInjective(PageHunks(g.os)), GlobAlloc(s, g, n).pool.err = "none"
  PROVE  Saved(s, y, g, GlobAlloc(s, g, n).pool, y, GlobAlloc(s, g, n).glob)
<1> DEFINE r == GlobAlloc(s, g, n)
           u == Room(s, Len(g.seg))
<1>0. Passes(s, u) /\ u \in PoolType /\ Len(g.seg) \in Nat
  BY RoomPasses, GlobFields DEF Passes, Keeps
<1>1. CASE n > SEGSIZE
  <2> DEFINE t == CcAlloc(u)
             p == [hunk |-> u.chain + 1, size |-> n]
  <2>1. r.pool = t /\ r.glob = [g EXCEPT !.seg = Append(g.seg, p)]
    BY <1>1 DEF GlobAlloc, OverlargePage
  <2>2. r.glob.seg = Append(g.seg, p) /\ r.glob.os = g.os
    BY <2>1 DEF GlobType
  <2>3. t.err = "none" /\ u.err = "none" /\ u.chain + 1 \in Hunk
    <3>1. t.err = "none"
      BY <2>1
    <3> QED BY <1>0, <3>1, CcAllocPasses DEF Passes, Keeps
  <2>4. Saves(s, u, {}) /\ Saves(u, t, {u.chain + 1})
    BY <1>0, <2>3, RoomSaves, CcAllocSaves
  <2> HIDE DEF r, u, t
  <2>5. Saves(s, t, {u.chain + 1})
    BY <1>0, <2>4, SavesTransitive
  <2>6. p \in Page /\ p.hunk = u.chain + 1
    BY <2>3 DEF Page
  <2> HIDE DEF p
  <2>7. HunksOf(r.glob) = HunksOf(g) \cup {u.chain + 1}
    BY <2>2, <2>6, AddedPage
  <2>8. Saved(s, y, g, t, y, r.glob)
    BY <2>5, <2>7, SavedBy DEF Kept
  <2> QED BY <2>1, <2>8 DEF r
<1>2. CASE ~(n > SEGSIZE) /\ Fits(g.allp, n, g.size)
  <2>1. r.pool = s /\ r.glob = [g EXCEPT !.allp = Advance(g.allp, n)]
    BY <1>2 DEF GlobAlloc
  <2>2. r.glob.seg = g.seg /\ r.glob.os = g.os
    BY <2>1 DEF GlobType
  <2> HIDE DEF r
  <2>3. Saves(s, s, {}) /\ HunksOf(r.glob) = HunksOf(g)
    BY <2>2, SavesSame DEF HunksOf
  <2>4. Saved(s, y, g, s, y, r.glob)
    BY <2>3, SavedBy DEF Kept
  <2> QED BY <2>1, <2>4 DEF r
<1>3. CASE ~(n > SEGSIZE) /\ ~Fits(g.allp, n, g.size) /\ g.os # <<>>
  <2>1. r = NewGlobalSegment(s, g, n)
    BY <1>3 DEF GlobAlloc
  <2>2. r.pool = u /\ r.glob.seg = Append(g.seg, Head(g.os)) /\ r.glob.os = Tail(g.os)
    BY <1>3, <2>1 DEF NewGlobalSegment
  <2>3. Saves(s, u, {})
    BY <2>2, <1>0, RoomSaves
  <2> HIDE DEF r, u
  <2>4. HunksOf(g) \subseteq HunksOf(r.glob)
    BY <1>3, <2>2, TakenPage
  <2>5. Saved(s, y, g, u, y, r.glob)
    BY <2>3, <2>4, SavedBy DEF Kept
  <2> QED BY <2>2, <2>5 DEF r
<1>4. CASE ~(n > SEGSIZE) /\ ~Fits(g.allp, n, g.size) /\ g.os = <<>>
  <2> DEFINE t == TakeHunk(u)
             p == [hunk |-> HunkFor(u), size |-> SEGSIZE]
  <2>1. r = NewGlobalSegment(s, g, n)
    BY <1>4 DEF GlobAlloc
  <2>2. r.pool = t /\ r.glob.seg = Append(g.seg, p) /\ r.glob.os = g.os
    BY <1>4, <2>1 DEF NewGlobalSegment
  <2>3. t.err = "none"
    BY <2>2
  <2>4. Saves(s, t, {HunkFor(u)}) /\ HunkFor(u) \in Hunk
    BY <1>0, <2>3, RoomThenTake, TakeHunkPasses
  <2> HIDE DEF r, t
  <2>5. p \in Page /\ p.hunk = HunkFor(u)
    BY <2>4, SizesNat DEF Page
  <2> HIDE DEF u, p
  <2>6. HunksOf(r.glob) = HunksOf(g) \cup {HunkFor(u)}
    BY <2>2, <2>5, AddedPage
  <2>7. Saved(s, y, g, t, y, r.glob)
    BY <2>4, <2>6, SavedBy DEF Kept
  <2> QED BY <2>2, <2>7 DEF r
<1> QED BY <1>1, <1>2, <1>3, <1>4

----------------------------------------------------------------------------
(* Steps.                                                                  *)

\* What the passage from file to file finds: Syn empty at the end of a file,
\* whose marks are all undone, and Glob empty between files.
Emptied ==
  /\ Running => marklist[1].synno = 0
  /\ pc \in {"finaldrop", "final"} => Len(marklist) = 1
  /\ pc = "final" => syn.seg = <<>>
  /\ pc = "idle" => glob.seg = <<>>

NothingLost == Sound /\ Sound' => Saved(pool, SynSeg, glob, pool', SynSeg', glob')

\* Every step loses nothing, or what LossIsKnown names.
Known ==
  Sound /\ Sound' /\ ~(Lost' \subseteq Lost) =>
    \/ /\ marklist # <<>> /\ Len(marklist') < Len(marklist) - 1
       /\ Lost' \ Lost \subseteq ToSet(syn.seg)
    \/ /\ files' = files + 1 /\ tool
       /\ Lost' \ Lost \subseteq ToSet(PageHunks(glob.seg))

LEMMA LostIs == Lost = (1 .. pool.chain) \ Kept(pool, SynSeg, glob)
BY DEF Lost, Kept, HunksIn, HunksOf

LEMMA LostIsNext == Lost' = (1 .. pool'.chain) \ Kept(pool', SynSeg', glob')
BY DEF Lost, Kept, HunksIn, HunksOf

LEMMA SavedKnown ==
  ASSUME IInv, IInv', NothingLost
  PROVE  Known
<1>1. pool \in PoolType /\ pool.chain \in Nat /\ pool' \in PoolType /\ pool'.chain \in Nat
  BY PoolFields DEF IInv, TypeOK
<1>2. ASSUME Sound, Sound' PROVE Lost' \subseteq Lost
  BY <1>1, <1>2, LostIs, LostIsNext DEF NothingLost, Saved
<1> QED BY <1>2 DEF Known

LEMMA HunkySets ==
  ASSUME IInv, Hunky, Sound
  PROVE  /\ pool \in PoolType /\ glob \in GlobType /\ IsInjective(PageHunks(glob.os))
         /\ IsInjective(PageHunks(glob.seg)) /\ IsInjective(SynSeg)
BY HunkyFields DEF Hunky, Tidy, GlobApart, PagesApart

\* Steps that leave the hunks where they are.
LEMMA SameSaved ==
  ASSUME IInv, UNCHANGED glob, SynSeg' = SynSeg, pool'.chain = pool.chain,
         HunksIn(pool') = HunksIn(pool)
  PROVE  NothingLost
<1>1. Saves(pool, pool', {})
  BY HunkyFields, SavesSame
<1> QED BY <1>1, SavedBy DEF NothingLost, Kept

LEMMA FailSaved == ASSUME NEW e, Fail(e) PROVE NothingLost
BY DEF Fail, NothingLost, Sound, Running

LEMMA PermAllocSaved ==
  ASSUME IInv, NEW n \in Sizes, PermAllocCall(n)
  PROVE  NothingLost
<1>1. CASE Fail(PermAlloc(pool, n).err)
  BY <1>1, FailSaved
<1>2. CASE PermAlloc(pool, n).err = "none" /\ pool' = PermAlloc(pool, n) /\ UNCHANGED <<glob, syn, pc>>
  <2>1. Saves(pool, pool', {})
    BY <1>2, HunkyFields, SizesNat, PermAllocSaves
  <2>2. SynSeg' = SynSeg
    BY <1>2 DEF SynSeg, Running
  <2> QED BY <1>2, <2>1, <2>2, SavedBy DEF NothingLost, Kept
<1> QED BY <1>1, <1>2 DEF PermAllocCall

LEMMA GlobSaved ==
  ASSUME IInv, Hunky, NEW n \in Nat, GlobAlloc(pool, glob, n).pool.err = "none",
         pool' = GlobAlloc(pool, glob, n).pool, glob' = GlobAlloc(pool, glob, n).glob,
         UNCHANGED <<syn, pc>>
  PROVE  NothingLost
<1>1. SynSeg' = SynSeg
  BY DEF SynSeg, Running
<1> QED BY <1>1, HunkySets, GlobAllocSaved DEF NothingLost

LEMMA GlobAllocCallSaved ==
  ASSUME IInv, Hunky, NEW n \in Sizes, GlobAllocCall(n)
  PROVE  NothingLost
<1> DEFINE r == GlobAlloc(pool, glob, n)
<1>1. CASE Fail(r.pool.err)
  BY <1>1, FailSaved
<1>2. CASE r.pool.err = "none" /\ pool' = r.pool /\ glob' = r.glob /\ UNCHANGED <<syn, pc>>
  BY <1>2, SizesNat, GlobSaved
<1> QED BY <1>1, <1>2 DEF GlobAllocCall

LEMMA AllocMarkSaved ==
  ASSUME IInv, Hunky, AllocMark
  PROVE  NothingLost
<1> DEFINE r == GlobAlloc(pool, glob, MarkSize)
<1>1. CASE Fail(r.pool.err)
  BY <1>1, FailSaved
<1>2. CASE r.pool.err = "none" /\ pool' = r.pool /\ glob' = r.glob /\ UNCHANGED <<syn, pc>>
  BY <1>2, SizesNat, GlobSaved
<1>3. CASE UNCHANGED <<pool, glob, syn, pc>>
  BY <1>3, SameSaved DEF SynSeg, Running
<1> QED BY <1>1, <1>2, <1>3 DEF AllocMark

LEMMA SynAllocSaved ==
  ASSUME IInv, pc = "run", NEW n \in Nat, SynAlloc(n)
  PROVE  NothingLost
<1> DEFINE r == Room(pool, Len(syn.seg))
<1>1. CASE Fail("overlarge") \/ SynFails(n)
  BY <1>1, FailSaved DEF SynFails
<1>2. CASE SynBump(n) /\ UNCHANGED glob
  <2>1. syn'.seg = syn.seg /\ UNCHANGED <<pool, pc>>
    BY <1>2, HunkyFields DEF SynBump, SynType
  <2> QED BY <1>2, <2>1, SameSaved DEF SynSeg, Running
<1>3. CASE SynScavenge(n) /\ UNCHANGED glob
  <2>1. PICK i \in 1 .. Len(syn.seg) :
          syn' = [Scavenged(syn, i, syn.seg[i], n) EXCEPT !.seg = Swap(@, i, Len(@))]
    BY <1>3 DEF SynScavenge
  <2>2. UNCHANGED <<pool, pc>>
    BY <1>3 DEF SynScavenge
  <2>3. syn'.seg = Swap(syn.seg, i, Len(syn.seg))
    BY <2>1, HunkyFields DEF Scavenged, SynType
  <2>4. Len(syn.seg) \in 1 .. Len(syn.seg)
    BY HunkyFields
  <2>5. ToSet(syn'.seg) = ToSet(syn.seg)
    BY <2>3, <2>4, HunkyFields, SwapSet
  <2>6. SynSeg' = syn'.seg /\ SynSeg = syn.seg
    BY <2>2, HunkyFields DEF SynSeg, Running
  <2>7. Saves(pool, pool', {})
    BY <2>2, HunkyFields, SavesSame
  <2> QED BY <1>3, <2>5, <2>6, <2>7, SavedBy DEF NothingLost, Kept
<1>4. CASE SynNewHunk(n) /\ UNCHANGED glob
  <2>1. /\ pool' = TakeHunk(r) /\ TakeHunk(r).err = "none" /\ UNCHANGED pc
        /\ syn' = [NewCurrent(syn, HunkFor(r), n) EXCEPT !.seg = Append(@, HunkFor(r))]
    BY <1>4 DEF SynNewHunk
  <2>2. syn'.seg = Append(syn.seg, HunkFor(r))
    BY <2>1, HunkyFields DEF NewCurrent, SynType
  <2>3. Saves(pool, pool', {HunkFor(r)})
    BY <2>1, HunkyFields, RoomThenTake
  <2>4. HunkFor(r) \in Hunk
    BY <2>1, HunkyFields, RoomPasses, TakeHunkPasses DEF Passes, Keeps
  <2> HIDE DEF r
  <2>5. ToSet(syn'.seg) = ToSet(syn.seg) \cup {HunkFor(r)}
    BY <2>2, <2>4, HunkyFields, AppendSet
  <2>6. SynSeg' = syn'.seg /\ SynSeg = syn.seg
    BY <2>1, HunkyFields DEF SynSeg, Running
  <2> QED BY <1>4, <2>3, <2>5, <2>6, SavedBy DEF NothingLost, Kept
<1> QED BY <1>1, <1>2, <1>3, <1>4 DEF SynAlloc

LEMMA NextBindSaves ==
  ASSUME NEW s \in PoolType, s.bindsegcur <= Len(s.bindseg), NextBindHunk(s).err = "none"
  PROVE  Saves(s, NextBindHunk(s), {})
<1>1. CASE Spare(s)
  BY <1>1, SavesSame DEF NextBindHunk
<1>2. CASE ~Spare(s)
  <2> DEFINE c == CcAlloc(s)
             r == Room(c, Len(s.bindseg))
             t == NextBindHunk(s)
             h == s.chain + 1
  <2>1. t = [r EXCEPT !.bindseg = Append(r.bindseg, h)]
    BY <1>2 DEF NextBindHunk
  <2>2. c \in PoolType /\ Len(s.bindseg) \in Nat
    BY CcAllocPasses, PoolFields DEF Passes, Keeps
  <2>3. Passes(c, r) /\ r \in PoolType
    BY <2>2, RoomPasses DEF Passes, Keeps
  <2>4. r.err = "none"
    <3>1. t.err = r.err
      <4> HIDE DEF r
      <4> QED BY <2>1, <2>3 DEF PoolType
    <3> QED BY <3>1
  <2>5. c.err = "none" /\ h \in Hunk
    <3>1. c.err = "none"
      BY <2>3, <2>4 DEF Passes, Keeps
    <3> QED BY <3>1, CcAllocPasses
  <2>6. Saves(s, c, {h}) /\ Saves(c, r, {})
    BY <2>2, <2>4, <2>5, CcAllocSaves, RoomSaves
  <2> HIDE DEF c, r, t, h
  <2>7. r.bindseg \in Seq(Hunk)
    BY <2>3, PoolFields
  <2>8. ToSet(Append(r.bindseg, h)) = ToSet(r.bindseg) \cup {h}
    BY <2>5, <2>7, AppendSet
  <2>9. t.chain = r.chain /\ t.perm = r.perm /\ t.bindseg = Append(r.bindseg, h)
    BY <2>1, <2>3 DEF PoolType
  <2>10. HunksIn(t) = HunksIn(r) \cup {h} /\ c.chain \in Nat
    BY <2>2, <2>8, <2>9, PoolFields DEF HunksIn
  <2>11. Saves(s, t, {})
    BY <2>6, <2>9, <2>10 DEF Saves
  <2> QED BY <2>11 DEF t
<1> QED BY <1>1, <1>2

LEMMA BindAllocSaved ==
  ASSUME IInv, pc = "run", NEW n \in Nat, BindAlloc(n)
  PROVE  NothingLost
<1> DEFINE s == NextBindHunk(pool)
<1>1. CASE Fail("overlarge") \/ BindFails(n)
  BY <1>1, FailSaved DEF BindFails
<1>2. CASE BindBump(n) /\ UNCHANGED <<glob, syn>>
  <2>1. UNCHANGED <<pool, pc>>
    BY <1>2 DEF BindBump
  <2> QED BY <1>2, <2>1, SameSaved DEF SynSeg, Running
<1>3. CASE BindScavenge(n) /\ UNCHANGED <<glob, syn>>
  <2>1. PICK i \in 1 .. pool.bindsegcur :
          pool' = [pool EXCEPT !.bindseg = Swap(pool.bindseg, i, pool.bindsegcur)]
    BY <1>3 DEF BindScavenge
  <2>2. UNCHANGED pc
    BY <1>3 DEF BindScavenge
  <2>3. i \in 1 .. Len(pool.bindseg) /\ pool.bindsegcur \in 1 .. Len(pool.bindseg)
    BY <2>1, HunkyFields
  <2>4. ToSet(Swap(pool.bindseg, i, pool.bindsegcur)) = ToSet(pool.bindseg)
    BY <2>3, HunkyFields, SwapSet
  <2>5. /\ pool'.chain = pool.chain /\ pool'.perm = pool.perm
        /\ pool'.bindseg = Swap(pool.bindseg, i, pool.bindsegcur)
    BY <2>1, HunkyFields DEF PoolType
  <2>6. HunksIn(pool') = HunksIn(pool)
    BY <2>4, <2>5 DEF HunksIn
  <2> QED BY <1>3, <2>2, <2>5, <2>6, SameSaved DEF SynSeg, Running
<1>4. CASE BindNewHunk(n) /\ UNCHANGED <<glob, syn>>
  <2>1. /\ pool' = [s EXCEPT !.bindsegcur = s.bindsegcur + 1] /\ s.err = "none"
        /\ UNCHANGED pc
    BY <1>4 DEF BindNewHunk
  <2>2. s \in PoolType /\ Saves(pool, s, {})
    BY <2>1, HunkyFields, NextBindHunkFacts, NextBindSaves
  <2> HIDE DEF s
  <2>3. pool'.chain = s.chain /\ HunksIn(pool') = HunksIn(s)
    BY <2>1, <2>2 DEF PoolType, HunksIn
  <2>4. Saves(pool, pool', {})
    BY <2>2, <2>3 DEF Saves
  <2>5. SynSeg' = SynSeg
    BY <1>4, <2>1 DEF SynSeg, Running
  <2> QED BY <1>4, <2>4, <2>5, SavedBy DEF NothingLost, Kept
<1> QED BY <1>1, <1>2, <1>3, <1>4 DEF BindAlloc

LEMMA ConsSaved ==
  ASSUME IInv, pc = "run", NEW k \in CellSizes, SynCons(k) \/ BindCons(k)
  PROVE  NothingLost
<1>1. CASE SynAlloc(k) \/ BindAlloc(k)
  BY <1>1, SizesNat, SynAllocSaved, BindAllocSaved
<1>2. CASE syn'.seg = syn.seg /\ UNCHANGED <<pool, glob, pc>>
  BY <1>2, SameSaved DEF SynSeg, Running
<1>3. SynCons(k) /\ syn.free[k] # <<>> => syn'.seg = syn.seg /\ UNCHANGED <<pool, glob, pc>>
  BY HunkyFields DEF SynCons, SynType
<1>4. BindCons(k) /\ bnd.free[k] # <<>> => syn'.seg = syn.seg /\ UNCHANGED <<pool, glob, pc>>
  BY DEF BindCons
<1> QED BY <1>1, <1>2, <1>3, <1>4 DEF SynCons, BindCons

LEMMA DiscardSaved ==
  ASSUME IInv, NEW o \in Obs, Discard(o)
  PROVE  NothingLost
<1>1. syn'.seg = syn.seg /\ UNCHANGED <<pool, glob, pc>>
  BY HunkyFields DEF Discard, SynType
<1> QED BY <1>1, SameSaved DEF SynSeg, Running

LEMMA AllocUnmarkSaved ==
  ASSUME IInv, IInv', Hunky, pc = "run", NEW i \in 2 .. Len(marklist), AllocUnmark(i)
  PROVE  Known
<1>1. CASE UnmarkPending(i)
  BY <1>1, SameSaved, SavedKnown DEF UnmarkPending, SynSeg, Running
<1>2. CASE Fail("unmark1")
  BY <1>2, FailSaved, SavedKnown
<1>3. CASE UnmarkTop
  <2>1. PICK k \in 1 .. Len(marklist) - 1 :
          /\ syn' = SynBackTo(marklist[k + 1])
          /\ pool' = [pool EXCEPT !.bindsegcur = marklist[k + 1].bindno]
          /\ marklist' = SubSeq(marklist, 1, k)
    BY <1>3 DEF UnmarkTop
  <2>2. /\ UNCHANGED <<glob, pc>> /\ Len(syn.seg) = Top.synno
        /\ Top = marklist[Len(marklist)]
    BY <1>3 DEF UnmarkTop, Top, Last
  <2> DEFINE m == marklist[k + 1]
             z == SubSeq(syn.seg, 1, m.synno)
  <2>3. /\ Len(marklist) \in Nat /\ k + 1 \in 1 .. Len(marklist) /\ marklist \in Seq(MarkType)
        /\ marklist # <<>>
    BY <2>1, MarkFields, EmptySeq DEF IInv, TypeOK
  <2>4. m.synno \in Nat /\ m.synno <= Len(syn.seg)
    BY <2>3, HunkyFields, MarkFields DEF IInv, Shape
  <2>5. /\ SynSeg' = z /\ SynSeg = syn.seg
        /\ pool'.chain = pool.chain /\ HunksIn(pool') = HunksIn(pool)
    <3>1. syn'.seg = z
      BY <2>1 DEF SynBackTo
    <3>2. pool'.chain = pool.chain /\ pool'.perm = pool.perm /\ pool'.bindseg = pool.bindseg
      BY <2>1, HunkyFields DEF PoolType
    <3> QED BY <2>2, <3>1, <3>2, HunkyFields DEF SynSeg, Running, HunksIn
  <2> HIDE DEF m, z
  <2>6. CASE k + 1 = Len(marklist)
    <3>1. m.synno = Len(syn.seg)
      BY <2>2, <2>6 DEF m
    <3>2. z = syn.seg
      BY <3>1, HunkyFields, SubSeqFacts DEF z
    <3>3. NothingLost
      BY <2>2, <2>5, <3>2, SameSaved
    <3> QED BY <3>3, SavedKnown
  <2>7. CASE k + 1 # Len(marklist)
    <3>1. Len(marklist') = k
      BY <2>1, <2>3, SubSeqFacts
    <3>2. Len(marklist') < Len(marklist) - 1
      BY <2>3, <2>7, <3>1
    <3>3. Lost' \ Lost \subseteq ToSet(syn.seg)
      BY <2>2, <2>5, LostIs, LostIsNext DEF Kept
    <3> QED BY <2>3, <3>2, <3>3 DEF Known
  <2> QED BY <2>6, <2>7
<1> QED BY <1>1, <1>2, <1>3 DEF AllocUnmark

LEMMA LoopSaved ==
  ASSUME IInv, Drop("drop") \/ DropEnd \/ PerFileFinalise \/ AllocReinit, Running
  PROVE  NothingLost
<1>1. CASE Drop("drop")
  BY <1>1, SameSaved DEF Drop, SynSeg, Running
<1>2. CASE DropEnd
  <2>1. syn'.seg = syn.seg /\ UNCHANGED <<pool, glob>> /\ Running'
    BY <1>2, HunkyFields DEF DropEnd, SynType, Running
  <2> QED BY <2>1, SameSaved DEF SynSeg
<1>3. CASE PerFileFinalise
  <2>1. CASE Fail("marklist")
    BY <2>1, FailSaved
  <2>2. CASE pc' = "finaldrop" /\ UNCHANGED <<pool, glob, syn>>
    BY <2>2, SameSaved DEF SynSeg, Running
  <2> QED BY <1>3, <2>1, <2>2 DEF PerFileFinalise
<1>4. CASE AllocReinit
  <2>1. CASE Fail("reinit")
    BY <2>1, FailSaved
  <2>2. CASE /\ pool' = [pool EXCEPT !.bindsegcur = Top.bindno]
             /\ UNCHANGED <<glob, syn, pc>>
    <3>1. pool'.chain = pool.chain /\ HunksIn(pool') = HunksIn(pool)
      BY <2>2, HunkyFields DEF PoolType, HunksIn
    <3> QED BY <2>2, <3>1, SameSaved DEF SynSeg, Running
  <2> QED BY <1>4, <2>1, <2>2 DEF AllocReinit
<1> QED BY <1>1, <1>2, <1>3, <1>4

\* A hunk goes from Syn, or from Glob, to the spares of Bind.
LEMMA RecycledSaves ==
  ASSUME NEW s \in PoolType, NEW h \in Hunk, Room(s, Len(s.bindseg)).err = "none"
  PROVE  LET r == Room(s, Len(s.bindseg))
             t == [r EXCEPT !.bindseg = Append(r.bindseg, h)]
         IN  Saves(s, t, {}) /\ h \in HunksIn(t)
<1> DEFINE r == Room(s, Len(s.bindseg))
           t == [r EXCEPT !.bindseg = Append(r.bindseg, h)]
<1>1. Len(s.bindseg) \in Nat
  BY PoolFields
<1>2. r \in PoolType /\ Saves(s, r, {})
  BY <1>1, RoomPasses, RoomSaves DEF Passes, Keeps
<1> HIDE DEF r
<1>3. t.chain = r.chain /\ t.perm = r.perm /\ t.bindseg = Append(r.bindseg, h)
  BY <1>2 DEF PoolType
<1> HIDE DEF t
<1>4. ToSet(t.bindseg) = ToSet(r.bindseg) \cup {h}
  <2>1. ToSet(Append(r.bindseg, h)) = ToSet(r.bindseg) \cup {h}
    BY <1>2, PoolFields, AppendSet
  <2> QED BY <1>3, <2>1
<1>5. Saves(s, t, {}) /\ h \in HunksIn(t)
  BY <1>2, <1>3, <1>4 DEF Saves, HunksIn
<1> QED BY <1>5 DEF r, t

LEMMA DropHunkSaved ==
  ASSUME IInv, DropHunk
  PROVE  NothingLost
<1> DEFINE r == Room(pool, Len(pool.bindseg))
           h == Last(syn.seg)
<1>1. Running /\ Len(syn.seg) > Top.synno
  BY DEF DropHunk, Running
<1>2. syn.seg # <<>>
  BY <1>1, TopFacts, HunkyFields, EmptySeq
<1>3. CASE Fail(r.err)
  BY <1>3, FailSaved
<1>4. CASE /\ r.err = "none" /\ pool' = [r EXCEPT !.bindseg = Append(r.bindseg, h)]
           /\ syn' = [syn EXCEPT !.seg = Front(syn.seg), !.ptr = Front(syn.ptr)]
           /\ UNCHANGED <<glob, pc>>
  <2>1. syn'.seg = Front(syn.seg)
    BY <1>4, HunkyFields DEF SynType
  <2>2. h \in Hunk /\ ToSet(syn.seg) \subseteq ToSet(Front(syn.seg)) \cup {h}
    BY <1>2, HunkyFields, FrontFacts, FrontCovers
  <2>3. Saves(pool, pool', {}) /\ h \in HunksIn(pool')
    BY <1>4, <2>2, HunkyFields, RecycledSaves
  <2>4. SynSeg' = syn'.seg /\ SynSeg = syn.seg
    BY <1>1, <1>4 DEF SynSeg, Running
  <2> HIDE DEF h
  <2>5. ToSet(SynSeg) \cup HunksOf(glob) \subseteq Kept(pool', SynSeg', glob')
    BY <1>4, <2>1, <2>2, <2>3, <2>4 DEF Kept
  <2> QED BY <2>3, <2>5, SavedBy DEF NothingLost
<1> QED BY <1>3, <1>4 DEF DropHunk

LEMMA RecycleSaved ==
  ASSUME IInv, Hunky, RecycleGlobPage
  PROVE  NothingLost
<1> DEFINE r    == Room(pool, Len(pool.bindseg))
           page == Last(glob.seg)
<1>1. Running /\ glob.seg # <<>> /\ Sound
  BY DEF RecycleGlobPage, Running, Sound
<1>2. CASE Fail(r.err)
  BY <1>2, FailSaved
<1>3. /\ glob \in GlobType /\ glob.seg \in Seq(Page) /\ glob.os \in Seq(Page)
      /\ page \in Page /\ page.hunk \in Hunk /\ Front(glob.seg) \in Seq(Page)
  <2>1. /\ glob \in GlobType /\ glob.seg \in Seq(Page) /\ glob.os \in Seq(Page)
    BY HunkyFields, GlobFields
  <2>2. page \in Page /\ Front(glob.seg) \in Seq(Page)
    BY <1>1, <2>1, FrontFacts
  <2> HIDE DEF page
  <2> QED BY <2>1, <2>2 DEF Page
<1>4. ToSet(PageHunks(glob.seg)) \subseteq ToSet(PageHunks(Front(glob.seg))) \cup {page.hunk}
  <2>1. /\ PageHunks(glob.seg) \in Seq(Hunk) /\ PageHunks(glob.seg) # <<>>
        /\ PageHunks(Front(glob.seg)) = Front(PageHunks(glob.seg))
        /\ Last(PageHunks(glob.seg)) = page.hunk
    BY <1>1, <1>3, PageSeq, PageFront
  <2>2. ToSet(PageHunks(glob.seg))
          \subseteq ToSet(Front(PageHunks(glob.seg))) \cup {Last(PageHunks(glob.seg))}
    BY <2>1, FrontCovers
  <2> QED BY <2>1, <2>2
<1> HIDE DEF page
<1>5. CASE /\ r.err = "none"
           /\ pool' = [r EXCEPT !.bindseg = Append(r.bindseg, page.hunk)]
           /\ glob' = [glob EXCEPT !.seg = Front(glob.seg)]
           /\ UNCHANGED <<syn, pc>>
  <2>1. glob'.seg = Front(glob.seg) /\ glob'.os = glob.os
    BY <1>3, <1>5 DEF GlobType
  <2>2. Saves(pool, pool', {}) /\ page.hunk \in HunksIn(pool')
    BY <1>3, <1>5, HunkyFields, RecycledSaves
  <2>3. SynSeg' = SynSeg
    BY <1>5 DEF SynSeg, Running
  <2>4. ToSet(SynSeg) \cup HunksOf(glob) \subseteq Kept(pool', SynSeg', glob')
    BY <1>4, <2>1, <2>2, <2>3 DEF Kept, HunksOf
  <2> QED BY <2>2, <2>4, SavedBy DEF NothingLost
<1>6. CASE /\ UNCHANGED pool
           /\ glob' = [glob EXCEPT !.seg = Front(glob.seg), !.os = <<page>> \o glob.os]
           /\ UNCHANGED <<syn, pc>>
  <2>1. glob'.seg = Front(glob.seg) /\ glob'.os = <<page>> \o glob.os
    BY <1>3, <1>6 DEF GlobType
  <2>2. ToSet(PageHunks(glob'.os)) = ToSet(PageHunks(glob.os)) \cup {page.hunk}
    <3>1. PageHunks(<<page>> \o glob.os) = <<page.hunk>> \o PageHunks(glob.os)
      BY <1>3, PageCons
    <3>2. ToSet(<<page.hunk>> \o PageHunks(glob.os)) = ToSet(PageHunks(glob.os)) \cup {page.hunk}
      BY <1>3, PageSeq, ConsSet
    <3> QED BY <2>1, <3>1, <3>2
  <2>3. SynSeg' = SynSeg
    BY <1>6 DEF SynSeg, Running
  <2>4. ToSet(SynSeg) \cup HunksOf(glob) \subseteq Kept(pool', SynSeg', glob')
    BY <1>4, <2>1, <2>2, <2>3 DEF Kept, HunksOf
  <2>5. Saves(pool, pool', {})
    BY <1>6, HunkyFields, SavesSame
  <2> QED BY <2>4, <2>5, SavedBy DEF NothingLost
<1> QED BY <1>2, <1>5, <1>6 DEF RecycleGlobPage, KeepOversize, page

LEMMA FinaliseEndSaved ==
  ASSUME IInv, Emptied, FinaliseEnd
  PROVE  NothingLost
<1>1. SynSeg = <<>> /\ SynSeg' = <<>> /\ UNCHANGED <<pool, glob>>
  BY DEF FinaliseEnd, Emptied, SynSeg, Running
<1> QED BY <1>1, SameSaved

LEMMA PerFileInitSaved ==
  ASSUME IInv, IInv', Hunky, Emptied, NEW command \in BOOLEAN, PerFileInit(command)
  PROVE  Known
<1> DEFINE g == [seg |-> <<>>, os |-> glob.os, allp |-> Duff, size |-> 0]
           s == [pool EXCEPT !.bindsegcur = 0]
           r == GlobAlloc(s, g, MarkSize)
<1>1. Sound /\ SynSeg = <<>>
  BY DEF PerFileInit, Sound, SynSeg, Running
<1>2. s \in PoolType /\ g \in GlobType
  BY <1>1, ForgottenGlob
<1>3. s.chain = pool.chain /\ HunksIn(s) = HunksIn(pool) /\ g.seg = <<>> /\ g.os = glob.os
  BY HunkyFields DEF PoolType, HunksIn
<1> HIDE DEF s, g
<1>4. CASE Fail(r.pool.err)
  BY <1>4, FailSaved, SavedKnown
<1>5. CASE /\ r.pool.err = "none" /\ pool' = r.pool /\ glob' = r.glob
           /\ pc' = "run" /\ syn'.seg = <<>> /\ files' = files + 1
  <2>1. SynSeg' = <<>>
    BY <1>5 DEF SynSeg
  <2>2. IsInjective(PageHunks(g.os))
    BY <1>1, <1>3, HunkySets
  <2>3. Saved(s, <<>>, g, pool', <<>>, glob')
    BY <1>2, <1>5, <2>2, SizesNat, GlobAllocSaved
  <2>4. Kept(s, <<>>, g) \cup ToSet(PageHunks(glob.seg)) = Kept(pool, SynSeg, glob)
    <3>1. PageHunks(g.seg) = <<>>
      BY <1>3 DEF PageHunks
    <3> QED BY <1>1, <1>3, <3>1, EmptySet DEF Kept, HunksOf
  <2>5. pool.chain \in Nat /\ pool'.chain \in Nat
    BY PoolFields DEF IInv, TypeOK
  <2>6. Lost' \ Lost \subseteq ToSet(PageHunks(glob.seg))
    <3> SUFFICES ASSUME NEW h \in 1 .. pool'.chain, h \notin Kept(pool', <<>>, glob'),
                        h \notin ToSet(PageHunks(glob.seg))
                 PROVE  h \in 1 .. pool.chain /\ h \notin Kept(pool, SynSeg, glob)
      BY <2>1, LostIs, LostIsNext
    <3>1. h <= s.chain /\ h \notin Kept(s, <<>>, g)
      BY <2>3 DEF Saved
    <3> QED BY <1>3, <2>4, <2>5, <3>1
  <2>7. CASE tool
    BY <1>5, <2>6, <2>7 DEF Known
  <2>8. CASE pc = "idle"
    <3>1. PageHunks(glob.seg) = <<>>
      BY <2>8 DEF Emptied, PageHunks
    <3>2. Lost' \subseteq Lost
      BY <2>6, <3>1, EmptySet
    <3> QED BY <3>2 DEF Known
  <2> QED BY <2>7, <2>8 DEF PerFileInit
<1> QED BY <1>4, <1>5 DEF PerFileInit, s, g

LEMMA NextKnown == IInv /\ IInv' /\ Hunky /\ Emptied /\ [Next]_vars => Known
<1> SUFFICES ASSUME IInv, IInv', Hunky, Emptied, [Next]_vars PROVE Known
  OBVIOUS
<1>1. ASSUME pc = "run", Common PROVE Known
  BY <1>1, SynAllocSaved, ConsSaved, LoopSaved, SavedKnown, SizesNat DEF Common, Running
<1>2. ASSUME pc = "run", Compile PROVE Known
  BY <1>2, GlobAllocCallSaved, BindAllocSaved, ConsSaved, DiscardSaved, AllocMarkSaved,
     AllocUnmarkSaved, LoopSaved, FailSaved, SavedKnown, SizesNat
     DEF Compile, DiscardFails, Running
<1>3. ASSUME Loops PROVE Known
  <2>1. DropEnd => Running
    BY DEF DropEnd, Running
  <2> QED BY <1>3, <2>1, DropHunkSaved, LoopSaved, RecycleSaved, FinaliseEndSaved, SavedKnown
      DEF Loops
<1>4. ASSUME AllocFinalise \/ AllocInitialise PROVE Known
  BY <1>4 DEF AllocFinalise, AllocInitialise, Known, Sound, Running
<1>5. ASSUME UNCHANGED vars PROVE Known
  BY <1>5, SameSaved, SavedKnown DEF vars, SynSeg, Running
<1> QED BY <1>1, <1>2, <1>3, <1>4, <1>5, PermAllocSaved, PerFileInitSaved, SavedKnown DEF Next

----------------------------------------------------------------------------
(* What is empty between files.                                            *)

LEMMA InitEmptied == Init => Emptied
BY DEF Init, Emptied, Running

LEMMA NextEmptied == IInv /\ IInv' /\ Emptied /\ [Next]_vars => Emptied'
<1> SUFFICES ASSUME IInv, IInv', Emptied, [Next]_vars PROVE Emptied'
  OBVIOUS
<1>0. /\ marklist \in Seq(MarkType) /\ Len(marklist) \in Nat /\ glob \in GlobType /\ syn \in SynType
      /\ Running => marklist # <<>> /\ Len(marklist) >= 1
  BY MarkFields, EmptySeq DEF IInv, TypeOK, Shape
<1>1. ASSUME NEW e, Fail(e) PROVE Emptied'
  BY <1>1 DEF Fail, Emptied, Running
<1>2. ASSUME marklist' = marklist, pc' = pc, pc \notin {"final", "idle"} PROVE Emptied'
  BY <1>2 DEF Emptied, Running
<1>3. ASSUME pc = "run", pc' = "run", marklist'[1].synno = marklist[1].synno PROVE Emptied'
  BY <1>3 DEF Emptied, Running
<1>4. ASSUME UNCHANGED <<marklist, pc, glob, syn>> PROVE Emptied'
  BY <1>4 DEF Emptied, Running
<1>5. ASSUME NEW n \in Sizes, PermAllocCall(n) PROVE Emptied'
  BY <1>1, <1>4, <1>5 DEF PermAllocCall
<1>6. ASSUME pc = "run", NEW n \in Nat, SynAlloc(n) \/ BindAlloc(n) PROVE Emptied'
  BY <1>1, <1>2, <1>6 DEF SynAlloc, BindAlloc, SynBump, SynScavenge, SynNewHunk, SynFails,
     BindBump, BindScavenge, BindNewHunk, BindFails
<1>7. ASSUME pc = "run", NEW k \in CellSizes, SynCons(k) \/ BindCons(k) PROVE Emptied'
  BY <1>2, <1>6, <1>7, SizesNat DEF SynCons, BindCons
<1>8. ASSUME pc = "run", NEW n \in Sizes, GlobAllocCall(n) PROVE Emptied'
  BY <1>1, <1>2, <1>8 DEF GlobAllocCall
<1>9. ASSUME pc = "run", NEW o \in Obs, Discard(o) \/ DiscardFails(o) PROVE Emptied'
  BY <1>1, <1>2, <1>9 DEF Discard, DiscardFails
<1>10. ASSUME pc = "run", AllocMark PROVE Emptied'
  <2>1. CASE marklist' = Append(marklist, NewMark) /\ UNCHANGED pc
    <3>1. marklist'[1] = marklist[1]
      BY <1>0, <1>10, <2>1 DEF Running
    <3> QED BY <1>3, <1>10, <2>1, <3>1
  <2>2. CASE \E e : Fail(e)
    BY <1>1, <2>2
  <2> QED BY <1>10, <2>1, <2>2 DEF AllocMark
<1>11. ASSUME pc = "run", NEW i \in 2 .. Len(marklist), AllocUnmark(i) PROVE Emptied'
  <2>1. CASE UnmarkPending(i)
    <3>1. marklist' = [marklist EXCEPT ![i].unmarked = TRUE] /\ pc' = pc /\ i # 1
      BY <1>11, <2>1 DEF UnmarkPending
    <3>2. marklist'[1] = marklist[1]
      BY <1>0, <3>1
    <3> QED BY <1>3, <1>11, <3>1, <3>2
  <2>2. CASE UnmarkTop
    <3>1. PICK k \in 1 .. Len(marklist) - 1 : marklist' = SubSeq(marklist, 1, k)
      BY <2>2 DEF UnmarkTop
    <3>2. pc' = pc
      BY <2>2 DEF UnmarkTop
    <3>3. marklist'[1] = marklist[1]
      BY <1>0, <3>1, SubSeqFacts
    <3> QED BY <1>3, <1>11, <3>2, <3>3
  <2>3. CASE Fail("unmark1")
    BY <1>1, <2>3
  <2> QED BY <1>11, <2>1, <2>2, <2>3 DEF AllocUnmark
<1>12. ASSUME pc = "run", AllocReinit \/ PerFileFinalise \/ Drop("drop") PROVE Emptied'
  BY <1>1, <1>12 DEF AllocReinit, PerFileFinalise, Drop, Emptied, Running
<1>13. ASSUME DropHunk PROVE Emptied'
  BY <1>1, <1>2, <1>13 DEF DropHunk
<1>14. ASSUME DropEnd PROVE Emptied'
  <2>1. /\ pc \in {"drop", "finaldrop"} /\ Len(syn.seg) <= Top.synno /\ UNCHANGED marklist
        /\ pc' = (IF pc = "drop" THEN "run" ELSE "final") /\ Top = marklist[Len(marklist)]
    BY <1>14 DEF DropEnd, Top, Last
  <2>2. CASE pc = "drop"
    BY <2>1, <2>2 DEF Emptied, Running
  <2>3. CASE pc = "finaldrop"
    <3>1. Len(marklist) = 1 /\ marklist[1].synno = 0
      BY <2>3 DEF Emptied, Running
    <3>2. Len(syn.seg) <= 0 /\ syn.seg \in Seq(Hunk)
      BY <2>1, <3>1, HunkyFields
    <3>3. syn.seg = <<>>
      BY <3>2, EmptySeq
    <3>4. syn'.seg = syn.seg
      BY <1>0, <1>14 DEF DropEnd, SynType
    <3> QED BY <2>1, <2>3, <3>1, <3>3, <3>4 DEF Emptied, Running
  <2> QED BY <2>1, <2>2, <2>3
<1>15. ASSUME RecycleGlobPage PROVE Emptied'
  BY <1>1, <1>15 DEF RecycleGlobPage, Emptied, Running
<1>16. ASSUME FinaliseEnd PROVE Emptied'
  BY <1>16 DEF FinaliseEnd, Emptied, Running
<1>17. ASSUME NEW command \in BOOLEAN, PerFileInit(command) PROVE Emptied'
  <2>1. CASE marklist' = <<BaseMark>> /\ pc' = "run"
    <3>1. marklist'[1] = BaseMark /\ BaseMark.synno = 0
      BY <2>1 DEF BaseMark
    <3> QED BY <2>1, <3>1 DEF Emptied
  <2> QED BY <1>1, <1>17, <2>1 DEF PerFileInit
<1>18. ASSUME AllocFinalise PROVE Emptied'
  BY <1>18 DEF AllocFinalise, Emptied, Running
<1>19. ASSUME AllocInitialise PROVE Emptied'
  <2>1. glob'.seg = <<>> /\ pc' \in {"idle", "failed"}
    BY <1>0, <1>19 DEF AllocInitialise, GlobType
  <2> QED BY <2>1 DEF Emptied, Running
<1>20. ASSUME UNCHANGED vars PROVE Emptied'
  BY <1>4, <1>20 DEF vars
<1>21. ASSUME pc = "run", Common \/ Compile PROVE Emptied'
  BY <1>6, <1>7, <1>8, <1>9, <1>10, <1>11, <1>12, <1>21, SizesNat DEF Common, Compile
<1> QED BY <1>5, <1>13, <1>14, <1>15, <1>16, <1>17, <1>18, <1>19, <1>20, <1>21 DEF Next, Loops

\* No call of the allocator loses a hunk but the two named: alloc_unmark of a
\* mark over pending ones, and alloc_perfileinit after a command's.
THEOREM LossIsKnownCorrect == Spec => LossIsKnown
<1>1. Init => IInv /\ Hunky /\ Emptied
  BY InitIInv, InitHunky, InitEmptied
<1>2. IInv /\ Hunky /\ Emptied /\ [Next]_vars => (IInv /\ Hunky /\ Emptied)'
  BY NextIInv, NextHunky, NextEmptied
<1>3. IInv /\ IInv' /\ Hunky /\ Emptied /\ [Next]_vars => [Known]_vars
  BY NextKnown
<1> QED BY <1>1, <1>2, <1>3, PTL DEF Spec, LossIsKnown, Known

----------------------------------------------------------------------------
(* Pointers to the free store of a pool's last hunk.                       *)

\* t lists the same first n hunks as s.
SameUpTo(s, t, n) == n <= Len(t) /\ \A i \in 1 .. n : t[i] = s[i]

LEMMA AtKept ==
  ASSUME NEW p, NEW s, NEW t, NEW n \in Nat, NEW m \in Nat, n <= m, SameUpTo(s, t, m),
         t \in Seq(Hunk), At(p, s, n)
  PROVE  At(p, t, n)
<1>1. Len(t) \in Nat
  BY LenProperties
<1> QED BY <1>1 DEF At, SameUpTo

LEMMA AtSome ==
  ASSUME NEW s \in Seq(Hunk), NEW n \in 1 .. Len(s), NEW off \in Nat, off <= SEGSIZE
  PROVE  At([hunk |-> s[n], off |-> off], s, n)
<1>1. s[n] \in Hunk
  BY ElementOfSeq
<1>2. s[n] # 0
  BY <1>1 DEF Hunk
<1> QED BY <1>2 DEF At, Duff

LEMMA AtAdvance ==
  ASSUME NEW s \in Seq(Hunk), NEW n \in Nat, NEW p \in Pointer, NEW k \in Nat,
         At(p, s, n), Fits(p, k, SEGSIZE)
  PROVE  At(Advance(p, k), s, n) /\ n \in 1 .. Len(s) /\ p.hunk = s[n]
<1>1. p # Duff /\ p.off + k <= SEGSIZE /\ p.off \in Nat
  BY DEF Fits, Pointer
<1>2. n \in 1 .. Len(s) /\ s[n] = p.hunk
  BY <1>1 DEF At
<1>3. Advance(p, k) = [hunk |-> s[n], off |-> p.off + k] /\ p.off + k \in Nat
  BY <1>1, <1>2 DEF Advance, Pointer
<1> QED BY <1>1, <1>2, <1>3, AtSome

\* The search for scraps makes the i-th hunk the last of the n in use.
LEMMA AtSwap ==
  ASSUME NEW s \in Seq(Hunk), NEW n \in 1 .. Len(s), NEW lo \in Nat, NEW i \in lo + 1 .. n
  PROVE  LET t == Swap(s, i, n)
         IN  t \in Seq(Hunk) /\ Len(t) = Len(s) /\ t[n] = s[i] /\ SameUpTo(s, t, lo)
<1> DEFINE t == Swap(s, i, n)
<1>1. Len(s) \in Nat /\ i \in 1 .. Len(s)
  BY LenProperties
<1>2. /\ t \in Seq(Hunk) /\ Len(t) = Len(s)
      /\ \A k \in 1 .. Len(s) : t[k] = IF k = n THEN s[i] ELSE IF k = i THEN s[n] ELSE s[k]
  BY <1>1, SwapFacts, SwapSet
<1> HIDE DEF t
<1>3. \A k \in 1 .. lo : t[k] = s[k]
  BY <1>1, <1>2
<1>4. t[n] = s[i] /\ lo <= Len(t)
  BY <1>1, <1>2
<1> QED BY <1>2, <1>3, <1>4 DEF t, SameUpTo

\* What the scraps that the search finds have room for.
LEMMA ScrapFits ==
  ASSUME NEW r, r.ptr \in Seq(Nat), r.allp \in Pointer, NEW lo \in Nat, NEW n \in Nat,
         NEW i \in Scraps(r, lo, n)
  PROVE  /\ i \in lo + 1 .. Len(r.ptr) /\ i \in 1 .. Len(r.ptr)
         /\ Stash(r)[i] \in Nat /\ Stash(r)[i] + n \in Nat /\ Stash(r)[i] + n <= SEGSIZE
<1>1. i \in lo + 1 .. Len(r.ptr) /\ Stash(r)[i] + n <= SEGSIZE
  BY DEF Scraps
<1>2. i \in 1 .. Len(r.ptr) /\ Len(r.ptr) \in Nat
  BY <1>1, LenProperties
<1>3. Stash(r)[i] \in Nat
  BY <1>2, ScavengedPtr
<1> QED BY <1>1, <1>2, <1>3

\* A hunk more, of which n words are handed out.
LEMMA AtAppend ==
  ASSUME NEW s \in Seq(Hunk), NEW h \in Hunk
  PROVE  /\ Append(s, h) \in Seq(Hunk) /\ Len(Append(s, h)) = Len(s) + 1
         /\ Append(s, h)[Len(s) + 1] = h /\ SameUpTo(s, Append(s, h), Len(s))
         /\ Len(s) \in Nat
<1> DEFINE t == Append(s, h)
<1>1. /\ t \in Seq(Hunk) /\ Len(t) = Len(s) + 1 /\ t[Len(s) + 1] = h /\ Len(s) \in Nat
      /\ \A i \in 1 .. Len(s) : t[i] = s[i]
  BY AppendProperties, LenProperties
<1> HIDE DEF t
<1>2. SameUpTo(s, t, Len(s))
  BY <1>1 DEF SameUpTo
<1> QED BY <1>1, <1>2 DEF t

LEMMA SameFront ==
  ASSUME NEW s \in Seq(Hunk), NEW n \in Nat, n <= Len(s)
  PROVE  SameUpTo(s, SubSeq(s, 1, n), n) /\ SubSeq(s, 1, n) \in Seq(Hunk)
BY SubSeqFacts DEF SameUpTo

----------------------------------------------------------------------------
(* What the steps do to Syn and Bind, field by field.                      *)

\* The hunks that Bind uses are the same ones.
BindKept(s, t) ==
  t.bindsegcur = s.bindsegcur /\ SameUpTo(s.bindseg, t.bindseg, s.bindsegcur)

LEMMA PassesBind ==
  ASSUME NEW s \in PoolType, NEW t, Passes(s, t), s.bindsegcur <= Len(s.bindseg)
  PROVE  BindKept(s, t)
<1>1. /\ t.bindsegcur = s.bindsegcur /\ s.bindsegcur <= Len(t.bindseg)
      /\ Len(t.bindseg) \in Nat /\ s.bindsegcur \in Nat
      /\ \A i \in 1 .. Len(t.bindseg) : t.bindseg[i] = s.bindseg[i]
  BY PoolFields DEF Passes, Keeps
<1> QED BY <1>1 DEF BindKept, SameUpTo

LEMMA BindSame ==
  ASSUME IInv, Running
  PROVE  BindKept(pool, pool)
BY HunkyFields DEF BindKept, SameUpTo

LEMMA SynScavengeEffect ==
  ASSUME IInv, pc = "run", NEW n \in Nat, SynScavenge(n)
  PROVE  \E i \in Scraps(syn, Top.synno, n) :
           LET c == Len(syn.seg)
           IN  /\ Newest(Scraps(syn, Top.synno, n), i)
               /\ i \in Top.synno + 1 .. c /\ i \in 1 .. c /\ c \in 1 .. c
               /\ syn'.seg = Swap(syn.seg, i, c)
               /\ syn'.ptr = [Stash(syn) EXCEPT ![i] = Stash(syn)[c], ![c] = 0]
               /\ syn'.allp = [hunk |-> syn.seg[i], off |-> Stash(syn)[i] + n]
               /\ syn'.free = syn.free
               /\ Note("syn", [hunk |-> syn.seg[i], off |-> Stash(syn)[i]], n)
<1>1. PICK i \in 1 .. Len(syn.seg) :
        /\ Newest(Scraps(syn, Top.synno, n), i)
        /\ syn' = [Scavenged(syn, i, syn.seg[i], n) EXCEPT !.seg = Swap(@, i, Len(@))]
        /\ Note("syn", [hunk |-> syn.seg[i], off |-> Stash(syn)[i]], n)
  BY DEF SynScavenge
<1>2. i \in Scraps(syn, Top.synno, n)
  BY <1>1 DEF Newest
<1>3. syn \in SynType /\ Len(syn.ptr) = Len(syn.seg) /\ Len(syn.seg) \in Nat
  BY HunkyFields DEF IInv, Shape
<1>4. i \in Top.synno + 1 .. Len(syn.seg)
  BY <1>2, <1>3 DEF Scraps
<1>5. Len(syn.seg) \in 1 .. Len(syn.seg)
  BY <1>3
<1>6. /\ syn'.seg = Swap(syn.seg, i, Len(syn.seg))
      /\ syn'.ptr = [Stash(syn) EXCEPT ![i] = Stash(syn)[Len(syn.ptr)], ![Len(syn.ptr)] = 0]
      /\ syn'.allp = [hunk |-> syn.seg[i], off |-> Stash(syn)[i] + n]
      /\ syn'.free = syn.free
  BY <1>1, <1>3 DEF Scavenged, SynType
<1> QED BY <1>1, <1>2, <1>3, <1>4, <1>5, <1>6

LEMMA BindScavengeEffect ==
  ASSUME IInv, pc = "run", NEW n \in Nat, BindScavenge(n)
  PROVE  \E i \in Scraps(bnd, Top.bindno, n) :
           LET c == pool.bindsegcur
           IN  /\ Newest(Scraps(bnd, Top.bindno, n), i)
               /\ i \in Top.bindno + 1 .. c /\ i \in 1 .. c /\ c \in 1 .. Len(pool.bindseg)
               /\ pool' = [pool EXCEPT !.bindseg = Swap(pool.bindseg, i, c)]
               /\ pool'.bindseg = Swap(pool.bindseg, i, c) /\ pool'.bindsegcur = c
               /\ bnd'.ptr = [Stash(bnd) EXCEPT ![i] = Stash(bnd)[c], ![c] = 0]
               /\ bnd'.allp = [hunk |-> pool.bindseg[i], off |-> Stash(bnd)[i] + n]
               /\ bnd'.free = bnd.free
               /\ Note("bind", [hunk |-> pool.bindseg[i], off |-> Stash(bnd)[i]], n)
<1>1. PICK i \in 1 .. pool.bindsegcur :
        /\ Newest(Scraps(bnd, Top.bindno, n), i)
        /\ pool' = [pool EXCEPT !.bindseg = Swap(pool.bindseg, i, pool.bindsegcur)]
        /\ bnd' = Scavenged(bnd, i, pool.bindseg[i], n)
        /\ Note("bind", [hunk |-> pool.bindseg[i], off |-> Stash(bnd)[i]], n)
  BY DEF BindScavenge
<1>2. i \in Scraps(bnd, Top.bindno, n)
  BY <1>1 DEF Newest
<1>3. /\ bnd \in BndType /\ pool \in PoolType /\ Len(bnd.ptr) = pool.bindsegcur
      /\ pool.bindsegcur \in Nat /\ pool.bindsegcur <= Len(pool.bindseg)
      /\ Len(pool.bindseg) \in Nat
  BY HunkyFields DEF IInv, TypeOK, Shape
<1>4. i \in Top.bindno + 1 .. pool.bindsegcur
  BY <1>2, <1>3 DEF Scraps
<1>5. pool.bindsegcur \in 1 .. Len(pool.bindseg)
  BY <1>3
<1>6. pool'.bindseg = Swap(pool.bindseg, i, pool.bindsegcur) /\ pool'.bindsegcur = pool.bindsegcur
  BY <1>1, <1>3 DEF PoolType
<1>7. /\ bnd'.ptr = [Stash(bnd) EXCEPT ![i] = Stash(bnd)[Len(bnd.ptr)], ![Len(bnd.ptr)] = 0]
      /\ bnd'.allp = [hunk |-> pool.bindseg[i], off |-> Stash(bnd)[i] + n]
      /\ bnd'.free = bnd.free
  BY <1>1, <1>3 DEF Scavenged, BndType
<1> QED BY <1>1, <1>2, <1>3, <1>4, <1>5, <1>6, <1>7

LEMMA SynNewHunkEffect ==
  ASSUME IInv, Hunky, pc = "run", NEW n \in Nat, SynNewHunk(n)
  PROVE  \E h \in Hunk :
           /\ h \notin ToSet(syn.seg)
           /\ syn'.seg = Append(syn.seg, h) /\ syn'.ptr = Append(Stash(syn), 0)
           /\ syn'.allp = [hunk |-> h, off |-> n] /\ syn'.free = syn.free
           /\ Passes(pool, pool') /\ BindKept(pool, pool')
           /\ Note("syn", [hunk |-> h, off |-> 0], n)
<1> DEFINE r == Room(pool, Len(syn.seg))
           h == HunkFor(r)
<1>1. /\ pool' = TakeHunk(r) /\ TakeHunk(r).err = "none"
      /\ syn' = [NewCurrent(syn, h, n) EXCEPT !.seg = Append(@, h)]
      /\ Note("syn", [hunk |-> h, off |-> 0], n)
  BY DEF SynNewHunk
<1>2. /\ syn'.seg = Append(syn.seg, h) /\ syn'.ptr = Append(Stash(syn), 0)
      /\ syn'.allp = [hunk |-> h, off |-> n] /\ syn'.free = syn.free
  BY <1>1, HunkyFields DEF NewCurrent, SynType
<1>3. Tidy(pool, syn.seg, glob) /\ pool.bindsegcur <= Len(pool.bindseg)
  BY HunkyFields DEF Hunky
<1>4. Passes(pool, pool') /\ h \in Hunk /\ h \notin ToSet(syn.seg)
  BY <1>1, <1>3, HunkyFields, TidySynHunk
<1>5. BindKept(pool, pool')
  BY <1>3, <1>4, HunkyFields, PassesBind
<1> QED BY <1>1, <1>2, <1>4, <1>5

LEMMA BindNewHunkEffect ==
  ASSUME IInv, Hunky, pc = "run", NEW n \in Nat, BindNewHunk(n)
  PROVE  \E h \in Hunk :
           LET c == pool.bindsegcur + 1
           IN  /\ c <= Len(pool'.bindseg) /\ pool'.bindseg[c] = h
               /\ pool'.bindsegcur = c /\ SameUpTo(pool.bindseg, pool'.bindseg, pool.bindsegcur)
               /\ bnd'.ptr = Append(Stash(bnd), 0)
               /\ bnd'.allp = [hunk |-> h, off |-> n] /\ bnd'.free = bnd.free
               /\ \A x : \A e \in Nat : PermUpTo(pool, x, e) => PermUpTo(pool', x, e)
               /\ Note("bind", [hunk |-> h, off |-> 0], n)
<1> DEFINE s == NextBindHunk(pool)
           c == pool.bindsegcur + 1
           h == s.bindseg[c]
<1>1. /\ s.err = "none" /\ pool' = [s EXCEPT !.bindsegcur = s.bindsegcur + 1]
      /\ bnd' = NewCurrent(bnd, h, n) /\ Note("bind", [hunk |-> h, off |-> 0], n)
  BY DEF BindNewHunk
<1>2. Tidy(pool, syn.seg, glob) /\ pool.bindsegcur <= Len(pool.bindseg)
  BY HunkyFields DEF Hunky
<1>3. /\ s \in PoolType /\ s.bindsegcur = pool.bindsegcur /\ c <= Len(s.bindseg)
  BY <1>1, <1>2, HunkyFields, NextBindHunkFacts
<1>4. /\ \A i \in 1 .. pool.bindsegcur : s.bindseg[i] = pool.bindseg[i]
      /\ \A x : \A e \in Nat : PermUpTo(pool, x, e) => PermUpTo(s, x, e)
  BY <1>1, <1>2, HunkyFields, TidyNextBind
<1>5. /\ bnd'.ptr = Append(Stash(bnd), 0)
      /\ bnd'.allp = [hunk |-> h, off |-> n] /\ bnd'.free = bnd.free
  BY <1>1 DEF NewCurrent, IInv, TypeOK, BndType
<1> HIDE DEF s
<1>6. /\ pool'.bindseg = s.bindseg /\ pool'.bindsegcur = c /\ pool'.perm = s.perm
      /\ pool'.permallp = s.permallp
  BY <1>1, <1>3 DEF PoolType
<1>7. pool.bindsegcur \in Nat /\ Len(s.bindseg) \in Nat /\ s.bindseg \in Seq(Hunk)
  BY <1>3, HunkyFields, PoolFields
<1>8. h \in Hunk
  <2>1. c \in 1 .. Len(s.bindseg)
    BY <1>3, <1>7
  <2> QED BY <1>7, <2>1, ElementOfSeq
<1>9. SameUpTo(pool.bindseg, pool'.bindseg, pool.bindsegcur)
  BY <1>3, <1>4, <1>6, <1>7 DEF SameUpTo
<1>10. \A x : \A e \in Nat : PermUpTo(pool, x, e) => PermUpTo(pool', x, e)
  BY <1>4, <1>6 DEF PermUpTo
<1> QED BY <1>1, <1>3, <1>5, <1>6, <1>8, <1>9, <1>10

----------------------------------------------------------------------------
(* MarksRestore, step by step.                                             *)

SamePlaces(l, k) ==
  /\ Len(k) = Len(l)
  /\ \A i \in 1 .. Len(l) : /\ k[i].synno = l[i].synno /\ k[i].synp = l[i].synp
                            /\ k[i].bindno = l[i].bindno /\ k[i].bindp = l[i].bindp

\* The part of MarksRestore that Shape does not say already.
MarksAt ==
  \A i \in 1 .. Len(marklist) :
    /\ At(marklist[i].synp, syn.seg, marklist[i].synno)
    /\ At(marklist[i].bindp, pool.bindseg, marklist[i].bindno)

LEMMA MarksRestoreParts ==
  ASSUME IInv
  PROVE  MarksRestore <=>
           (Running => /\ ~Dropping => At(syn.allp, syn.seg, Len(syn.seg))
                       /\ At(bnd.allp, pool.bindseg, pool.bindsegcur)
                       /\ MarksAt)
BY DEF MarksRestore, MarksAt, IInv, Shape

LEMMA MarksRestorePartsNext ==
  ASSUME IInv'
  PROVE  MarksRestore' <=>
           (Running' => /\ ~Dropping' => At(syn'.allp, syn'.seg, Len(syn'.seg))
                        /\ At(bnd'.allp, pool'.bindseg, pool'.bindsegcur)
                        /\ MarksAt')
BY DEF MarksRestore, MarksAt, IInv, Shape

\* The marks still point into their hunks when these stay in their places.
LEMMA MarksAtKept ==
  ASSUME IInv, MarksAt, SamePlaces(marklist, marklist'), NEW a \in Nat, NEW b \in Nat,
         SameUpTo(syn.seg, syn'.seg, a), SameUpTo(pool.bindseg, pool'.bindseg, b),
         \A i \in 1 .. Len(marklist) : marklist[i].synno <= a /\ marklist[i].bindno <= b,
         syn'.seg \in Seq(Hunk), pool'.bindseg \in Seq(Hunk)
  PROVE  MarksAt'
<1> SUFFICES ASSUME NEW i \in 1 .. Len(marklist')
             PROVE  /\ At(marklist'[i].synp, syn'.seg, marklist'[i].synno)
                    /\ At(marklist'[i].bindp, pool'.bindseg, marklist'[i].bindno)
  BY DEF MarksAt
<1>1. i \in 1 .. Len(marklist)
  BY DEF SamePlaces
<1> DEFINE m == marklist[i]
<1>2. /\ marklist'[i].synno = m.synno /\ marklist'[i].synp = m.synp
      /\ marklist'[i].bindno = m.bindno /\ marklist'[i].bindp = m.bindp
  BY <1>1 DEF SamePlaces
<1>3. /\ m.synno \in Nat /\ m.bindno \in Nat /\ m.synno <= a /\ m.bindno <= b
      /\ At(m.synp, syn.seg, m.synno) /\ At(m.bindp, pool.bindseg, m.bindno)
  BY <1>1, MarkFields DEF IInv, MarksAt
<1> HIDE DEF m
<1>4. At(m.synp, syn'.seg, m.synno)
  BY <1>3, AtKept
<1>5. At(m.bindp, pool'.bindseg, m.bindno)
  BY <1>3, AtKept
<1> QED BY <1>2, <1>4, <1>5

LEMMA FieldsNext ==
  ASSUME IInv'
  PROVE  /\ syn'.seg \in Seq(Hunk) /\ pool'.bindseg \in Seq(Hunk)
         /\ pool' \in PoolType /\ syn' \in SynType /\ bnd' \in BndType
BY DEF IInv, TypeOK, SynType, PoolType

\* Steps that leave the marks and the free pointers alone.
LEMMA MarksKept ==
  ASSUME IInv, IInv', MarksRestore, SamePlaces(marklist, marklist'),
         syn'.seg = syn.seg, syn'.allp = syn.allp, bnd'.allp = bnd.allp,
         Running /\ Running' => BindKept(pool, pool'),
         Running' => Running, Dropping /\ Running' => Dropping'
  PROVE  MarksRestore'
<1> SUFFICES ASSUME Running' PROVE MarksRestore'
  BY MarksRestorePartsNext
<1>1. Running /\ BindKept(pool, pool')
  OBVIOUS
<1>2. /\ ~Dropping => At(syn.allp, syn.seg, Len(syn.seg))
      /\ At(bnd.allp, pool.bindseg, pool.bindsegcur) /\ MarksAt
  BY <1>1, MarksRestoreParts
<1>3. /\ SameUpTo(syn.seg, syn'.seg, Len(syn.seg)) /\ pool'.bindsegcur = pool.bindsegcur
      /\ SameUpTo(pool.bindseg, pool'.bindseg, pool.bindsegcur)
      /\ Len(syn.seg) \in Nat /\ pool.bindsegcur \in Nat
  BY <1>1, HunkyFields DEF SameUpTo, BindKept
<1>4. \A i \in 1 .. Len(marklist) : /\ marklist[i].synno <= Len(syn.seg)
                                    /\ marklist[i].bindno <= pool.bindsegcur
  BY <1>1 DEF IInv, Shape
<1>5. MarksAt'
  BY <1>2, <1>3, <1>4, FieldsNext, MarksAtKept
<1>6. At(bnd'.allp, pool'.bindseg, pool'.bindsegcur)
  BY <1>2, <1>3, FieldsNext, AtKept
<1>7. ~Dropping' => At(syn'.allp, syn'.seg, Len(syn'.seg))
  BY <1>2
<1> QED BY <1>5, <1>6, <1>7, MarksRestorePartsNext

LEMMA FailMarks == ASSUME NEW e, Fail(e) PROVE MarksRestore'
BY DEF Fail, MarksRestore, Running

LEMMA SameList == SamePlaces(marklist, marklist)
BY DEF SamePlaces

LEMMA NotDropping == pc = "run" => ~Dropping /\ Running
BY DEF Dropping, Running

LEMMA SynAllocMarks ==
  ASSUME IInv, IInv', Hunky, MarksRestore, pc = "run", NEW n \in Nat, SynAlloc(n)
  PROVE  MarksRestore'
<1>0. /\ Running /\ ~Dropping /\ MarksAt /\ syn \in SynType /\ syn.seg \in Seq(Hunk)
      /\ At(syn.allp, syn.seg, Len(syn.seg)) /\ Len(syn.seg) \in Nat
      /\ At(bnd.allp, pool.bindseg, pool.bindsegcur) /\ pool.bindsegcur \in Nat
      /\ syn.allp \in Pointer /\ syn.ptr \in Seq(Nat) /\ Len(syn.ptr) = Len(syn.seg)
      /\ \A i \in 1 .. Len(marklist) : /\ marklist[i].synno <= Len(syn.seg)
                                       /\ marklist[i].bindno <= pool.bindsegcur
  BY NotDropping, MarksRestoreParts, HunkyFields, SynFields DEF IInv, Shape
<1>1. CASE Fail("overlarge") \/ SynFails(n)
  BY <1>1, FailMarks DEF SynFails
<1>2. CASE SynBump(n) /\ UNCHANGED <<bnd, marklist>>
  <2>1. /\ UNCHANGED <<pool, pc>> /\ syn'.seg = syn.seg /\ Fits(syn.allp, n, SEGSIZE)
        /\ syn'.allp = Advance(syn.allp, n)
    BY <1>0, <1>2 DEF SynBump, SynType
  <2>2. At(syn'.allp, syn'.seg, Len(syn'.seg))
    BY <1>0, <2>1, AtAdvance
  <2>3. MarksAt'
    BY <1>0, <1>2, <2>1 DEF MarksAt
  <2> QED BY <1>0, <1>2, <2>1, <2>2, <2>3, MarksRestorePartsNext
<1>3. CASE SynScavenge(n) /\ UNCHANGED <<bnd, marklist>>
  <2> DEFINE c == Len(syn.seg)
  <2>1. PICK i \in Scraps(syn, Top.synno, n) :
          /\ i \in Top.synno + 1 .. c /\ i \in 1 .. c /\ c \in 1 .. c
          /\ syn'.seg = Swap(syn.seg, i, c)
          /\ syn'.allp = [hunk |-> syn.seg[i], off |-> Stash(syn)[i] + n]
    BY <1>3, SynScavengeEffect
  <2>2. UNCHANGED <<pool, pc>>
    BY <1>3 DEF SynScavenge
  <2>3. Top.synno \in Nat /\ \A j \in 1 .. Len(marklist) : marklist[j].synno <= Top.synno
    BY <1>0, TopFacts
  <2>0. c = Len(syn.seg) /\ c \in 1 .. Len(syn.seg)
    BY <2>1
  <2> HIDE DEF c
  <2>4. /\ Len(syn'.seg) = c /\ syn'.seg[c] = syn.seg[i]
        /\ SameUpTo(syn.seg, syn'.seg, Top.synno)
    <3> DEFINE t == Swap(syn.seg, i, c)
    <3>1. /\ t \in Seq(Hunk) /\ Len(t) = Len(syn.seg) /\ t[c] = syn.seg[i]
          /\ SameUpTo(syn.seg, t, Top.synno)
      <4> DEFINE s  == syn.seg
                 lo == Top.synno
      <4>1. s \in Seq(Hunk) /\ c \in 1 .. Len(s)
        BY <1>0, <2>0
      <4>2. lo \in Nat /\ i \in lo + 1 .. c
        BY <2>1, <2>3
      <4> HIDE DEF s, lo
      <4>3. LET u == Swap(s, i, c)
            IN  u \in Seq(Hunk) /\ Len(u) = Len(s) /\ u[c] = s[i] /\ SameUpTo(s, u, lo)
        BY <4>1, <4>2, AtSwap
      <4> QED BY <4>3 DEF s, lo
    <3> HIDE DEF t
    <3>2. syn'.seg = t
      BY <2>1 DEF t
    <3> QED BY <2>0, <3>1, <3>2
  <2>5. At(syn'.allp, syn'.seg, Len(syn'.seg))
    <3>1. Stash(syn)[i] + n \in Nat /\ Stash(syn)[i] + n <= SEGSIZE
      BY <1>0, <2>1, <2>3, ScrapFits
    <3> QED BY <2>1, <2>4, <3>1, FieldsNext, AtSome
  <2>6. MarksAt'
    <3>1. SameUpTo(pool.bindseg, pool'.bindseg, pool.bindsegcur) /\ SamePlaces(marklist, marklist')
      BY <1>0, <1>3, <2>2, BindSame, SameList DEF BindKept
    <3> QED BY <1>0, <2>3, <2>4, <3>1, FieldsNext, MarksAtKept
  <2> QED BY <1>0, <1>3, <2>2, <2>5, <2>6, MarksRestorePartsNext
<1>4. CASE SynNewHunk(n) /\ n <= SEGSIZE /\ UNCHANGED <<bnd, marklist>>
  <2>1. PICK h \in Hunk :
          /\ syn'.seg = Append(syn.seg, h) /\ syn'.allp = [hunk |-> h, off |-> n]
          /\ BindKept(pool, pool')
    BY <1>4, SynNewHunkEffect
  <2>2. /\ Len(syn'.seg) = Len(syn.seg) + 1 /\ syn'.seg[Len(syn.seg) + 1] = h
        /\ SameUpTo(syn.seg, syn'.seg, Len(syn.seg))
    BY <1>0, <2>1, AtAppend
  <2>3. At(syn'.allp, syn'.seg, Len(syn'.seg))
    <3>1. Len(syn'.seg) \in 1 .. Len(syn'.seg)
      BY <1>0, <2>2
    <3> QED BY <1>4, <2>1, <2>2, <3>1, FieldsNext, AtSome
  <2>4. MarksAt'
    BY <1>0, <1>4, <2>1, <2>2, FieldsNext, MarksAtKept, SameList DEF BindKept
  <2>5. At(bnd'.allp, pool'.bindseg, pool'.bindsegcur)
    BY <1>0, <1>4, <2>1, FieldsNext, AtKept DEF BindKept
  <2> QED BY <2>3, <2>4, <2>5, MarksRestorePartsNext
<1> QED BY <1>1, <1>2, <1>3, <1>4 DEF SynAlloc

LEMMA BindAllocMarks ==
  ASSUME IInv, IInv', Hunky, MarksRestore, pc = "run", NEW n \in Nat, BindAlloc(n)
  PROVE  MarksRestore'
<1>0. /\ Running /\ ~Dropping /\ MarksAt /\ bnd \in BndType /\ pool.bindseg \in Seq(Hunk)
      /\ At(syn.allp, syn.seg, Len(syn.seg)) /\ Len(syn.seg) \in Nat
      /\ At(bnd.allp, pool.bindseg, pool.bindsegcur) /\ pool.bindsegcur \in Nat
      /\ bnd.allp \in Pointer /\ bnd.ptr \in Seq(Nat) /\ Len(bnd.ptr) = pool.bindsegcur
      /\ \A i \in 1 .. Len(marklist) : /\ marklist[i].synno <= Len(syn.seg)
                                       /\ marklist[i].bindno <= pool.bindsegcur
      /\ SameUpTo(syn.seg, syn.seg, Len(syn.seg))
  BY NotDropping, MarksRestoreParts, HunkyFields, BndFields DEF IInv, TypeOK, Shape, SameUpTo
<1>1. CASE Fail("overlarge") \/ BindFails(n)
  BY <1>1, FailMarks DEF BindFails
<1>2. CASE BindBump(n) /\ UNCHANGED <<syn, marklist>>
  <2>1. /\ UNCHANGED <<pool, pc>> /\ Fits(bnd.allp, n, SEGSIZE)
        /\ bnd'.allp = Advance(bnd.allp, n)
    BY <1>0, <1>2 DEF BindBump, BndType
  <2>2. At(bnd'.allp, pool.bindseg, pool.bindsegcur)
    BY <1>0, <2>1, AtAdvance
  <2>3. MarksAt'
    BY <1>0, <1>2, <2>1 DEF MarksAt
  <2> QED BY <1>0, <1>2, <2>1, <2>2, <2>3, MarksRestorePartsNext
<1>3. CASE BindScavenge(n) /\ UNCHANGED <<syn, marklist>>
  <2> DEFINE c == pool.bindsegcur
  <2>1. PICK i \in Scraps(bnd, Top.bindno, n) :
          /\ i \in Top.bindno + 1 .. c /\ i \in 1 .. c /\ c \in 1 .. Len(pool.bindseg)
          /\ pool'.bindseg = Swap(pool.bindseg, i, c) /\ pool'.bindsegcur = c
          /\ bnd'.allp = [hunk |-> pool.bindseg[i], off |-> Stash(bnd)[i] + n]
    BY <1>3, BindScavengeEffect
  <2>2. UNCHANGED pc
    BY <1>3 DEF BindScavenge
  <2>3. Top.bindno \in Nat /\ \A j \in 1 .. Len(marklist) : marklist[j].bindno <= Top.bindno
    BY <1>0, TopFacts
  <2> HIDE DEF c
  <2>4. /\ Len(pool'.bindseg) = Len(pool.bindseg) /\ pool'.bindseg[c] = pool.bindseg[i]
        /\ SameUpTo(pool.bindseg, pool'.bindseg, Top.bindno)
    <3> DEFINE s  == pool.bindseg
               lo == Top.bindno
    <3>1. s \in Seq(Hunk) /\ c \in 1 .. Len(s)
      BY <1>0, <2>1
    <3>2. lo \in Nat /\ i \in lo + 1 .. c
      BY <2>1, <2>3
    <3> HIDE DEF s, lo
    <3>3. LET u == Swap(s, i, c)
          IN  u \in Seq(Hunk) /\ Len(u) = Len(s) /\ u[c] = s[i] /\ SameUpTo(s, u, lo)
      BY <3>1, <3>2, AtSwap
    <3> QED BY <2>1, <3>3 DEF s, lo
  <2>5. At(bnd'.allp, pool'.bindseg, c)
    <3>1. Stash(bnd)[i] + n \in Nat /\ Stash(bnd)[i] + n <= SEGSIZE
      BY <1>0, <2>1, <2>3, ScrapFits
    <3> QED BY <2>1, <2>4, <3>1, FieldsNext, AtSome
  <2>6. MarksAt'
    <3>1. SameUpTo(syn.seg, syn'.seg, Len(syn.seg)) /\ SamePlaces(marklist, marklist')
      BY <1>0, <1>3, SameList
    <3> QED BY <1>0, <2>3, <2>4, <3>1, FieldsNext, MarksAtKept
  <2> QED BY <1>0, <1>3, <2>1, <2>2, <2>5, <2>6, MarksRestorePartsNext
<1>4. CASE BindNewHunk(n) /\ n <= SEGSIZE /\ UNCHANGED <<syn, marklist>>
  <2> DEFINE c == pool.bindsegcur + 1
  <2>1. PICK h \in Hunk :
          /\ c <= Len(pool'.bindseg) /\ pool'.bindseg[c] = h /\ pool'.bindsegcur = c
          /\ SameUpTo(pool.bindseg, pool'.bindseg, pool.bindsegcur)
          /\ bnd'.allp = [hunk |-> h, off |-> n]
    BY <1>4, BindNewHunkEffect
  <2>2. UNCHANGED pc
    BY <1>4 DEF BindNewHunk
  <2>3. At(bnd'.allp, pool'.bindseg, pool'.bindsegcur)
    <3>1. c \in 1 .. Len(pool'.bindseg)
      BY <1>0, <2>1, FieldsNext, PoolFields
    <3> QED BY <1>4, <2>1, <3>1, FieldsNext, AtSome
  <2>4. MarksAt'
    BY <1>0, <1>4, <2>1, FieldsNext, MarksAtKept, SameList
  <2> QED BY <1>0, <1>4, <2>2, <2>3, <2>4, MarksRestorePartsNext
<1> QED BY <1>1, <1>2, <1>3, <1>4 DEF BindAlloc

LEMMA AllocMarkMarks ==
  ASSUME IInv, IInv', MarksRestore, pc = "run", AllocMark
  PROVE  MarksRestore'
<1> DEFINE r == GlobAlloc(pool, glob, MarkSize)
<1>0. /\ Running /\ ~Dropping /\ MarksAt /\ marklist \in Seq(MarkType)
      /\ At(syn.allp, syn.seg, Len(syn.seg)) /\ Len(syn.seg) \in Nat
      /\ At(bnd.allp, pool.bindseg, pool.bindsegcur) /\ pool.bindsegcur \in Nat
      /\ pool.bindsegcur <= Len(pool.bindseg)
      /\ pool \in PoolType /\ glob \in GlobType
      /\ \A i \in 1 .. Len(marklist) : /\ marklist[i].synno <= Len(syn.seg)
                                       /\ marklist[i].bindno <= pool.bindsegcur
      /\ SameUpTo(syn.seg, syn.seg, Len(syn.seg))
  <2>1. Running /\ ~Dropping
    BY NotDropping
  <2>2. /\ MarksAt /\ At(syn.allp, syn.seg, Len(syn.seg))
        /\ At(bnd.allp, pool.bindseg, pool.bindsegcur)
    BY <2>1, MarksRestoreParts
  <2>3. /\ pool \in PoolType /\ glob \in GlobType /\ Len(syn.seg) \in Nat
        /\ pool.bindsegcur \in Nat /\ pool.bindsegcur <= Len(pool.bindseg)
    BY <2>1, HunkyFields
  <2>4. /\ marklist \in Seq(MarkType)
        /\ \A i \in 1 .. Len(marklist) : /\ marklist[i].synno <= Len(syn.seg)
                                         /\ marklist[i].bindno <= pool.bindsegcur
    BY <2>1 DEF IInv, TypeOK, Shape, Running
  <2>5. SameUpTo(syn.seg, syn.seg, Len(syn.seg))
    BY <2>3 DEF SameUpTo
  <2> QED BY <2>1, <2>2, <2>3, <2>4, <2>5
<1>1. Passes(pool, r.pool)
  BY <1>0, SizesNat, GlobAllocPasses
<1>2. \/ Fail(r.pool.err)
      \/ /\ marklist' = Append(marklist, NewMark) /\ UNCHANGED <<syn, bnd, pc>>
         /\ pool' = r.pool \/ UNCHANGED pool
  BY DEF AllocMark
<1> HIDE DEF r
<1>3. CASE Fail(r.pool.err)
  BY <1>3, FailMarks
<1>4. CASE ~Fail(r.pool.err)
  <2>1. /\ Running' /\ UNCHANGED <<syn, bnd, pc>> /\ BindKept(pool, pool')
    BY <1>0, <1>1, <1>2, <1>4, PassesBind, BindSame DEF Running
  <2>2. At(bnd.allp, pool'.bindseg, pool.bindsegcur) /\ pool'.bindsegcur = pool.bindsegcur
    BY <1>0, <2>1, FieldsNext, AtKept DEF BindKept
  <2>3. /\ NewMark.synno = Len(syn.seg) /\ NewMark.bindno = pool.bindsegcur
        /\ NewMark.synp = syn.allp /\ NewMark.bindp = bnd.allp /\ NewMark \in MarkType
    BY <1>0, SynFields, BndFields DEF NewMark, MarkType, IInv, TypeOK
  <2> HIDE DEF NewMark
  <2>4. /\ Len(marklist') = Len(marklist) + 1 /\ Len(marklist) \in Nat
        /\ \A i \in 1 .. Len(marklist) : marklist'[i] = marklist[i]
        /\ marklist'[Len(marklist) + 1] = NewMark
    BY <1>0, <1>2, <1>4, <2>3, AppendProperties, LenProperties
  <2>5. ASSUME NEW i \in 1 .. Len(marklist')
        PROVE  /\ At(marklist'[i].synp, syn'.seg, marklist'[i].synno)
               /\ At(marklist'[i].bindp, pool'.bindseg, marklist'[i].bindno)
    <3>1. CASE i = Len(marklist) + 1
      BY <1>0, <2>1, <2>2, <2>3, <2>4, <3>1
    <3>2. CASE i \in 1 .. Len(marklist)
      <4> DEFINE m == marklist[i]
      <4>1. /\ m.bindno \in Nat /\ m.bindno <= pool.bindsegcur
            /\ At(m.synp, syn.seg, m.synno) /\ At(m.bindp, pool.bindseg, m.bindno)
        BY <1>0, <3>2, MarkFields DEF IInv, MarksAt
      <4>2. marklist'[i] = m
        BY <2>4, <3>2
      <4> HIDE DEF m
      <4>3. At(m.bindp, pool'.bindseg, m.bindno)
        BY <1>0, <2>1, <4>1, FieldsNext, AtKept DEF BindKept
      <4> QED BY <2>1, <4>1, <4>2, <4>3
    <3> QED BY <2>4, <3>1, <3>2
  <2>6. MarksAt'
    BY <2>5 DEF MarksAt
  <2> QED BY <1>0, <2>1, <2>2, <2>6, MarksRestorePartsNext
<1> QED BY <1>3, <1>4

\* alloc_unmark of the top mark goes back to mark k + 1, and keeps k marks.
LEMMA UnmarkTopEffect ==
  ASSUME IInv, pc = "run", UnmarkTop
  PROVE  \E k \in 1 .. Len(marklist) - 1 :
           LET m == marklist[k + 1]
           IN  /\ StillSet(k) /\ Kill(LAMBDA x : x.level > k)
               /\ k \in Nat /\ k \in 1 .. Len(marklist) /\ k + 1 \in 1 .. Len(marklist)
               /\ m \in MarkType /\ m.synno \in Nat /\ m.bindno \in Nat
               /\ m.synno <= Len(syn.seg) /\ m.bindno <= pool.bindsegcur
               /\ \A i \in 1 .. k : /\ marklist[i].synno <= m.synno
                                    /\ marklist[i].bindno <= m.bindno
               /\ Len(marklist') = k /\ \A i \in 1 .. k : marklist'[i] = marklist[i]
               /\ syn'.seg = SubSeq(syn.seg, 1, m.synno) /\ syn'.ptr = CutPtr(syn.ptr, m.synno)
               /\ syn'.allp = m.synp /\ syn'.free = NoCells
               /\ bnd'.ptr = CutPtr(bnd.ptr, m.bindno)
               /\ bnd'.allp = m.bindp /\ bnd'.free = NoCells
               /\ pool' = [pool EXCEPT !.bindsegcur = m.bindno]
               /\ pool'.bindseg = pool.bindseg /\ pool'.bindsegcur = m.bindno
<1>1. PICK k \in 1 .. Len(marklist) - 1 :
        /\ StillSet(k) /\ Kill(LAMBDA x : x.level > k)
        /\ syn' = SynBackTo(marklist[k + 1]) /\ bnd' = BindBackTo(marklist[k + 1])
        /\ pool' = [pool EXCEPT !.bindsegcur = marklist[k + 1].bindno]
        /\ marklist' = SubSeq(marklist, 1, k)
  BY DEF UnmarkTop
<1> DEFINE m == marklist[k + 1]
<1>2. /\ k \in Nat /\ k \in 1 .. Len(marklist) /\ k + 1 \in 1 .. Len(marklist)
      /\ k <= Len(marklist) /\ marklist \in Seq(MarkType)
  BY <1>1, MarkFields DEF IInv, TypeOK
<1>3. m \in MarkType /\ m.synno \in Nat /\ m.bindno \in Nat
  BY <1>2, MarkFields DEF IInv
<1>4. m.synno <= Len(syn.seg) /\ m.bindno <= pool.bindsegcur
  BY <1>2, HunkyFields DEF IInv, Shape
<1>5. \A i \in 1 .. k : marklist[i].synno <= m.synno /\ marklist[i].bindno <= m.bindno
  <2>1. \A i, j \in 1 .. Len(marklist) :
          i <= j => /\ marklist[i].synno <= marklist[j].synno
                    /\ marklist[i].bindno <= marklist[j].bindno
    BY HunkyFields DEF IInv, Shape
  <2>2. \A i \in 1 .. k : i \in 1 .. Len(marklist) /\ i <= k + 1
    BY <1>2
  <2> QED BY <1>2, <2>1, <2>2
<1>6. Len(marklist') = k /\ \A i \in 1 .. k : marklist'[i] = marklist[i]
  BY <1>1, <1>2, SubSeqFacts
<1>7. /\ syn'.seg = SubSeq(syn.seg, 1, m.synno) /\ syn'.ptr = CutPtr(syn.ptr, m.synno)
      /\ syn'.allp = m.synp /\ syn'.free = NoCells
      /\ bnd'.ptr = CutPtr(bnd.ptr, m.bindno)
      /\ bnd'.allp = m.bindp /\ bnd'.free = NoCells
  BY <1>1 DEF SynBackTo, BindBackTo
<1>8. pool'.bindseg = pool.bindseg /\ pool'.bindsegcur = m.bindno
  BY <1>1, HunkyFields DEF PoolType
<1> HIDE DEF m
<1> QED BY <1>1, <1>2, <1>3, <1>4, <1>5, <1>6, <1>7, <1>8 DEF m

LEMMA UnmarkTopMarks ==
  ASSUME IInv, IInv', MarksRestore, pc = "run", UnmarkTop
  PROVE  MarksRestore'
<1>1. PICK k \in 1 .. Len(marklist) - 1 :
        LET m == marklist[k + 1]
        IN  /\ k \in Nat /\ k \in 1 .. Len(marklist) /\ k + 1 \in 1 .. Len(marklist)
            /\ m.synno \in Nat /\ m.bindno \in Nat /\ m.synno <= Len(syn.seg)
            /\ \A i \in 1 .. k : /\ marklist[i].synno <= m.synno
                                 /\ marklist[i].bindno <= m.bindno
            /\ Len(marklist') = k /\ \A i \in 1 .. k : marklist'[i] = marklist[i]
            /\ syn'.seg = SubSeq(syn.seg, 1, m.synno)
            /\ syn'.allp = m.synp /\ bnd'.allp = m.bindp
            /\ pool'.bindseg = pool.bindseg /\ pool'.bindsegcur = m.bindno
  BY UnmarkTopEffect
<1> DEFINE m == marklist[k + 1]
<1>2. /\ m.synno \in Nat /\ m.bindno \in Nat /\ m.synno <= Len(syn.seg)
      /\ \A i \in 1 .. k : marklist[i].synno <= m.synno /\ marklist[i].bindno <= m.bindno
      /\ syn'.seg = SubSeq(syn.seg, 1, m.synno)
      /\ syn'.allp = m.synp /\ bnd'.allp = m.bindp /\ pool'.bindsegcur = m.bindno
  BY <1>1
<1>3. MarksAt /\ Running
  BY NotDropping, MarksRestoreParts
<1>4. At(m.synp, syn.seg, m.synno) /\ At(m.bindp, pool.bindseg, m.bindno)
  BY <1>1, <1>3 DEF MarksAt
<1> HIDE DEF m
<1>5. SameUpTo(syn.seg, syn'.seg, m.synno) /\ Len(syn'.seg) = m.synno
  BY <1>2, HunkyFields, SameFront, SubSeqFacts
<1>6. At(m.synp, syn'.seg, m.synno)
  <2>1. m.synno <= m.synno
    BY <1>2
  <2> QED BY <1>2, <1>4, <1>5, <2>1, FieldsNext, AtKept
<1>7. ASSUME NEW i \in 1 .. Len(marklist')
      PROVE  /\ At(marklist'[i].synp, syn'.seg, marklist'[i].synno)
             /\ At(marklist'[i].bindp, pool'.bindseg, marklist'[i].bindno)
  <2>1. i \in 1 .. k /\ i \in 1 .. Len(marklist)
    BY <1>1
  <2> DEFINE q == marklist[i]
  <2>2. /\ q.synno \in Nat /\ q.synno <= m.synno /\ marklist'[i] = q
        /\ At(q.synp, syn.seg, q.synno) /\ At(q.bindp, pool.bindseg, q.bindno)
    BY <1>1, <1>2, <1>3, <2>1, MarkFields DEF IInv, MarksAt
  <2> HIDE DEF q
  <2>3. At(q.synp, syn'.seg, q.synno)
    BY <1>2, <1>5, <2>2, FieldsNext, AtKept
  <2> QED BY <1>1, <2>2, <2>3
<1>8. MarksAt'
  BY <1>7 DEF MarksAt
<1> QED BY <1>1, <1>2, <1>4, <1>5, <1>6, <1>8, MarksRestorePartsNext

LEMMA AllocUnmarkMarks ==
  ASSUME IInv, IInv', MarksRestore, pc = "run", NEW i \in 2 .. Len(marklist), AllocUnmark(i)
  PROVE  MarksRestore'
<1>1. CASE UnmarkPending(i)
  <2>1. /\ marklist' = [marklist EXCEPT ![i].unmarked = TRUE]
        /\ UNCHANGED <<pool, syn, bnd, pc>>
    BY <1>1 DEF UnmarkPending
  <2>2. \A j \in 1 .. Len(marklist) : marklist[j] \in MarkType
    BY MarkFields DEF IInv
  <2>3. /\ Len(marklist') = Len(marklist)
        /\ \A j \in 1 .. Len(marklist) :
             marklist'[j] = IF j = i THEN [marklist[j] EXCEPT !.unmarked = TRUE] ELSE marklist[j]
    <3>1. marklist \in Seq(MarkType) /\ i \in 1 .. Len(marklist)
      BY MarkFields DEF IInv, TypeOK
    <3>2. [marklist[i] EXCEPT !.unmarked = TRUE] \in MarkType
      BY <2>2, <3>1 DEF MarkType
    <3> DEFINE e == [marklist[i] EXCEPT !.unmarked = TRUE]
    <3>3. marklist' = [marklist EXCEPT ![i] = e]
      BY <2>1
    <3>4. e \in MarkType
      BY <3>2
    <3> HIDE DEF e
    <3>5. /\ Len(marklist') = Len(marklist)
          /\ \A j \in 1 .. Len(marklist) : marklist'[j] = IF j = i THEN e ELSE marklist[j]
      BY <3>1, <3>3, <3>4, ExceptSeq
    <3> QED BY <3>5 DEF e
  <2>4. SamePlaces(marklist, marklist')
    BY <2>2, <2>3 DEF SamePlaces, MarkType
  <2> QED BY <2>1, <2>4, BindSame, NotDropping, MarksKept DEF Running, Dropping
<1>2. CASE UnmarkTop
  BY <1>2, UnmarkTopMarks
<1>3. CASE Fail("unmark1")
  BY <1>3, FailMarks
<1> QED BY <1>1, <1>2, <1>3 DEF AllocUnmark

\* A round of drop_local_store that does not fail.
LEMMA DropHunkEffect ==
  ASSUME IInv, Hunky, DropHunk
  PROVE  \/ \E e : Fail(e)
         \/ /\ Running /\ Dropping /\ Len(syn.seg) > Top.synno
            /\ Len(syn'.seg) = Len(syn.seg) - 1 /\ SameUpTo(syn.seg, syn'.seg, Len(syn'.seg))
            /\ \A i \in 1 .. Len(syn'.seg) : syn'.ptr[i] = syn.ptr[i]
            /\ syn'.allp = syn.allp /\ syn'.free = syn.free
            /\ BindKept(pool, pool')
            /\ \A x : \A e \in Nat : PermUpTo(pool, x, e) => PermUpTo(pool', x, e)
            /\ UNCHANGED <<glob, bnd, marklist, freemarks, pc, tool, files, live>>
<1> DEFINE r == Room(pool, Len(pool.bindseg))
           h == Last(syn.seg)
           w == Append(r.bindseg, h)
<1>1. Running /\ Dropping /\ Len(syn.seg) > Top.synno
  BY DEF DropHunk, Running, Dropping
<1>2. /\ syn.seg # <<>> /\ syn.seg \in Seq(Hunk) /\ syn.ptr \in Seq(Nat)
      /\ Len(syn.ptr) = Len(syn.seg) /\ syn.ptr # <<>> /\ Len(syn.seg) \in Nat
  BY <1>1, TopFacts, HunkyFields, SynFields, EmptySeq DEF IInv, Shape
<1>3. /\ Tidy(pool, syn.seg, glob) /\ pool \in PoolType
      /\ pool.bindsegcur <= Len(pool.bindseg) /\ pool.bindsegcur \in Nat
      /\ Len(pool.bindseg) \in Nat
  BY <1>1, HunkyFields DEF Hunky
<1>4. Passes(pool, r) /\ r \in PoolType
  BY <1>3, RoomPasses DEF Passes, Keeps
<1>5. \/ Fail(r.err)
      \/ /\ pool' = [r EXCEPT !.bindseg = w]
         /\ syn' = [syn EXCEPT !.seg = Front(syn.seg), !.ptr = Front(syn.ptr)]
         /\ UNCHANGED <<glob, bnd, marklist, freemarks, pc, tool, files, live>>
  BY DEF DropHunk
<1> HIDE DEF r
<1>6. /\ h \in Hunk /\ Len(Front(syn.seg)) = Len(syn.seg) - 1
      /\ \A i \in 1 .. Len(syn.seg) - 1 : /\ Front(syn.seg)[i] = syn.seg[i]
                                          /\ Front(syn.ptr)[i] = syn.ptr[i]
  BY <1>2, FrontFacts
<1>7. CASE ~Fail(r.err)
  <2>1. /\ syn'.seg = Front(syn.seg) /\ syn'.ptr = Front(syn.ptr)
        /\ syn'.allp = syn.allp /\ syn'.free = syn.free
    BY <1>5, <1>7, HunkyFields DEF SynType
  <2>2. /\ Len(syn'.seg) = Len(syn.seg) - 1 /\ SameUpTo(syn.seg, syn'.seg, Len(syn'.seg))
        /\ \A i \in 1 .. Len(syn'.seg) : syn'.ptr[i] = syn.ptr[i]
    BY <1>2, <1>6, <2>1 DEF SameUpTo
  <2>3. BindKept(pool, r)
    BY <1>3, <1>4, PassesBind
  <2>4. w \in Seq(Hunk) /\ SameUpTo(r.bindseg, w, Len(r.bindseg)) /\ Len(w) = Len(r.bindseg) + 1
    BY <1>4, <1>6, AtAppend, PoolFields
  <2>5. Len(r.bindseg) \in Nat
    BY <1>4, PoolFields
  <2> HIDE DEF w, h
  <2>6. /\ pool'.bindseg = w /\ pool'.bindsegcur = r.bindsegcur /\ pool'.perm = r.perm
        /\ pool'.permallp = r.permallp
    BY <1>4, <1>5, <1>7 DEF PoolType
  <2>7. BindKept(pool, pool')
    BY <1>3, <2>3, <2>4, <2>5, <2>6 DEF BindKept, SameUpTo
  <2>8. \A x : \A e \in Nat : PermUpTo(pool, x, e) => PermUpTo(pool', x, e)
    <3>1. Apart(pool, {}) /\ PermSound(pool)
      BY <1>3, ApartLess DEF Tidy, GlobApart
    <3>2. \A x : \A e \in Nat : PermUpTo(pool, x, e) => PermUpTo(r, x, e)
      BY <1>4, <3>1 DEF Passes
    <3> QED BY <2>6, <3>2 DEF PermUpTo
  <2> QED BY <1>1, <1>5, <1>7, <2>1, <2>2, <2>7, <2>8
<1> QED BY <1>7

\* A round of alloc_perfilefinalise that does not fail.
LEMMA RecycleEffect ==
  ASSUME IInv, Hunky, RecycleGlobPage
  PROVE  \/ \E e : Fail(e)
         \/ /\ Running /\ BindKept(pool, pool')
            /\ \A x : \A e \in Nat : PermUpTo(pool, x, e) => PermUpTo(pool', x, e)
            /\ UNCHANGED <<syn, bnd, marklist, freemarks, pc, tool, files, live>>
<1> DEFINE r == Room(pool, Len(pool.bindseg))
           h == Last(glob.seg).hunk
           w == Append(r.bindseg, h)
<1>1. Running /\ glob.seg # <<>>
  BY DEF RecycleGlobPage, Running
<1>2. /\ Tidy(pool, syn.seg, glob) /\ pool \in PoolType
      /\ pool.bindsegcur <= Len(pool.bindseg) /\ pool.bindsegcur \in Nat
      /\ Len(pool.bindseg) \in Nat
  BY <1>1, HunkyFields DEF Hunky
<1>3. h \in Hunk
  <2>1. Last(glob.seg) \in Page
    BY <1>1, HunkyFields, GlobFields, FrontFacts
  <2> QED BY <2>1 DEF Page
<1>4. Passes(pool, r) /\ r \in PoolType /\ Len(r.bindseg) \in Nat
  BY <1>2, RoomPasses, PoolFields DEF Passes, Keeps
<1>5. \/ Fail(r.err)
      \/ /\ pool' = [r EXCEPT !.bindseg = w] \/ UNCHANGED pool
         /\ UNCHANGED <<syn, bnd, marklist, freemarks, pc, tool, files, live>>
  BY DEF RecycleGlobPage
<1> HIDE DEF r
<1>6. w \in Seq(Hunk) /\ SameUpTo(r.bindseg, w, Len(r.bindseg)) /\ Len(w) = Len(r.bindseg) + 1
  BY <1>3, <1>4, AtAppend, PoolFields
<1> HIDE DEF w, h
<1>7. CASE pool' = [r EXCEPT !.bindseg = w]
  <2>1. BindKept(pool, r)
    BY <1>2, <1>4, PassesBind
  <2>2. /\ pool'.bindseg = w /\ pool'.bindsegcur = r.bindsegcur /\ pool'.perm = r.perm
        /\ pool'.permallp = r.permallp
    BY <1>4, <1>7 DEF PoolType
  <2>3. BindKept(pool, pool')
    BY <1>2, <1>4, <1>6, <2>1, <2>2 DEF BindKept, SameUpTo
  <2>4. \A x : \A e \in Nat : PermUpTo(pool, x, e) => PermUpTo(pool', x, e)
    <3>1. Apart(pool, {}) /\ PermSound(pool)
      BY <1>2, ApartLess DEF Tidy, GlobApart
    <3>2. \A x : \A e \in Nat : PermUpTo(pool, x, e) => PermUpTo(r, x, e)
      BY <1>4, <3>1 DEF Passes
    <3> QED BY <2>2, <3>2 DEF PermUpTo
  <2> QED BY <1>1, <1>5, <2>3, <2>4
<1>8. CASE UNCHANGED pool
  BY <1>1, <1>5, <1>8, BindSame
<1> QED BY <1>5, <1>7, <1>8

LEMMA DropHunkMarks ==
  ASSUME IInv, IInv', Hunky, MarksRestore, DropHunk
  PROVE  MarksRestore'
<1>1. CASE \E e : Fail(e)
  BY <1>1, FailMarks
<1>2. CASE ~\E e : Fail(e)
  <2>1. /\ Running /\ Dropping /\ Len(syn.seg) > Top.synno
        /\ Len(syn'.seg) = Len(syn.seg) - 1 /\ SameUpTo(syn.seg, syn'.seg, Len(syn'.seg))
        /\ BindKept(pool, pool') /\ UNCHANGED <<bnd, marklist, pc>>
    BY <1>2, DropHunkEffect
  <2>2. /\ At(bnd.allp, pool.bindseg, pool.bindsegcur) /\ MarksAt
    BY <2>1, MarksRestoreParts
  <2>3. /\ Len(syn.seg) \in Nat /\ pool.bindsegcur \in Nat /\ Top.synno \in Nat
        /\ \A i \in 1 .. Len(marklist) : /\ marklist[i].synno <= Top.synno
                                         /\ marklist[i].bindno <= pool.bindsegcur
                                         /\ marklist[i].synno \in Nat
    BY <2>1, HunkyFields, TopFacts, MarkFields DEF IInv, Shape
  <2>4. \A i \in 1 .. Len(marklist) : marklist[i].synno <= Len(syn'.seg)
    BY <2>1, <2>3
  <2>5. At(bnd'.allp, pool'.bindseg, pool'.bindsegcur)
    BY <2>1, <2>2, <2>3, FieldsNext, AtKept DEF BindKept
  <2>6. MarksAt'
    <3>1. Len(syn'.seg) \in Nat
      BY <2>1, <2>3
    <3> QED BY <2>1, <2>2, <2>3, <2>4, <3>1, FieldsNext, MarksAtKept, SameList DEF BindKept
  <2>7. Dropping'
    BY <2>1 DEF Dropping
  <2> QED BY <2>5, <2>6, <2>7, MarksRestorePartsNext
<1> QED BY <1>1, <1>2

LEMMA DropEndMarks ==
  ASSUME IInv, IInv', MarksRestore, DropEnd
  PROVE  MarksRestore'
<1>1. /\ Running /\ Len(syn.seg) <= Top.synno /\ UNCHANGED <<pool, bnd, marklist>>
      /\ syn'.seg = syn.seg /\ syn'.allp = Top.synp
  BY HunkyFields DEF DropEnd, Running, SynType
<1>2. Len(syn.seg) = Top.synno
  BY <1>1, TopFacts, HunkyFields
<1>3. At(bnd.allp, pool.bindseg, pool.bindsegcur) /\ MarksAt
  BY <1>1, MarksRestoreParts
<1>4. Top = marklist[Len(marklist)] /\ Len(marklist) \in 1 .. Len(marklist)
  BY <1>1, MarkFields DEF IInv, Shape, Top, Last
<1> HIDE DEF Top
<1>5. At(Top.synp, syn.seg, Len(syn.seg))
  BY <1>2, <1>3, <1>4 DEF MarksAt
<1>6. MarksAt'
  BY <1>1, <1>3 DEF MarksAt
<1> QED BY <1>1, <1>3, <1>5, <1>6, MarksRestorePartsNext

LEMMA AllocReinitMarks ==
  ASSUME IInv, IInv', MarksRestore, pc = "run", AllocReinit
  PROVE  MarksRestore'
<1>1. CASE Fail("reinit")
  BY <1>1, FailMarks
<1>2. CASE ~Fail("reinit")
  <2>1. /\ pool' = [pool EXCEPT !.bindsegcur = Top.bindno] /\ bnd' = BindBackTo(Top)
        /\ UNCHANGED <<syn, marklist, pc>>
    BY <1>2 DEF AllocReinit
  <2>2. Running /\ ~Dropping /\ At(syn.allp, syn.seg, Len(syn.seg)) /\ MarksAt
    BY NotDropping, MarksRestoreParts
  <2>3. pool'.bindseg = pool.bindseg /\ pool'.bindsegcur = Top.bindno /\ bnd'.allp = Top.bindp
    BY <2>1, HunkyFields DEF PoolType, BindBackTo
  <2>4. Top = marklist[Len(marklist)] /\ Len(marklist) \in 1 .. Len(marklist)
    BY <2>2, MarkFields DEF IInv, Shape, Top, Last
  <2> HIDE DEF Top
  <2>5. At(bnd'.allp, pool'.bindseg, pool'.bindsegcur)
    BY <2>2, <2>3, <2>4 DEF MarksAt
  <2>6. MarksAt'
    BY <2>1, <2>2, <2>3 DEF MarksAt
  <2> QED BY <2>1, <2>2, <2>5, <2>6, MarksRestorePartsNext
<1> QED BY <1>1, <1>2

LEMMA PerFileInitMarks ==
  ASSUME IInv', NEW command \in BOOLEAN, PerFileInit(command)
  PROVE  MarksRestore'
<1>1. CASE \E e : Fail(e)
  BY <1>1, FailMarks
<1>2. CASE ~\E e : Fail(e)
  <2>1. /\ syn'.seg = <<>> /\ syn'.allp = Duff /\ bnd'.allp = Duff
        /\ bnd'.ptr = <<>> /\ marklist' = <<BaseMark>> /\ pc' = "run"
    BY <1>2 DEF PerFileInit
  <2>2. pool'.bindsegcur = 0
    BY <2>1 DEF IInv, Shape, Running
  <2>3. /\ BaseMark.synno = 0 /\ BaseMark.synp = Duff /\ BaseMark.bindno = 0
        /\ BaseMark.bindp = Duff
    BY DEF BaseMark
  <2>4. \A seg : At(Duff, seg, 0)
    BY DEF At
  <2>5. Len(marklist') = 1 /\ marklist'[1] = BaseMark /\ Len(syn'.seg) = 0
    <3> HIDE DEF BaseMark
    <3> QED BY <2>1
  <2> HIDE DEF BaseMark, Duff
  <2>6. MarksAt'
    BY <2>3, <2>4, <2>5 DEF MarksAt
  <2> QED BY <2>1, <2>2, <2>4, <2>5, <2>6, MarksRestorePartsNext
<1> QED BY <1>1, <1>2

\* Calls that hand out store of Perm or Glob, reuse or take back cells, and the
\* calls of drop_local_store: the marks and the hunks of Syn and Bind stay.
LEMMA OtherMarks ==
  ASSUME IInv, IInv', MarksRestore, pool \in PoolType,
         \/ \E n \in Sizes : PermAllocCall(n) \/ (pc = "run" /\ GlobAllocCall(n))
         \/ pc = "run" /\ \E k \in CellSizes : \/ syn.free[k] # <<>> /\ SynCons(k)
                                               \/ bnd.free[k] # <<>> /\ BindCons(k)
         \/ pc = "run" /\ \E o \in Obs : Discard(o)
         \/ pc = "run" /\ (Drop("drop") \/ PerFileFinalise)
  PROVE  MarksRestore'
<1>0. SamePlaces(marklist, marklist) /\ (Running => pool.bindsegcur <= Len(pool.bindseg))
  BY SameList, HunkyFields
<1>1. ASSUME NEW n \in Sizes, PermAllocCall(n) PROVE MarksRestore'
  <2>1. Passes(pool, PermAlloc(pool, n))
    BY SizesNat, PermAllocPasses
  <2>2. CASE Fail(PermAlloc(pool, n).err)
    BY <2>2, FailMarks
  <2>3. CASE pool' = PermAlloc(pool, n) /\ UNCHANGED <<glob, syn, bnd, marklist, pc>>
    <3>1. Running => BindKept(pool, pool')
      BY <1>0, <2>1, <2>3, PassesBind
    <3> QED BY <1>0, <2>3, <3>1, MarksKept DEF Running, Dropping
  <2> QED BY <1>1, <2>2, <2>3 DEF PermAllocCall
<1>2. ASSUME NEW n \in Sizes, pc = "run", GlobAllocCall(n) PROVE MarksRestore'
  <2> DEFINE r == GlobAlloc(pool, glob, n)
  <2>1. Passes(pool, r.pool)
    BY SizesNat, HunkyFields, GlobAllocPasses
  <2>2. CASE Fail(r.pool.err)
    BY <2>2, FailMarks
  <2>3. CASE pool' = r.pool /\ UNCHANGED <<syn, bnd, marklist, pc>>
    <3>1. Running => BindKept(pool, pool')
      BY <1>0, <2>1, <2>3, PassesBind
    <3> QED BY <1>0, <2>3, <3>1, MarksKept DEF Running, Dropping
  <2> QED BY <1>2, <2>2, <2>3 DEF GlobAllocCall
<1>3. ASSUME pc = "run", UNCHANGED <<pool, marklist>>, syn'.seg = syn.seg,
             syn'.allp = syn.allp, bnd'.allp = bnd.allp, pc' \in {"run", "drop", "finaldrop"}
      PROVE  MarksRestore'
  BY <1>0, <1>3, BindSame, NotDropping, MarksKept
<1>4. ASSUME NEW k \in CellSizes, pc = "run",
             \/ syn.free[k] # <<>> /\ SynCons(k)
             \/ bnd.free[k] # <<>> /\ BindCons(k)
      PROVE  MarksRestore'
  <2>1. /\ UNCHANGED <<pool, marklist, pc>>
        /\ syn'.seg = syn.seg /\ syn'.allp = syn.allp /\ bnd'.allp = bnd.allp
    BY <1>4 DEF SynCons, BindCons, IInv, TypeOK, SynType, BndType
  <2> QED BY <1>3, <1>4, <2>1
<1>5. ASSUME NEW o \in Obs, pc = "run", Discard(o) PROVE MarksRestore'
  <2>1. /\ UNCHANGED <<pool, marklist, pc>>
        /\ syn'.seg = syn.seg /\ syn'.allp = syn.allp /\ bnd'.allp = bnd.allp
    BY <1>5 DEF Discard, IInv, TypeOK, SynType, BndType
  <2> QED BY <1>3, <1>5, <2>1
<1>6. ASSUME pc = "run", Drop("drop") \/ PerFileFinalise PROVE MarksRestore'
  <2>1. CASE Fail("marklist")
    BY <2>1, FailMarks
  <2>2. CASE ~Fail("marklist")
    <3>1. UNCHANGED <<pool, marklist, syn, bnd>> /\ pc' \in {"drop", "finaldrop"}
      BY <1>6, <2>2 DEF Drop, PerFileFinalise
    <3> QED BY <1>3, <1>6, <3>1
  <2> QED BY <2>1, <2>2
<1> QED BY <1>1, <1>2, <1>4, <1>5, <1>6

LEMMA NextMarks == IInv /\ IInv' /\ Hunky /\ MarksRestore /\ [Next]_vars => MarksRestore'
<1> SUFFICES ASSUME IInv, IInv', Hunky, MarksRestore, [Next]_vars PROVE MarksRestore'
  OBVIOUS
<1>0. pool \in PoolType
  BY HunkyFields
<1>1. ASSUME pc = "run", NEW k \in CellSizes, SynCons(k) \/ BindCons(k) PROVE MarksRestore'
  <2>1. k \in Nat
    BY SizesNat
  <2>2. CASE syn.free[k] = <<>> /\ SynCons(k)
    BY <1>1, <2>1, <2>2, SynAllocMarks DEF SynCons
  <2>3. CASE bnd.free[k] = <<>> /\ BindCons(k)
    BY <1>1, <2>1, <2>3, BindAllocMarks DEF BindCons
  <2> QED BY <1>0, <1>1, <2>2, <2>3, OtherMarks
<1>2. ASSUME pc = "run", Common PROVE MarksRestore'
  <2>1. ASSUME NEW n \in Sizes, SynAlloc(n) PROVE MarksRestore'
    BY <1>2, <2>1, SizesNat, SynAllocMarks
  <2>2. ASSUME Drop("drop") PROVE MarksRestore'
    BY <1>0, <1>2, <2>2, OtherMarks
  <2> QED BY <1>1, <1>2, <2>1, <2>2 DEF Common
<1>3. ASSUME pc = "run", Compile PROVE MarksRestore'
  <2>1. ASSUME NEW n \in Sizes, GlobAllocCall(n) PROVE MarksRestore'
    BY <1>0, <1>3, <2>1, OtherMarks
  <2>2. ASSUME NEW n \in Sizes, BindAlloc(n) PROVE MarksRestore'
    BY <1>3, <2>2, SizesNat, BindAllocMarks
  <2>3. ASSUME NEW o \in Obs, Discard(o) \/ DiscardFails(o) PROVE MarksRestore'
    BY <1>0, <1>3, <2>3, OtherMarks, FailMarks DEF DiscardFails
  <2>4. ASSUME PerFileFinalise PROVE MarksRestore'
    BY <1>0, <1>3, <2>4, OtherMarks
  <2> QED BY <1>1, <1>3, <2>1, <2>2, <2>3, <2>4, AllocMarkMarks, AllocUnmarkMarks,
      AllocReinitMarks DEF Compile
<1>4. ASSUME Loops PROVE MarksRestore'
  <2>1. ASSUME RecycleGlobPage PROVE MarksRestore'
    BY <2>1, RecycleEffect, FailMarks, MarksKept, SameList DEF Running, Dropping
  <2>2. ASSUME FinaliseEnd PROVE MarksRestore'
    BY <2>2 DEF FinaliseEnd, MarksRestore, Running
  <2> QED BY <1>4, <2>1, <2>2, DropHunkMarks, DropEndMarks DEF Loops
<1>5. ASSUME NEW n \in Sizes, PermAllocCall(n) PROVE MarksRestore'
  BY <1>0, <1>5, OtherMarks
<1>6. ASSUME AllocFinalise \/ AllocInitialise PROVE MarksRestore'
  BY <1>6 DEF AllocFinalise, AllocInitialise, MarksRestore, Running
<1>7. ASSUME UNCHANGED vars PROVE MarksRestore'
  BY <1>7 DEF vars, MarksRestore, At, Running, Dropping
<1> QED BY <1>2, <1>3, <1>4, <1>5, <1>6, <1>7, PerFileInitMarks DEF Next

LEMMA InitMarks == Init => MarksRestore
BY DEF Init, MarksRestore, Running

\* alloc_unmark, alloc_reinit and drop_local_store may take the end of the hunk
\* they go back to as segbase[segno-1] + SEGSIZE: neither the swaps of the search
\* for scraps nor the takers of spares ever move a hunk from below a mark.
THEOREM MarksRestoreCorrect == Spec => []MarksRestore
BY InitIInv, NextIInv, InitHunky, NextHunky, InitMarks, NextMarks, PTL DEF Spec

==============================================================================
