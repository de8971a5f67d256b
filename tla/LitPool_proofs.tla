-------------------------- MODULE LitPool_proofs --------------------------
(***************************************************************************)
(* The literal pools, for every value of the constants.                    *)
(***************************************************************************)
EXTENDS LitPool, SequenceTheorems, WellFoundedInduction, TLAPS

----------------------------------------------------------------------------
(* Numbers and sequences.                                                  *)

LEMMA HasLeast ==
  ASSUME NEW S \in SUBSET Nat, S # {}
  PROVE  \E k \in S : \A j \in S : k <= j
<1> DEFINE R == OpToRel(<, Nat)
<1>1. IsWellFoundedOn(R, Nat)
  BY NatLessThanWellFounded
<1>2. \A x, y \in Nat : y < x => <<y, x>> \in R
  BY DEF OpToRel
<1> HIDE DEF R
<1>3. PICK k \in S : \A j \in S : ~(<<j, k>> \in R)
  BY <1>1, WFMin
<1>4. ASSUME NEW j \in S PROVE k <= j
  <2>1. k \in Nat /\ j \in Nat /\ ~(j < k)
    BY <1>2, <1>3
  <2> QED BY <2>1
<1> QED BY <1>4

LEMMA MinOfNats ==
  ASSUME NEW S \in SUBSET Nat, S # {}
  PROVE  Min(S) \in S /\ \A j \in S : Min(S) <= j
<1>1. \E k \in S : \A j \in S : k <= j
  BY HasLeast
<1> QED BY <1>1 DEF Min

LEMMA MinOfTwo ==
  ASSUME NEW x \in Int, NEW y \in Int
  PROVE  /\ Min({x, y}) \in Int /\ Min({x, y}) <= x /\ Min({x, y}) <= y
         /\ Min({x, y}) = x \/ Min({x, y}) = y
<1>1. \E k \in {x, y} : \A j \in {x, y} : k <= j
  OBVIOUS
<1>2. Min({x, y}) \in {x, y} /\ \A j \in {x, y} : Min({x, y}) <= j
  BY <1>1 DEF Min
<1> QED BY <1>2

\* The low bits that an instruction has room for.
LEMMA LowBits ==
  ASSUME NEW x \in Int, NEW n \in Nat, n > 0
  PROVE  /\ x % n \in Nat /\ x % n < n
         /\ 0 <= x /\ x < n => x % n = x
OBVIOUS

----------------------------------------------------------------------------
(* States.                                                                 *)

Values  == Numbers \cup Int \cup UNION {{p[1], p[2]} : p \in Pairs}
Symbols == Adcons \cup {"", "code"}
Lit     == {"NUMBER", "ADCON", "FPNUM1", "FPNUM2", "STRING"} \X Symbols \X Values
Ref     == [at : Nat, place : Int, reach : {Near, Far}, want : Seq(Lit), sure : BOOLEAN]
Pool    == [base : Nat, words : Seq(Lit)]
Hit     == [target : Int, want : Seq(Lit), sure : BOOLEAN, short : Int]
Faults  == {"displacement", "dumplits1", "dumplits2", "dumplits3"}

St == [codep : Nat, litpool : Seq(Lit), mustlitby : Int, frefs : SUBSET Ref,
       prevpools : Seq(Pool), ldm : BOOLEAN, hit : SUBSET Hit,
       lost : SUBSET Ref, err : Faults \cup {"none"}, incode : BOOLEAN, long : BOOLEAN]

\* The words in the pool.
Size(s) == Len(s.litpool)

StOK(s) == s \in St /\ Size(s) <= PoolMax /\ s.mustlitby <= Infinity

LEMMA Reaches ==
  /\ Near \in Nat /\ Far \in Nat /\ PoolMax \in Nat
  /\ 5 < Near /\ Near <= Far /\ Far <= PoolMax
BY ReachAssumption

LEMMA LenIs ==
  ASSUME NEW s, StOK(s)
  PROVE  /\ s \in St /\ Size(s) \in Nat /\ s.codep \in Nat
         /\ s.mustlitby \in Int /\ s.litpool \in Seq(Lit) /\ s.frefs \in SUBSET Ref
         /\ Size(s) <= PoolMax /\ s.mustlitby <= Infinity
         /\ s.prevpools \in Seq(Pool) /\ s.hit \in SUBSET Hit /\ s.lost \in SUBSET Ref
BY LenProperties DEF StOK, St, Size

\* All but the address, the limit and the errors stay.
SamePool(s, t) == /\ t.litpool = s.litpool /\ t.frefs = s.frefs /\ t.prevpools = s.prevpools
                  /\ t.hit = s.hit /\ t.lost = s.lost /\ t.ldm = s.ldm /\ t.incode = s.incode

Alike(s, t) == SamePool(s, t) /\ t.codep = s.codep /\ t.mustlitby = s.mustlitby

\* A syserr: the first counts.
Stopped(s, t, what) ==
  Alike(s, t) /\ t.err = (IF s.err = "none" THEN what ELSE s.err)

Moved(s, t, n) ==
  SamePool(s, t) /\ t.codep = s.codep + n /\ t.mustlitby = s.mustlitby /\ t.err = s.err

LEMMA SyserrDoes ==
  ASSUME NEW s, StOK(s), NEW what \in Faults
  PROVE  StOK(Syserr(s, what)) /\ Stopped(s, Syserr(s, what), what)
BY DEF Syserr, StOK, St, Stopped, Alike, SamePool, Size

LEMMA OutDoes ==
  ASSUME NEW s, StOK(s), NEW n \in Nat
  PROVE  StOK(Out(s, n)) /\ Moved(s, Out(s, n), n)
<1>1. s.codep + n \in Nat
  BY DEF StOK, St
<1>2. PICK m : m = s.codep + n
  OBVIOUS
<1>3. Out(s, n) = [s EXCEPT !.codep = m]
  BY <1>2 DEF Out
<1> QED BY <1>1, <1>2, <1>3 DEF StOK, St, Moved, SamePool, Size

\* The length of the expansion is noted; nothing else changes.
LEMMA ExpandedDoes ==
  ASSUME NEW s, StOK(s), NEW n \in Nat
  PROVE  /\ StOK(Expanded(s, n)) /\ Moved(s, Expanded(s, n), 0)
         /\ n > 6 => Expanded(s, n).long
<1>1. s \in St /\ s.codep \in Nat
  BY LenIs
<1>7. ASSUME n > 6 PROVE TRUE = (n > 6)
  BY <1>7
<1>8. ASSUME ~(n > 6) PROVE FALSE = (n > 6)
  BY <1>8
<1>2. PICK b \in BOOLEAN : b = (n > 6)
  BY <1>7, <1>8
<1>3. Expanded(s, n) = [s EXCEPT !.long = b]
  BY <1>2 DEF Expanded, Slack
<1>4. PICK t : t = [s EXCEPT !.long = b]
  OBVIOUS
<1>5. /\ t \in St /\ t.codep = s.codep /\ t.litpool = s.litpool /\ t.mustlitby = s.mustlitby
      /\ t.frefs = s.frefs /\ t.prevpools = s.prevpools /\ t.ldm = s.ldm /\ t.hit = s.hit
      /\ t.lost = s.lost /\ t.err = s.err /\ t.incode = s.incode /\ t.long = b
  BY <1>1, <1>4 DEF St
<1>6. t.codep = s.codep + 0
  BY <1>1, <1>5
<1> QED BY <1>1, <1>2, <1>3, <1>4, <1>5, <1>6 DEF StOK, Moved, SamePool, Size

----------------------------------------------------------------------------
(* The pool is emitted.                                                    *)

\* The pool starts n words on, where r cannot reach.
TooFar(s, n, r) == s.codep + n - r.at - 2 + LowPlace(r) \notin 0 .. r.reach - 1

\* What the instruction of r then loads, if it reaches that far.
Loads(s, n, r) == [target |-> s.codep + n + LowPlace(r), want |-> r.want,
                   sure |-> r.sure, short |-> r.place - LowPlace(r)]

Missed(s, n) == {r \in s.frefs : TooFar(s, n, r)}
Found(s, n)  == {Loads(s, n, r) : r \in s.frefs \ Missed(s, n)}

Dumped(s, t, n) ==
  /\ t.codep = s.codep + n + Size(s)
  /\ t.litpool = <<>> /\ t.frefs = {} /\ t.mustlitby = Infinity
  /\ t.ldm = s.ldm /\ t.incode = s.incode
  /\ t.prevpools = <<[base |-> s.codep + n, words |-> s.litpool]>> \o s.prevpools
  /\ t.hit = s.hit \cup Found(s, n) /\ t.lost = s.lost \cup Missed(s, n)
  /\ t.err = s.err \/ (t.err = "displacement" /\ Missed(s, n) # {})

\* dumplits2: the branch alone, if there is no pool.
Skipped(s, t) ==
  SamePool(s, t) /\ t.codep = s.codep + 1 /\ t.mustlitby = Infinity /\ t.err = s.err

DumpOf(s, t) ==
  \/ s.frefs = {} /\ Stopped(s, t, "dumplits1")
  \/ s.frefs # {} /\ s.litpool = <<>> /\ Skipped(s, t)
  \/ s.frefs # {} /\ s.litpool # <<>> /\ Dumped(s, t, 1)

LEMMA LowPlaceIs ==
  ASSUME NEW r \in Ref
  PROVE  /\ r.at \in Nat /\ r.place \in Int /\ r.want \in Seq(Lit) /\ r.sure \in BOOLEAN
         /\ r.reach \in {Near, Far} /\ r.reach \in Nat /\ 5 < r.reach
         /\ LowPlace(r) \in Nat /\ LowPlace(r) < r.reach
         /\ 0 <= r.place /\ r.place < r.reach => LowPlace(r) = r.place
<1>1. /\ r.at \in Nat /\ r.place \in Int /\ r.want \in Seq(Lit) /\ r.sure \in BOOLEAN
      /\ r.reach \in {Near, Far}
  BY DEF Ref
<1>2. r.reach \in Nat /\ 5 < r.reach
  BY <1>1, Reaches
<1>3. PICK x \in Int : x = r.place
  BY <1>1
<1>4. PICK n \in Nat : n = r.reach
  BY <1>2
<1>5. n > 0
  BY <1>2, <1>4
<1>6. x % n \in Nat /\ x % n < n /\ (0 <= x /\ x < n => x % n = x)
  BY <1>5, LowBits
<1> QED BY <1>1, <1>2, <1>3, <1>4, <1>5, <1>6 DEF LowPlace

LEMMA DistanceIs ==
  ASSUME NEW s, StOK(s), NEW r \in s.frefs
  PROVE  /\ r \in Ref /\ LowPlace(r) \in Nat /\ r.at \in Nat /\ r.reach \in Nat
         /\ Distance(s, r) = s.codep + 0 - r.at - 2 + LowPlace(r)
         /\ r.at + 2 + Distance(s, r) = s.codep + 0 + LowPlace(r)
<1>1. r \in Ref /\ s.codep \in Nat
  BY LenIs
<1>2. r.at \in Nat /\ LowPlace(r) \in Nat /\ r.reach \in Nat
  BY <1>1, LowPlaceIs
<1>3. Distance(s, r) = s.codep - r.at - 2 + LowPlace(r)
  BY DEF Distance
<1>5. \A c, a, d \in Int : /\ c - a - 2 + d = c + 0 - a - 2 + d
                             /\ a + 2 + (c - a - 2 + d) = c + 0 + d
  OBVIOUS
<1>6. s.codep \in Int /\ r.at \in Int /\ LowPlace(r) \in Int
  BY <1>1, <1>2
<1> QED BY <1>1, <1>2, <1>3, <1>5, <1>6

LEMMA LoadsHit ==
  ASSUME NEW s, StOK(s), NEW n \in Nat, NEW r \in s.frefs
  PROVE  Loads(s, n, r) \in Hit
<1>1. r \in Ref /\ s.codep \in Nat
  BY LenIs
<1>2. /\ r.want \in Seq(Lit) /\ r.sure \in BOOLEAN /\ LowPlace(r) \in Nat
      /\ r.place \in Int
  BY <1>1, LowPlaceIs
<1>3. s.codep + n + LowPlace(r) \in Int /\ r.place - LowPlace(r) \in Int
  BY <1>1, <1>2
<1> QED BY <1>2, <1>3 DEF Loads, Hit

LEMMA SetlitlabDoes ==
  ASSUME NEW s, StOK(s)
  PROVE  /\ StOK(Setlitlab(s))
         /\ Setlitlab(s).codep = s.codep /\ Setlitlab(s).litpool = s.litpool
         /\ Setlitlab(s).mustlitby = s.mustlitby /\ Setlitlab(s).frefs = {}
         /\ Setlitlab(s).prevpools = s.prevpools /\ Setlitlab(s).ldm = s.ldm
         /\ Setlitlab(s).incode = s.incode
         /\ Setlitlab(s).hit = s.hit \cup Found(s, 0)
         /\ Setlitlab(s).lost = s.lost \cup Missed(s, 0)
         /\ \/ Setlitlab(s).err = s.err
            \/ Setlitlab(s).err = "displacement" /\ Missed(s, 0) # {}
<1> DEFINE far == {r \in s.frefs : Distance(s, r) \notin 0 .. r.reach - 1}
           H   == {[target |-> r.at + 2 + Distance(s, r), want |-> r.want, sure |-> r.sure,
                    short |-> r.place - LowPlace(r)] : r \in s.frefs \ far}
           t   == [s EXCEPT !.hit = @ \cup H, !.lost = @ \cup far, !.frefs = {}]
<1>1. /\ s \in St /\ s.codep \in Nat /\ s.frefs \in SUBSET Ref /\ s.hit \in SUBSET Hit
      /\ s.lost \in SUBSET Ref
  BY LenIs
<1>2. ASSUME NEW r \in s.frefs
      PROVE  /\ Distance(s, r) = s.codep + 0 - r.at - 2 + LowPlace(r)
             /\ r.at + 2 + Distance(s, r) = s.codep + 0 + LowPlace(r)
  BY DistanceIs
<1>3. far = Missed(s, 0)
  BY <1>2 DEF TooFar, Missed
<1>4. H = Found(s, 0)
  BY <1>2, <1>3 DEF Found, Loads
<1>5. Found(s, 0) \in SUBSET Hit
  BY LoadsHit DEF Found
<1>6. Setlitlab(s) = IF far = {} THEN t ELSE Syserr(t, "displacement")
  BY DEF Setlitlab
<1>14. far \in SUBSET Ref
  BY <1>1
<1> HIDE DEF far, H
<1>7. PICK h : h = s.hit \cup H
  OBVIOUS
<1>15. PICK l : l = s.lost \cup far
  OBVIOUS
<1>8. t = [s EXCEPT !.hit = h, !.lost = l, !.frefs = {}]
  BY <1>7, <1>15
<1>9. h \in SUBSET Hit /\ l \in SUBSET Ref
  BY <1>1, <1>4, <1>5, <1>7, <1>14, <1>15
<1>10. /\ t \in St /\ t.codep = s.codep /\ t.litpool = s.litpool /\ t.mustlitby = s.mustlitby
       /\ t.frefs = {} /\ t.prevpools = s.prevpools /\ t.ldm = s.ldm /\ t.incode = s.incode
       /\ t.hit = h /\ t.lost = l /\ t.err = s.err
  BY <1>1, <1>8, <1>9 DEF St
<1>11. StOK(t)
  BY <1>10 DEF StOK, Size
<1>16. t.hit = s.hit \cup Found(s, 0) /\ t.lost = s.lost \cup Missed(s, 0)
  BY <1>3, <1>4, <1>7, <1>10, <1>15
<1>12. CASE far = {}
  BY <1>6, <1>10, <1>11, <1>12, <1>16
<1>13. CASE far # {}
  <2>1. PICK x : x = Syserr(t, "displacement")
    OBVIOUS
  <2>2. StOK(x) /\ Stopped(t, x, "displacement")
    BY <1>11, <2>1, SyserrDoes DEF Faults
  <2> HIDE DEF t
  <2> QED BY <1>3, <1>6, <1>10, <1>13, <1>16, <2>1, <2>2 DEF Stopped, Alike, SamePool
<1> QED BY <1>12, <1>13

LEMMA InnerDoes ==
  ASSUME NEW x, StOK(x)
  PROVE  LET t == Dumplits_inner(x)
         IN  /\ StOK(t) /\ t.codep = x.codep + Size(x) /\ t.litpool = <<>>
             /\ t.prevpools = <<[base |-> x.codep, words |-> x.litpool]>> \o x.prevpools
             /\ t.mustlitby = x.mustlitby /\ t.frefs = x.frefs /\ t.ldm = x.ldm
             /\ t.incode = x.incode /\ t.hit = x.hit /\ t.lost = x.lost /\ t.err = x.err
<1>5. PICK q : q = <<[base |-> x.codep, words |-> x.litpool]>> \o x.prevpools
  OBVIOUS
<1>6. /\ x \in St /\ x.codep \in Nat /\ x.litpool \in Seq(Lit) /\ x.prevpools \in Seq(Pool)
      /\ Size(x) \in Nat
  BY LenIs
<1>7. q \in Seq(Pool)
  <2>1. [base |-> x.codep, words |-> x.litpool] \in Pool
    BY <1>6 DEF Pool
  <2> QED BY <1>5, <1>6, <2>1
<1>8. PICK c : c = x.codep + Size(x)
  OBVIOUS
<1>9. Dumplits_inner(x) = [x EXCEPT !.prevpools = q, !.codep = c, !.litpool = <<>>]
  BY <1>5, <1>6, <1>8 DEF Dumplits_inner, Size
<1>10. c \in Nat /\ <<>> \in Seq(Lit) /\ Len(<<>>) <= PoolMax
  <2>1. Len(<<>>) = 0 /\ 0 <= PoolMax
    BY Reaches
  <2> QED BY <1>6, <1>8, <2>1
<1>11. PICK t : t = Dumplits_inner(x)
  OBVIOUS
<1>12. /\ t \in St /\ t.codep = c /\ t.litpool = <<>> /\ t.mustlitby = x.mustlitby
       /\ t.frefs = x.frefs /\ t.prevpools = q /\ t.ldm = x.ldm /\ t.incode = x.incode
       /\ t.hit = x.hit /\ t.lost = x.lost /\ t.err = x.err
  BY <1>6, <1>7, <1>9, <1>10, <1>11 DEF St
<1>13. StOK(t)
  BY <1>10, <1>12 DEF StOK, Size
<1> QED BY <1>5, <1>8, <1>11, <1>12, <1>13

\* The pool is written where u is, n words on from s.
LEMMA Dumplits0Does ==
  ASSUME NEW s, StOK(s), NEW n \in Nat, NEW u, StOK(u), SamePool(s, u), u.codep = s.codep + n,
         u.mustlitby = Infinity, u.err = s.err
  PROVE  StOK(Dumplits0(u)) /\ Dumped(s, Dumplits0(u), n)
<1>1. PICK x : x = Setlitlab(u)
  OBVIOUS
<1>2. /\ StOK(x) /\ x.codep = u.codep /\ x.litpool = u.litpool /\ x.mustlitby = u.mustlitby
      /\ x.frefs = {} /\ x.prevpools = u.prevpools /\ x.ldm = u.ldm /\ x.incode = u.incode
      /\ x.hit = u.hit \cup Found(u, 0) /\ x.lost = u.lost \cup Missed(u, 0)
      /\ x.err = u.err \/ (x.err = "displacement" /\ Missed(u, 0) # {})
  BY <1>1, SetlitlabDoes
<1>3. ASSUME NEW r \in u.frefs
      PROVE  (TooFar(u, 0, r) <=> TooFar(s, n, r)) /\ Loads(u, 0, r) = Loads(s, n, r)
  <2>1. u.codep + 0 = s.codep + n
    BY LenIs
  <2>2. r.at \in Nat /\ LowPlace(r) \in Nat /\ s.codep + n \in Nat
    BY DistanceIs, LenIs
  <2>3. /\ u.codep + 0 - r.at - 2 + LowPlace(r) = s.codep + n - r.at - 2 + LowPlace(r)
        /\ u.codep + 0 + LowPlace(r) = s.codep + n + LowPlace(r)
    <3>1. \A c, d, m, a, e \in Int : c + 0 = d + m => /\ c + 0 - a - 2 + e = d + m - a - 2 + e
                                                       /\ c + 0 + e = d + m + e
      OBVIOUS
    <3>2. u.codep \in Int /\ s.codep \in Int /\ n \in Int /\ r.at \in Int /\ LowPlace(r) \in Int
      BY <2>2, LenIs
    <3> QED BY <2>1, <3>1, <3>2
  <2> QED BY <2>3 DEF TooFar, Loads
<1>4. Missed(u, 0) = Missed(s, n)
  BY <1>3 DEF SamePool, Missed
<1>7. Found(u, 0) = Found(s, n)
  BY <1>3, <1>4 DEF SamePool, Found
<1>5. PICK t : t = Dumplits0(u)
  OBVIOUS
<1>6. t = Dumplits_inner(x)
  BY <1>1, <1>5 DEF Dumplits0
<1>12. /\ StOK(t) /\ t.codep = x.codep + Size(x) /\ t.litpool = <<>>
       /\ t.prevpools = <<[base |-> x.codep, words |-> x.litpool]>> \o x.prevpools
       /\ t.mustlitby = x.mustlitby /\ t.frefs = {} /\ t.ldm = x.ldm
       /\ t.incode = x.incode /\ t.hit = x.hit /\ t.lost = x.lost /\ t.err = x.err
  BY <1>2, <1>6, InnerDoes
<1>14. Dumped(s, t, n)
  <2>1. /\ t.codep = s.codep + n + Size(s)
        /\ t.prevpools = <<[base |-> s.codep + n, words |-> s.litpool]>> \o s.prevpools
    BY <1>2, <1>12 DEF SamePool, Size
  <2>2. t.hit = s.hit \cup Found(s, n) /\ t.lost = s.lost \cup Missed(s, n)
    BY <1>2, <1>4, <1>7, <1>12 DEF SamePool
  <2>3. t.err = s.err \/ (t.err = "displacement" /\ Missed(s, n) # {})
    BY <1>2, <1>4, <1>12 DEF SamePool
  <2> QED BY <1>2, <1>12, <2>1, <2>2, <2>3 DEF Dumped, SamePool
<1> QED BY <1>5, <1>12, <1>14

LEMMA NewlimitDoes ==
  ASSUME NEW s, StOK(s)
  PROVE  /\ StOK(Newliteralpool(s)) /\ SamePool(s, Newliteralpool(s))
         /\ Newliteralpool(s).codep = s.codep /\ Newliteralpool(s).err = s.err
         /\ Newliteralpool(s).mustlitby = Infinity
<1>1. Infinity \in Int /\ Infinity <= Infinity
  BY DEF Infinity
<1>2. PICK k : k = Infinity
  OBVIOUS
<1> QED BY <1>1, <1>2 DEF Newliteralpool, StOK, St, SamePool, Size

LEMMA BranchRoundDoes ==
  ASSUME NEW s, StOK(s)
  PROVE  /\ StOK(BranchRound(s))
         /\ s.litpool = <<>> => Skipped(s, BranchRound(s))
         /\ s.litpool # <<>> => Dumped(s, BranchRound(s), 1)
<1>1. PICK m : m = Newliteralpool(s)
  OBVIOUS
<1>2. PICK u : u = Out(m, 1)
  OBVIOUS
<1>3. /\ StOK(m) /\ SamePool(s, m) /\ m.codep = s.codep /\ m.err = s.err
      /\ m.mustlitby = Infinity
  BY <1>1, NewlimitDoes
<1>4. StOK(u) /\ Moved(m, u, 1)
  BY <1>2, <1>3, OutDoes
<1>5. SamePool(s, u) /\ u.codep = s.codep + 1 /\ u.err = s.err /\ u.mustlitby = Infinity
  BY <1>3, <1>4 DEF Moved, SamePool
<1>6. BranchRound(s) = IF u.litpool = <<>> THEN u ELSE Dumplits0(u)
  BY <1>1, <1>2 DEF BranchRound
<1>7. CASE s.litpool = <<>>
  BY <1>4, <1>5, <1>6, <1>7 DEF SamePool, Skipped
<1>8. CASE s.litpool # <<>>
  <2>1. BranchRound(s) = Dumplits0(u)
    BY <1>5, <1>6, <1>8 DEF SamePool
  <2> QED BY <1>4, <1>5, <1>8, <2>1, Dumplits0Does
<1> QED BY <1>7, <1>8

LEMMA DumpAmongDoes ==
  ASSUME NEW s, StOK(s)
  PROVE  StOK(DumpAmong(s)) /\ DumpOf(s, DumpAmong(s))
<1>1. CASE s.frefs = {}
  BY <1>1, SyserrDoes DEF DumpAmong, DumpOf, Faults
<1>2. CASE s.frefs # {}
  BY <1>2, BranchRoundDoes DEF DumpAmong, DumpOf
<1> QED BY <1>1, <1>2

\* Of the pool when the program does not run into it.
DumpAfterOf(s, t) ==
  \/ s.frefs # {} /\ Dumped(s, t, 0)
  \/ s.frefs = {} /\ s.litpool = <<>> /\ Alike(s, t) /\ t.err = s.err
  \/ s.frefs = {} /\ s.litpool # <<>> /\ Stopped(s, t, "dumplits2")

LEMMA DumpAfterDoes ==
  ASSUME NEW s, StOK(s)
  PROVE  StOK(DumpAfter(s)) /\ DumpAfterOf(s, DumpAfter(s))
<1>1. CASE s.frefs = {}
  BY <1>1, SyserrDoes DEF DumpAfter, DumpAfterOf, Faults, Alike, SamePool
<1>2. CASE s.frefs # {}
  <2>1. PICK u : u = Newliteralpool(s)
    OBVIOUS
  <2>2. StOK(u) /\ SamePool(s, u) /\ u.codep = s.codep + 0 /\ u.err = s.err /\ u.mustlitby = Infinity
    BY <2>1, NewlimitDoes, LenIs
  <2>3. DumpAfter(s) = Dumplits0(u)
    BY <1>2, <2>1 DEF DumpAfter
  <2>4. 0 \in Nat
    OBVIOUS
  <2> QED BY <1>2, <2>2, <2>3, <2>4, Dumplits0Does DEF DumpAfterOf
<1> QED BY <1>1, <1>2

----------------------------------------------------------------------------
(* The limit is looked at.                                                 *)

RoomOf(s, t, n) ==
  \/ s.codep + n < s.mustlitby /\ t = s
  \/ s.codep + n >= s.mustlitby /\ DumpOf(s, t)

LEMMA RoomDoes ==
  ASSUME NEW s, StOK(s), NEW n \in Nat
  PROVE  StOK(Room(s, n)) /\ RoomOf(s, Room(s, n), n)
<1>1. s.codep \in Nat /\ s.mustlitby \in Int
  BY LenIs
<1>2. CASE s.codep + n >= s.mustlitby
  BY <1>2, DumpAmongDoes DEF Room, RoomOf
<1>3. CASE ~(s.codep + n >= s.mustlitby)
  <2>1. s.codep + n < s.mustlitby
    BY <1>1, <1>3
  <2> QED BY <1>3, <2>1 DEF Room, RoomOf
<1> QED BY <1>2, <1>3

LEMMA CheckDoes ==
  ASSUME NEW s, StOK(s)
  PROVE  StOK(Check(s)) /\ RoomOf(s, Check(s), 0)
<1>1. s.codep \in Nat /\ s.mustlitby \in Int /\ s.codep + 0 = s.codep
  BY LenIs
<1>2. CASE s.codep >= s.mustlitby
  BY <1>1, <1>2, DumpAmongDoes DEF Check, RoomOf
<1>3. CASE ~(s.codep >= s.mustlitby)
  <2>1. s.codep + 0 < s.mustlitby
    BY <1>1, <1>3
  <2> QED BY <1>3, <2>1 DEF Check, RoomOf
<1> QED BY <1>2, <1>3

\* The loads and stores that were held back, in n instructions.
Sent(s, t, n) ==
  /\ t.litpool = s.litpool /\ t.frefs = s.frefs /\ t.prevpools = s.prevpools
  /\ t.hit = s.hit /\ t.lost = s.lost /\ t.incode = s.incode /\ ~t.ldm
  /\ t.codep = s.codep + n /\ t.mustlitby = s.mustlitby /\ t.err = s.err

FlushOf(s, t, n) ==
  \/ ~s.ldm /\ t = s
  \/ s.ldm /\ \E u : StOK(u) /\ RoomOf(s, u, LdmMax) /\ Sent(u, t, n)

LEMMA FlushDoes ==
  ASSUME NEW s, StOK(s), NEW n \in Nat
  PROVE  StOK(Flush(s, n)) /\ FlushOf(s, Flush(s, n), n)
<1>1. LdmMax \in Nat
  BY SizeAssumption
<1>2. CASE ~s.ldm
  BY <1>2 DEF Flush, FlushOf
<1>3. CASE s.ldm
  <2>1. PICK u : u = Room(s, LdmMax)
    OBVIOUS
  <2>2. StOK(u) /\ RoomOf(s, u, LdmMax)
    BY <1>1, <2>1, RoomDoes
  <2>3. PICK v : v = Out(u, n)
    OBVIOUS
  <2>4. StOK(v) /\ Moved(u, v, n)
    BY <2>2, <2>3, OutDoes
  <2>5. PICK t : t = [v EXCEPT !.ldm = FALSE]
    OBVIOUS
  <2>6. StOK(t)
    BY <2>4, <2>5 DEF StOK, St, Size
  <2>7. Sent(u, t, n)
    BY <2>4, <2>5 DEF StOK, St, Moved, SamePool, Sent
  <2>8. Flush(s, n) = t
    BY <1>3, <2>1, <2>3, <2>5 DEF Flush
  <2> QED BY <1>3, <2>2, <2>6, <2>7, <2>8 DEF FlushOf
<1> QED BY <1>2, <1>3

BeginOf(s, t, n) == \E u : StOK(u) /\ RoomOf(s, u, 0) /\ FlushOf(u, t, n)

\* addressability(n), n words of reach.
AddrOf(s, t, n) ==
  \E u : /\ StOK(u)
         /\ IF Size(s) >= n - 5 THEN DumpOf(s, u) ELSE u = s
         /\ SamePool(u, t) /\ t.codep = u.codep /\ t.err = u.err
         /\ t.mustlitby <= u.mustlitby
         /\ t.mustlitby <= u.codep - Size(u) + (n - 5)
         /\ \/ t.mustlitby = u.mustlitby
            \/ t.mustlitby = u.codep - Size(u) + (n - 5)

LEMMA AddressabilityDoes ==
  ASSUME NEW s, StOK(s), NEW n \in Int
  PROVE  StOK(Addressability(s, n)) /\ AddrOf(s, Addressability(s, n), n)
<1>1. PICK u : u = IF Size(s) >= Spare(n) THEN DumpAmong(s) ELSE s
  OBVIOUS
<1>2. StOK(u) /\ IF Size(s) >= n - 5 THEN DumpOf(s, u) ELSE u = s
  BY <1>1, DumpAmongDoes DEF Spare
<1>3. PICK k : k = u.codep - Size(u) + (n - 5)
  OBVIOUS
<1>4. u \in St /\ k \in Int /\ u.mustlitby \in Int /\ u.mustlitby <= Infinity
  BY <1>2, <1>3, LenIs
<1>5. PICK m : m = Min({u.mustlitby, k})
  OBVIOUS
<1>6. m \in Int /\ m <= u.mustlitby /\ m <= k /\ (m = u.mustlitby \/ m = k)
  BY <1>4, <1>5, MinOfTwo
<1>7. PICK t : t = [u EXCEPT !.mustlitby = m]
  OBVIOUS
<1>8. t \in St /\ t.mustlitby = m /\ t.codep = u.codep /\ t.err = u.err /\ SamePool(u, t)
  BY <1>4, <1>6, <1>7 DEF St, SamePool
<1>9. m <= Infinity
  BY <1>4, <1>6 DEF Infinity
<1>10. StOK(t)
  BY <1>2, <1>8, <1>9 DEF StOK, SamePool, Size
<1>11. Addressability(s, n) = t
  <2>1. Addressability(s, n) = [u EXCEPT !.mustlitby = Min({@, u.codep - Size(u) + Spare(n)})]
    BY <1>1 DEF Addressability, Size
  <2>2. Addressability(s, n) = [u EXCEPT !.mustlitby = Min({u.mustlitby, k})]
    BY <1>3, <2>1 DEF Spare
  <2> QED BY <1>5, <1>7, <2>2
<1>12. AddrOf(s, t, n)
  BY <1>2, <1>3, <1>6, <1>8 DEF AddrOf
<1> QED BY <1>10, <1>11, <1>12

----------------------------------------------------------------------------
(* Words are put into the pool.                                            *)

\* The state t after the first i words of ws, while they have room.
Longer(s, t, ws, i) ==
  /\ t.codep = s.codep /\ t.mustlitby = s.mustlitby /\ t.frefs = s.frefs
  /\ t.prevpools = s.prevpools /\ t.ldm = s.ldm /\ t.hit = s.hit /\ t.lost = s.lost /\ t.err = s.err
  /\ t.incode = s.incode
  /\ Size(t) = Size(s) + i
  /\ \A k \in 1 .. Size(s) : t.litpool[k] = s.litpool[k]
  /\ \A k \in 1 .. i : t.litpool[Size(s) + k] = ws[k]

\* The word at address a, in a pool emitted or to be emitted here.
Written(t, a, w) ==
  \/ \E j \in 1 .. Len(t.prevpools) :
       /\ a - t.prevpools[j].base + 1 \in 1 .. Len(t.prevpools[j].words)
       /\ t.prevpools[j].words[a - t.prevpools[j].base + 1] = w
  \/ /\ a - t.codep + 1 \in 1 .. Size(t)
     /\ t.litpool[a - t.codep + 1] = w

Kept(s, t) ==
  \A j \in 1 .. Len(s.prevpools) :
    \E k \in 1 .. Len(t.prevpools) : t.prevpools[k] = s.prevpools[j]

\* The pools emitted end before the next instruction.
Below(s) ==
  \A j \in 1 .. Len(s.prevpools) :
    s.prevpools[j].base + Len(s.prevpools[j].words) <= s.codep

\* They have filled the pool, and go on in another behind the same branch.
Spilt(s, t, ws, i) ==
  /\ ~t.incode /\ t.ldm = s.ldm /\ t.mustlitby = Infinity /\ t.frefs = {}
  /\ t.codep >= s.codep + 1
  /\ t.codep + Size(t) = s.codep + 1 + Size(s) + i
  /\ t.hit = s.hit \cup Found(s, 1) /\ t.lost = s.lost \cup Missed(s, 1)
  /\ \/ s.frefs # {} /\ (t.err = s.err \/ t.err = "displacement")
     \/ s.frefs = {} /\ t.err = IF s.err = "none" THEN "dumplits3" ELSE s.err
  /\ Kept(s, t) /\ (Below(s) => Below(t))
  /\ \A k \in 1 .. Size(s) : Written(t, s.codep + k, s.litpool[k])
  /\ \A k \in 1 .. i : Written(t, s.codep + Size(s) + k, ws[k])

FilledTo(s, t, ws, i) ==
  \/ Size(s) + i <= PoolMax /\ Longer(s, t, ws, i)
  \/ Size(s) + i > PoolMax /\ Spilt(s, t, ws, i)

\* One more word.
Appended(s, t, w) ==
  /\ t.codep = s.codep /\ t.mustlitby = s.mustlitby /\ t.frefs = s.frefs
  /\ t.prevpools = s.prevpools /\ t.ldm = s.ldm /\ t.hit = s.hit /\ t.lost = s.lost /\ t.err = s.err
  /\ t.incode = s.incode
  /\ Size(t) = Size(s) + 1
  /\ \A k \in 1 .. Size(s) : t.litpool[k] = s.litpool[k]
  /\ t.litpool[Size(s) + 1] = w

LEMMA AppendFacts ==
  ASSUME NEW S, NEW q \in Seq(S), NEW w \in S
  PROVE  /\ Append(q, w) \in Seq(S) /\ Len(Append(q, w)) = Len(q) + 1
         /\ \A k \in 1 .. Len(q) : Append(q, w)[k] = q[k]
         /\ Append(q, w)[Len(q) + 1] = w
OBVIOUS

LEMMA AppendWord ==
  ASSUME NEW s, StOK(s), Size(s) < PoolMax, NEW w \in Lit
  PROVE  LET t == [s EXCEPT !.litpool = Append(@, w)]
         IN  StOK(t) /\ Appended(s, t, w)
<1>1. PICK q : q = Append(s.litpool, w)
  OBVIOUS
<1>2. s \in St /\ s.litpool \in Seq(Lit) /\ Size(s) \in Nat /\ s.mustlitby <= Infinity
  BY LenIs
<1>3. /\ q \in Seq(Lit) /\ Len(q) = Size(s) + 1
      /\ \A k \in 1 .. Size(s) : q[k] = s.litpool[k]
      /\ q[Size(s) + 1] = w
  BY <1>1, <1>2, AppendFacts DEF Size
<1>4. PICK t : t = [s EXCEPT !.litpool = q]
  OBVIOUS
<1>5. /\ t \in St /\ t.litpool = q /\ t.codep = s.codep /\ t.mustlitby = s.mustlitby
      /\ t.frefs = s.frefs /\ t.prevpools = s.prevpools /\ t.ldm = s.ldm /\ t.hit = s.hit /\ t.lost = s.lost
      /\ t.err = s.err /\ t.incode = s.incode
  BY <1>2, <1>3, <1>4 DEF St
<1>6. Len(q) <= PoolMax
  BY <1>2, <1>3, Reaches
<1>7. StOK(t) /\ Appended(s, t, w)
  BY <1>2, <1>3, <1>5, <1>6 DEF StOK, Appended, Size
<1>8. [s EXCEPT !.litpool = Append(@, w)] = t
  BY <1>1, <1>4
<1> QED BY <1>7, <1>8

\* A full pool is emitted where one was emitted before.
LEMMA NextPool ==
  ASSUME NEW s, StOK(s), s.frefs = {}, s.mustlitby = Infinity
  PROVE  LET t == Dumplits_inner(Newliteralpool(s))
         IN  StOK(t) /\ Dumped(s, t, 0) /\ t.hit = s.hit /\ t.lost = s.lost /\ t.err = s.err
<1>1. PICK u : u = Newliteralpool(s)
  OBVIOUS
<1>2. StOK(u) /\ SamePool(s, u) /\ u.codep = s.codep /\ u.err = s.err /\ u.mustlitby = Infinity
  BY <1>1, NewlimitDoes
<1>3. PICK t : t = Dumplits_inner(u)
  OBVIOUS
<1>4. /\ StOK(t) /\ t.codep = u.codep + Size(u) /\ t.litpool = <<>>
      /\ t.prevpools = <<[base |-> u.codep, words |-> u.litpool]>> \o u.prevpools
      /\ t.mustlitby = u.mustlitby /\ t.frefs = u.frefs /\ t.ldm = u.ldm
      /\ t.incode = u.incode /\ t.hit = u.hit /\ t.lost = u.lost /\ t.err = u.err
  BY <1>2, <1>3, InnerDoes
<1>5. s.codep + 0 = s.codep
  BY LenIs
<1>6. Missed(s, 0) = {} /\ Found(s, 0) = {}
  BY DEF Found, Missed
<1>7. Dumped(s, t, 0)
  BY <1>2, <1>4, <1>5, <1>6 DEF Dumped, SamePool, Size
<1> QED BY <1>1, <1>2, <1>3, <1>4, <1>7 DEF SamePool

LEMMA ConsFacts ==
  ASSUME NEW S, NEW e \in S, NEW q \in Seq(S)
  PROVE  /\ Len(<<e>> \o q) = Len(q) + 1 /\ (<<e>> \o q)[1] = e
         /\ \A i \in 1 .. Len(q) : (<<e>> \o q)[i + 1] = q[i]
OBVIOUS

LEMMA DumpedPools ==
  ASSUME NEW s, StOK(s), NEW n \in Nat, NEW t, StOK(t), Dumped(s, t, n)
  PROVE  /\ Len(t.prevpools) = Len(s.prevpools) + 1 /\ Len(s.prevpools) \in Nat
         /\ t.prevpools[1] = [base |-> s.codep + n, words |-> s.litpool]
         /\ \A j \in 1 .. Len(s.prevpools) : t.prevpools[j + 1] = s.prevpools[j]
<1>1. s.prevpools \in Seq(Pool) /\ s.codep + n \in Nat /\ s.litpool \in Seq(Lit)
  BY LenIs
<1>2. PICK e : e = [base |-> s.codep + n, words |-> s.litpool]
  OBVIOUS
<1>3. e \in Pool
  BY <1>1, <1>2 DEF Pool
<1>4. t.prevpools = <<e>> \o s.prevpools
  BY <1>2 DEF Dumped
<1>5. Len(s.prevpools) \in Nat
  BY <1>1, LenProperties
<1> QED BY <1>1, <1>2, <1>3, <1>4, <1>5, ConsFacts

LEMMA DumpedBelow ==
  ASSUME NEW s, StOK(s), NEW n \in Nat, NEW t, StOK(t), Dumped(s, t, n), Below(s)
  PROVE  Below(t)
<1>1. /\ Len(t.prevpools) = Len(s.prevpools) + 1 /\ Len(s.prevpools) \in Nat
      /\ t.prevpools[1] = [base |-> s.codep + n, words |-> s.litpool]
      /\ \A j \in 1 .. Len(s.prevpools) : t.prevpools[j + 1] = s.prevpools[j]
  BY DumpedPools
<1>2. s.codep \in Nat /\ Size(s) \in Nat /\ t.codep = s.codep + n + Size(s)
  BY LenIs DEF Dumped
<1>3. ASSUME NEW j \in 1 .. Len(t.prevpools)
      PROVE  t.prevpools[j].base + Len(t.prevpools[j].words) <= t.codep
  <2>1. CASE j = 1
    <3>1. t.prevpools[j].base = s.codep + n /\ Len(t.prevpools[j].words) = Size(s)
      BY <1>1, <2>1 DEF Size
    <3> QED BY <1>2, <3>1
  <2>2. CASE j # 1
    <3>1. PICK i : i = j - 1
      OBVIOUS
    <3>2. i \in 1 .. Len(s.prevpools) /\ i + 1 = j
      BY <1>1, <2>2, <3>1
    <3>3. t.prevpools[j] = s.prevpools[i]
      BY <1>1, <3>2
    <3>4. s.prevpools[i].base \in Nat /\ Len(s.prevpools[i].words) \in Nat
      <4>1. s.prevpools \in Seq(Pool)
        BY LenIs
      <4>2. s.prevpools[i] \in Pool
        BY <3>2, <4>1, ElementOfSeq, LenProperties
      <4> QED BY <4>2, LenProperties DEF Pool
    <3>5. s.prevpools[i].base + Len(s.prevpools[i].words) <= s.codep
      BY <3>2 DEF Below
    <3>6. \A x, c, m, z \in Nat : x <= c => x <= c + m + z
      OBVIOUS
    <3>7. s.prevpools[i].base + Len(s.prevpools[i].words) \in Nat
      BY <3>4
    <3>8. s.prevpools[i].base + Len(s.prevpools[i].words) <= t.codep
      BY <1>2, <3>5, <3>6, <3>7
    <3> QED BY <3>3, <3>8
  <2> QED BY <2>1, <2>2
<1> QED BY <1>3 DEF Below

LEMMA AppendedWritten ==
  ASSUME NEW s, StOK(s), NEW w, NEW t, StOK(t), Appended(s, t, w)
  PROVE  /\ \A a \in Nat : \A v : Written(s, a, v) => Written(t, a, v)
         /\ Written(t, s.codep + Size(s), w)
<1>1. s.codep \in Nat /\ Size(s) \in Nat
  BY LenIs
<1>2. ASSUME NEW a \in Nat, NEW v, Written(s, a, v) PROVE Written(t, a, v)
  <2>1. CASE /\ a - s.codep + 1 \in 1 .. Size(s)
             /\ s.litpool[a - s.codep + 1] = v
    <3>1. PICK k : k = a - s.codep + 1
      OBVIOUS
    <3>2. k \in 1 .. Size(s) /\ s.litpool[k] = v
      BY <2>1, <3>1
    <3>3. k \in 1 .. Size(t) /\ t.litpool[k] = v /\ a - t.codep + 1 = k
      BY <1>1, <3>1, <3>2 DEF Appended
    <3> QED BY <3>3 DEF Written
  <2>2. CASE \E j \in 1 .. Len(s.prevpools) :
               /\ a - s.prevpools[j].base + 1 \in 1 .. Len(s.prevpools[j].words)
               /\ s.prevpools[j].words[a - s.prevpools[j].base + 1] = v
    <3>1. t.prevpools = s.prevpools
      BY DEF Appended
    <3> QED BY <2>2, <3>1 DEF Written
  <2> QED BY <1>2, <2>1, <2>2 DEF Written
<1>3. Written(t, s.codep + Size(s), w)
  <2>1. PICK a : a = s.codep + Size(s)
    OBVIOUS
  <2>2. PICK k : k = Size(s) + 1
    OBVIOUS
  <2>3. k \in 1 .. Size(t) /\ t.litpool[k] = w /\ a - t.codep + 1 = k
    BY <1>1, <2>1, <2>2 DEF Appended
  <2>4. Written(t, a, w)
    BY <2>3 DEF Written
  <2> QED BY <2>1, <2>4
<1> QED BY <1>2, <1>3

LEMMA DumpedWritten ==
  ASSUME NEW s, StOK(s), NEW n \in Nat, NEW t, StOK(t), Dumped(s, t, n)
  PROVE  /\ n = 0 => \A a \in Nat : \A v : Written(s, a, v) => Written(t, a, v)
         /\ \A k \in 1 .. Size(s) : Written(t, s.codep + n + (k - 1), s.litpool[k])
         /\ Kept(s, t)
<1>1. s.codep \in Nat /\ Size(s) \in Nat
  BY LenIs
<1>2. /\ Len(t.prevpools) = Len(s.prevpools) + 1 /\ Len(s.prevpools) \in Nat
      /\ t.prevpools[1] = [base |-> s.codep + n, words |-> s.litpool]
      /\ \A j \in 1 .. Len(s.prevpools) : t.prevpools[j + 1] = s.prevpools[j]
  BY DumpedPools
<1>3. 1 \in 1 .. Len(t.prevpools)
  BY <1>2
<1>4. t.prevpools[1].base = s.codep + n /\ t.prevpools[1].words = s.litpool
  BY <1>2
<1>5. ASSUME NEW k \in 1 .. Size(s) PROVE Written(t, s.codep + n + (k - 1), s.litpool[k])
  <2>1. PICK a : a = s.codep + n + (k - 1)
    OBVIOUS
  <2>2. a - t.prevpools[1].base + 1 = k
    BY <1>1, <1>4, <2>1
  <2>3. Written(t, a, s.litpool[k])
    BY <1>3, <1>4, <2>2 DEF Written, Size
  <2> QED BY <2>1, <2>3
<1>6. Kept(s, t)
  <2>1. ASSUME NEW j \in 1 .. Len(s.prevpools)
        PROVE  j + 1 \in 1 .. Len(t.prevpools) /\ t.prevpools[j + 1] = s.prevpools[j]
    BY <1>2
  <2> QED BY <2>1 DEF Kept
<1>7. ASSUME n = 0, NEW a \in Nat, NEW v, Written(s, a, v) PROVE Written(t, a, v)
  <2>1. CASE /\ a - s.codep + 1 \in 1 .. Size(s)
             /\ s.litpool[a - s.codep + 1] = v
    <3>1. PICK k : k = a - s.codep + 1
      OBVIOUS
    <3>2. k \in 1 .. Size(s) /\ s.litpool[k] = v
      BY <2>1, <3>1
    <3>3. s.codep + n + (k - 1) = a
      BY <1>1, <1>7, <3>1
    <3>4. Written(t, s.codep + n + (k - 1), s.litpool[k])
      BY <1>5, <3>2
    <3> QED BY <3>2, <3>3, <3>4
  <2>2. CASE \E j \in 1 .. Len(s.prevpools) :
               /\ a - s.prevpools[j].base + 1 \in 1 .. Len(s.prevpools[j].words)
               /\ s.prevpools[j].words[a - s.prevpools[j].base + 1] = v
    <3>1. PICK j \in 1 .. Len(s.prevpools) :
               /\ a - s.prevpools[j].base + 1 \in 1 .. Len(s.prevpools[j].words)
               /\ s.prevpools[j].words[a - s.prevpools[j].base + 1] = v
      BY <2>2
    <3>2. j + 1 \in 1 .. Len(t.prevpools) /\ t.prevpools[j + 1] = s.prevpools[j]
      BY <1>2
    <3> QED BY <3>1, <3>2 DEF Written
  <2> QED BY <1>7, <2>1, <2>2 DEF Written
<1> QED BY <1>5, <1>6, <1>7

LEMMA KeptTwice ==
  ASSUME NEW s, NEW t, NEW u, Kept(s, t), Kept(t, u)
  PROVE  Kept(s, u)
BY DEF Kept

LEMMA KeptSame ==
  ASSUME NEW s, NEW t, StOK(s), t.prevpools = s.prevpools
  PROVE  Kept(s, t)
BY DEF Kept

MoreOf(ws, i) == ws \in Seq(Lit) /\ i < Len(ws)

LEMMA AppendLonger ==
  ASSUME NEW s, StOK(s), NEW t, StOK(t), NEW ws, NEW i \in Nat, MoreOf(ws, i),
         Longer(s, t, ws, i), NEW u, StOK(u), Appended(t, u, ws[i + 1])
  PROVE  Longer(s, u, ws, i + 1)
<1>1. Size(s) \in Nat /\ Size(t) = Size(s) + i
  BY LenIs DEF Longer
<1>2. \A k \in 1 .. Size(s) : u.litpool[k] = s.litpool[k]
  BY <1>1 DEF Longer, Appended
<1>3. ASSUME NEW k \in 1 .. i + 1 PROVE u.litpool[Size(s) + k] = ws[k]
  <2>1. CASE k = i + 1
    <3>1. Size(s) + k = Size(t) + 1
      BY <1>1, <2>1
    <3> QED BY <2>1, <3>1 DEF Appended
  <2>2. CASE k # i + 1
    <3>1. k \in 1 .. i /\ Size(s) + k \in 1 .. Size(t)
      BY <1>1, <2>2
    <3> QED BY <3>1 DEF Longer, Appended
  <2> QED BY <2>1, <2>2
<1>4. Size(u) = Size(s) + (i + 1)
  BY <1>1 DEF Appended
<1> QED BY <1>2, <1>3, <1>4 DEF Longer, Appended

LEMMA AppendSpilt ==
  ASSUME NEW s, StOK(s), NEW t, StOK(t), NEW ws, NEW i \in Nat, MoreOf(ws, i),
         Spilt(s, t, ws, i), NEW u, StOK(u), Appended(t, u, ws[i + 1])
  PROVE  Spilt(s, u, ws, i + 1)
<1>1. s.codep \in Nat /\ Size(s) \in Nat /\ t.codep \in Nat /\ Size(t) \in Nat
  BY LenIs
<1>2. /\ \A a \in Nat : \A v : Written(t, a, v) => Written(u, a, v)
      /\ Written(u, t.codep + Size(t), ws[i + 1])
  BY AppendedWritten
<1>3. t.codep + Size(t) = s.codep + Size(s) + (i + 1)
  <2>1. t.codep + Size(t) = s.codep + 1 + Size(s) + i
    BY DEF Spilt
  <2>2. \A a, b, c, d, m \in Nat : a + b = c + 1 + d + m => a + b = c + d + (m + 1)
    OBVIOUS
  <2> QED BY <1>1, <2>1, <2>2
<1>4. \A k \in 1 .. Size(s) : Written(u, s.codep + k, s.litpool[k])
  BY <1>1, <1>2 DEF Spilt, Size
<1>5. ASSUME NEW k \in 1 .. i + 1 PROVE Written(u, s.codep + Size(s) + k, ws[k])
  <2>1. CASE k = i + 1
    BY <1>2, <1>3, <2>1
  <2>2. CASE k # i + 1
    <3>1. k \in 1 .. i /\ s.codep + Size(s) + k \in Nat
      BY <1>1, <2>2
    <3>2. Written(t, s.codep + Size(s) + k, ws[k])
      BY <3>1 DEF Spilt
    <3> QED BY <1>2, <3>1, <3>2
  <2> QED BY <2>1, <2>2
<1>6. Kept(s, u) /\ (Below(s) => Below(u))
  <2>1. Below(s) => Below(u)
    BY DEF Spilt, Appended, Below
  <2> QED BY <2>1, KeptSame, KeptTwice DEF Spilt, Appended
<1>7. u.codep + Size(u) = s.codep + 1 + Size(s) + (i + 1)
  <2>1. u.codep = t.codep /\ Size(u) = Size(t) + 1
    BY DEF Appended
  <2>2. t.codep + (Size(t) + 1) = s.codep + 1 + Size(s) + (i + 1)
    <3>1. \A a, b, c, d, m \in Nat : a + b = c + d + (m + 1) => a + (b + 1) = c + 1 + d + (m + 1)
      OBVIOUS
    <3> QED BY <1>1, <1>3, <3>1
  <2> QED BY <2>1, <2>2
<1> QED BY <1>4, <1>5, <1>6, <1>7 DEF Spilt, Appended

\* The pool is full for the first time: BranchRound, and no more of them.
LEMMA FirstSpill ==
  ASSUME NEW s, StOK(s), NEW t, StOK(t), NEW ws, NEW i \in Nat, MoreOf(ws, i),
         Longer(s, t, ws, i), Size(t) = PoolMax,
         NEW v, StOK(v), Alike(t, v),
         IF t.frefs = {} THEN v.err = (IF t.err = "none" THEN "dumplits3" ELSE t.err)
                         ELSE v.err = t.err,
         NEW x, StOK(x), Dumped(v, x, 1),
         NEW y, StOK(y), y.litpool = x.litpool, y.frefs = x.frefs,
         y.prevpools = x.prevpools, y.hit = x.hit, y.lost = x.lost, y.ldm = x.ldm,
         y.codep = x.codep, y.mustlitby = x.mustlitby, ~y.incode, y.err = x.err
  PROVE  Spilt(s, y, ws, i)
<1>1. /\ s.codep \in Nat /\ Size(s) \in Nat /\ x.codep \in Nat /\ Size(v) \in Nat
      /\ Size(v) = Size(s) + i
  BY LenIs DEF Longer, Alike, SamePool, Size
<1>2. v.codep = s.codep /\ v.frefs = s.frefs /\ v.prevpools = s.prevpools /\ v.hit = s.hit /\ v.lost = s.lost /\ v.ldm = s.ldm
  BY DEF Longer, Alike, SamePool
<1>3. /\ x.codep = s.codep + 1 + Size(v) /\ x.litpool = <<>> /\ x.frefs = {}
      /\ x.mustlitby = Infinity /\ x.ldm = s.ldm /\ x.hit = s.hit \cup Found(v, 1) /\ x.lost = s.lost \cup Missed(v, 1)
      /\ x.err = v.err \/ (x.err = "displacement" /\ v.frefs # {})
  BY <1>2 DEF Dumped, Missed
<1>4. /\ y.litpool = x.litpool /\ y.frefs = x.frefs /\ y.prevpools = x.prevpools
      /\ y.hit = x.hit /\ y.lost = x.lost /\ y.ldm = x.ldm /\ y.codep = x.codep /\ y.mustlitby = x.mustlitby
  BY DEF Alike, SamePool
<1>5. \A r : (TooFar(v, 1, r) <=> TooFar(s, 1, r)) /\ Loads(v, 1, r) = Loads(s, 1, r)
  BY <1>2 DEF TooFar, Loads
<1>6. Missed(v, 1) = Missed(s, 1) /\ Found(v, 1) = Found(s, 1)
  BY <1>2, <1>5 DEF Found, Missed
<1>7. /\ \A k \in 1 .. Size(v) : Written(x, v.codep + 1 + (k - 1), v.litpool[k])
      /\ Kept(v, x)
  BY DumpedWritten
<1>8. \A a : \A w : Written(x, a, w) => Written(y, a, w)
  BY <1>4 DEF Written, Size
<1>9. ASSUME NEW k \in 1 .. Size(v) PROVE Written(y, s.codep + k, v.litpool[k])
  <2>1. v.codep + 1 + (k - 1) = s.codep + k
    BY <1>1, <1>2
  <2>2. Written(x, v.codep + 1 + (k - 1), v.litpool[k])
    BY <1>7
  <2> QED BY <1>8, <2>1, <2>2
<1>10. v.litpool = t.litpool
  BY DEF Alike, SamePool
<1>11. ASSUME NEW k \in 1 .. Size(s) PROVE Written(y, s.codep + k, s.litpool[k])
  <2>1. k \in 1 .. Size(v) /\ v.litpool[k] = s.litpool[k]
    BY <1>1, <1>10 DEF Longer
  <2> QED BY <1>9, <2>1
<1>12. ASSUME NEW k \in 1 .. i PROVE Written(y, s.codep + Size(s) + k, ws[k])
  <2>1. PICK m : m = Size(s) + k
    OBVIOUS
  <2>2. m \in 1 .. Size(v) /\ v.litpool[m] = ws[k]
    BY <1>1, <1>10, <2>1 DEF Longer
  <2>3. s.codep + m = s.codep + Size(s) + k
    BY <1>1, <2>1
  <2> QED BY <1>9, <2>2, <2>3
<1>13. Kept(s, y) /\ (Below(s) => Below(y))
  <2>1. ASSUME Below(s) PROVE Below(y)
    <3>1. Below(v)
      BY <1>2, <2>1 DEF Below
    <3>2. Below(x)
      <4>1. 1 \in Nat
        OBVIOUS
      <4> QED BY <3>1, <4>1, DumpedBelow
    <3> QED BY <1>4, <3>2 DEF Below
  <2> QED BY <1>2, <1>4, <1>7, <2>1 DEF Kept
<1>14. /\ y.codep >= s.codep + 1
       /\ y.codep + Size(y) = s.codep + 1 + Size(s) + i
  <2>1. Size(y) = 0
    BY <1>3, <1>4 DEF Size
  <2>2. y.codep = s.codep + 1 + (Size(s) + i)
    BY <1>1, <1>3, <1>4
  <2>3. \A c, d, m \in Nat : c + 1 + (d + m) >= c + 1 /\ c + 1 + (d + m) + 0 = c + 1 + d + m
    OBVIOUS
  <2> QED BY <1>1, <2>1, <2>2, <2>3
<1>15. \/ s.frefs # {} /\ (y.err = s.err \/ y.err = "displacement")
       \/ s.frefs = {} /\ y.err = IF s.err = "none" THEN "dumplits3" ELSE s.err
  <2>1. t.frefs = s.frefs /\ t.err = s.err
    BY DEF Longer
  <2>2. CASE s.frefs = {}
    BY <1>2, <1>3, <2>1, <2>2
  <2>3. CASE s.frefs # {}
    BY <1>2, <1>3, <2>1, <2>3
  <2> QED BY <2>2, <2>3
<1> QED BY <1>3, <1>4, <1>6, <1>11, <1>12, <1>13, <1>14, <1>15 DEF Spilt

\* The pool after the first, full too, is written behind it.
LEMMA NextSpill ==
  ASSUME NEW s, StOK(s), NEW t, StOK(t), NEW ws, NEW i \in Nat, Spilt(s, t, ws, i),
         NEW v, StOK(v), Dumped(t, v, 0), v.hit = t.hit, v.lost = t.lost, v.err = t.err, Size(v) = 0,
         v.codep = t.codep + 0 + Size(t)
  PROVE  Spilt(s, v, ws, i)
<1>1. s.codep \in Nat /\ Size(s) \in Nat /\ t.codep \in Nat /\ Size(t) \in Nat
  BY LenIs
<1>2. /\ \A a \in Nat : \A w : Written(t, a, w) => Written(v, a, w)
      /\ Kept(t, v)
  BY DumpedWritten
<1>3. Kept(s, v) /\ (Below(s) => Below(v))
  <2>1. ASSUME Below(s) PROVE Below(v)
    <3>1. Below(t)
      BY <2>1 DEF Spilt
    <3>2. 0 \in Nat
      OBVIOUS
    <3> QED BY <3>1, <3>2, DumpedBelow
  <2> QED BY <1>2, <2>1, KeptTwice DEF Spilt
<1>4. /\ v.codep >= s.codep + 1
      /\ v.codep + Size(v) = s.codep + 1 + Size(s) + i
  <2>1. t.codep >= s.codep + 1 /\ t.codep + Size(t) = s.codep + 1 + Size(s) + i
    BY DEF Spilt
  <2> QED BY <1>1, <2>1
<1>5. ASSUME NEW k \in 1 .. Size(s) PROVE Written(v, s.codep + k, s.litpool[k])
  <2>1. s.codep + k \in Nat
    BY <1>1
  <2> QED BY <1>2, <2>1 DEF Spilt
<1>6. ASSUME NEW k \in 1 .. i PROVE Written(v, s.codep + Size(s) + k, ws[k])
  <2>1. s.codep + Size(s) + k \in Nat
    BY <1>1
  <2> QED BY <1>2, <2>1 DEF Spilt
<1>7. ~v.incode /\ v.ldm = s.ldm /\ v.mustlitby = Infinity /\ v.frefs = {} /\ v.hit = s.hit \cup Found(s, 1) /\ v.lost = s.lost \cup Missed(s, 1)
  BY DEF Spilt, Dumped
<1> QED BY <1>3, <1>4, <1>5, <1>6, <1>7 DEF Spilt

LEMMA WordOf ==
  ASSUME NEW ws, NEW i \in Nat, MoreOf(ws, i)
  PROVE  ws[i + 1] \in Lit
<1>1. i + 1 \in 1 .. Len(ws) /\ ws \in Seq(Lit)
  BY DEF MoreOf
<1> QED BY <1>1

LEMMA NewLimitNow ==
  ASSUME NEW s, StOK(s)
  PROVE  LET t == [s EXCEPT !.incode = FALSE]
         IN  /\ StOK(t) /\ t.litpool = s.litpool /\ t.frefs = s.frefs
             /\ t.prevpools = s.prevpools /\ t.hit = s.hit /\ t.lost = s.lost /\ t.ldm = s.ldm
             /\ t.codep = s.codep /\ t.mustlitby = s.mustlitby /\ ~t.incode /\ t.err = s.err
BY DEF StOK, St, Size

LEMMA FillOne ==
  ASSUME NEW s, StOK(s), s.incode, NEW t, StOK(t), NEW ws, NEW i \in Nat, MoreOf(ws, i),
         FilledTo(s, t, ws, i)
  PROVE  LET u == Outlitword(t, ws[i + 1])
         IN  StOK(u) /\ FilledTo(s, u, ws, i + 1)
<1> DEFINE w == ws[i + 1]
<1>1. w \in Lit
  BY WordOf
<1>2. Size(s) \in Nat /\ Size(t) \in Nat /\ Size(t) <= PoolMax /\ PoolMax \in Nat /\ 0 < PoolMax
  BY LenIs, Reaches
<1>3. PICK v : v = IF ~(Len(t.litpool) = PoolMax) THEN t
                   ELSE IF t.incode
                        THEN [BranchRound(IF t.frefs = {} THEN Syserr(t, "dumplits3") ELSE t)
                                EXCEPT !.incode = FALSE]
                        ELSE Dumplits_inner(Newliteralpool(t))
  OBVIOUS
<1>4. Outlitword(t, w) = [v EXCEPT !.litpool = Append(@, w)]
  BY <1>3 DEF Outlitword
<1>5. PICK u : u = Outlitword(t, w)
  OBVIOUS
<1> HIDE DEF w
<1>6. StOK(v) /\ Size(v) < PoolMax => StOK(u) /\ Appended(v, u, w)
  BY <1>1, <1>4, <1>5, AppendWord
<1>7. CASE Size(t) < PoolMax
  <2>1. v = t
    BY <1>2, <1>3, <1>7 DEF Size
  <2>2. StOK(u) /\ Appended(t, u, ws[i + 1])
    BY <1>6, <1>7, <2>1 DEF w
  <2>3. CASE Size(s) + i <= PoolMax /\ Longer(s, t, ws, i)
    <3>1. Size(t) = Size(s) + i
      BY <2>3 DEF Longer
    <3>2. Size(s) + (i + 1) <= PoolMax
      BY <1>2, <1>7, <3>1
    <3>3. Longer(s, u, ws, i + 1)
      BY <2>2, <2>3, AppendLonger
    <3> QED BY <1>5, <2>2, <3>2, <3>3 DEF FilledTo, w
  <2>4. CASE Size(s) + i > PoolMax /\ Spilt(s, t, ws, i)
    <3>1. Size(s) + (i + 1) > PoolMax
      BY <1>2, <2>4
    <3>2. Spilt(s, u, ws, i + 1)
      BY <2>2, <2>4, AppendSpilt
    <3> QED BY <1>5, <2>2, <3>1, <3>2 DEF FilledTo, w
  <2> QED BY <2>3, <2>4 DEF FilledTo
<1>8. CASE Size(t) = PoolMax /\ Size(s) + i <= PoolMax /\ Longer(s, t, ws, i)
  <2>1. t.incode /\ Size(t) = Size(s) + i
    BY <1>8 DEF Longer
  <2>2. PICK x : x = IF t.frefs = {} THEN Syserr(t, "dumplits3") ELSE t
    OBVIOUS
  <2>3. /\ StOK(x) /\ Alike(t, x)
        /\ IF t.frefs = {} THEN x.err = (IF t.err = "none" THEN "dumplits3" ELSE t.err)
                           ELSE x.err = t.err
    BY <2>2, SyserrDoes DEF Faults, Stopped, Alike, SamePool
  <2>4. PICK y : y = BranchRound(x)
    OBVIOUS
  <2>5. StOK(y) /\ Dumped(x, y, 1)
    <3>1. Len(<<>>) = 0 /\ Size(x) # 0
      BY <1>2, <1>8, <2>3 DEF Alike, SamePool, Size
    <3>2. x.litpool # <<>>
      BY <3>1 DEF Size
    <3> QED BY <2>3, <2>4, <3>2, BranchRoundDoes
  <2>6. v = [y EXCEPT !.incode = FALSE]
    BY <1>3, <1>8, <2>1, <2>2, <2>4 DEF Size
  <2>7. /\ StOK(v) /\ v.litpool = y.litpool /\ v.frefs = y.frefs
        /\ v.prevpools = y.prevpools /\ v.hit = y.hit /\ v.lost = y.lost /\ v.ldm = y.ldm
        /\ v.codep = y.codep /\ v.mustlitby = y.mustlitby /\ ~v.incode /\ v.err = y.err
    BY <2>5, <2>6, NewLimitNow
  <2>8. Spilt(s, v, ws, i)
    BY <1>8, <2>3, <2>5, <2>7, FirstSpill
  <2>9. Size(v) < PoolMax
    BY <1>2, <2>5, <2>7 DEF Dumped, Size
  <2>10. StOK(u) /\ Appended(v, u, ws[i + 1])
    BY <1>6, <2>7, <2>9 DEF w
  <2>11. Spilt(s, u, ws, i + 1)
    BY <2>7, <2>8, <2>10, AppendSpilt
  <2>12. Size(s) + (i + 1) > PoolMax
    BY <1>2, <1>8, <2>1
  <2> QED BY <1>5, <2>10, <2>11, <2>12 DEF FilledTo, w
<1>9. CASE Size(t) = PoolMax /\ Size(s) + i > PoolMax /\ Spilt(s, t, ws, i)
  <2>1. ~t.incode /\ t.frefs = {} /\ t.mustlitby = Infinity
    BY <1>9 DEF Spilt
  <2>2. v = Dumplits_inner(Newliteralpool(t))
    BY <1>3, <1>9, <2>1 DEF Size
  <2>3. StOK(v) /\ Dumped(t, v, 0) /\ v.hit = t.hit /\ v.lost = t.lost /\ v.err = t.err
    BY <2>1, <2>2, NextPool
  <2>4. Size(v) = 0 /\ v.codep = t.codep + 0 + Size(t)
    BY <2>3 DEF Dumped, Size
  <2>5. StOK(u) /\ Appended(v, u, ws[i + 1])
    BY <1>2, <1>6, <2>3, <2>4 DEF w
  <2>6. Spilt(s, v, ws, i)
    BY <1>9, <2>3, <2>4, NextSpill
  <2>7. Spilt(s, u, ws, i + 1)
    BY <2>3, <2>5, <2>6, AppendSpilt
  <2>8. Size(s) + (i + 1) > PoolMax
    BY <1>2, <1>9
  <2> QED BY <1>5, <2>5, <2>7, <2>8 DEF FilledTo, w
<1>10. Size(t) < PoolMax \/ Size(t) = PoolMax
  BY <1>2
<1> QED BY <1>7, <1>8, <1>9, <1>10 DEF FilledTo

\* h holds the states after up to m words.
FillsTo(h, s, ws, m) ==
  h = [i \in 0 .. m |-> IF i = 0 THEN s ELSE Outlitword(h[i - 1], ws[i])]

LEMMA FillsFurther ==
  ASSUME NEW s, NEW ws, NEW m \in Nat, NEW h, FillsTo(h, s, ws, m)
  PROVE  \E g : FillsTo(g, s, ws, m + 1)
<1>1. PICK g : g = [i \in 0 .. m + 1 |-> IF i <= m THEN h[i] ELSE Outlitword(h[m], ws[m + 1])]
  OBVIOUS
<1>2. ASSUME NEW i \in 0 .. m + 1
      PROVE  g[i] = IF i = 0 THEN s ELSE Outlitword(g[i - 1], ws[i])
  <2>1. CASE i = 0
    <3>1. g[i] = h[0] /\ 0 \in 0 .. m
      BY <1>1, <2>1
    <3>2. h[0] = s
      BY <3>1 DEF FillsTo
    <3> QED BY <2>1, <3>1, <3>2
  <2>2. CASE i # 0 /\ i <= m
    <3>1. i \in 0 .. m /\ i - 1 \in 0 .. m + 1 /\ i - 1 <= m
      BY <2>2
    <3>2. g[i] = h[i] /\ g[i - 1] = h[i - 1]
      BY <1>1, <3>1
    <3>3. h[i] = Outlitword(h[i - 1], ws[i])
      BY <2>2, <3>1 DEF FillsTo
    <3> QED BY <2>2, <3>2, <3>3
  <2>3. CASE i = m + 1
    <3>1. i - 1 = m /\ m \in 0 .. m + 1 /\ m <= m /\ i # 0 /\ ~(i <= m)
      BY <2>3
    <3>2. g[m] = h[m] /\ g[i] = Outlitword(h[m], ws[m + 1])
      BY <1>1, <3>1
    <3> QED BY <2>3, <3>1, <3>2
  <2> QED BY <2>1, <2>2, <2>3
<1>3. g = [i \in 0 .. m + 1 |-> g[i]]
  BY <1>1
<1>4. FillsTo(g, s, ws, m + 1)
  BY <1>2, <1>3 DEF FillsTo
<1> QED BY <1>4

LEMMA FillsAll ==
  ASSUME NEW s, NEW ws, NEW n \in Nat
  PROVE  \E h : FillsTo(h, s, ws, n)
<1> DEFINE Bad == {m \in Nat : ~\E h : FillsTo(h, s, ws, m)}
<1>1. SUFFICES ASSUME Bad # {} PROVE FALSE
  OBVIOUS
<1>2. PICK m \in Bad : \A j \in Bad : m <= j
  BY <1>1, HasLeast
<1>3. CASE m = 0
  <2>1. PICK h : h = [i \in 0 .. 0 |-> s]
    OBVIOUS
  <2>2. \A i \in 0 .. 0 : i = 0
    OBVIOUS
  <2>3. FillsTo(h, s, ws, 0)
    BY <2>1, <2>2 DEF FillsTo
  <2> QED BY <1>3, <2>3
<1>4. CASE m # 0
  <2>1. m - 1 \in Nat /\ ~(m <= m - 1)
    BY <1>4
  <2>2. m - 1 \notin Bad
    BY <1>2, <2>1
  <2>3. PICK h : FillsTo(h, s, ws, m - 1)
    BY <2>1, <2>2
  <2>4. \E g : FillsTo(g, s, ws, (m - 1) + 1)
    BY <2>1, <2>3, FillsFurther
  <2>5. (m - 1) + 1 = m
    OBVIOUS
  <2> QED BY <2>4, <2>5
<1> QED BY <1>3, <1>4

LEMMA FilledIs ==
  ASSUME NEW s, NEW ws \in Seq(Lit)
  PROVE  FillsTo(Filled(s, ws), s, ws, Len(ws))
<1>1. Len(ws) \in Nat
  BY LenProperties
<1>2. \E h : FillsTo(h, s, ws, Len(ws))
  BY <1>1, FillsAll
<1>3. Filled(s, ws) = CHOOSE f : f = [i \in 0 .. Len(ws) |-> IF i = 0 THEN s ELSE Outlitword(f[i - 1], ws[i])]
  BY DEF Filled
<1>4. Filled(s, ws) = CHOOSE f : FillsTo(f, s, ws, Len(ws))
  BY <1>3 DEF FillsTo
<1> QED BY <1>2, <1>4

\* All words of ws.
FullOf(s, t, ws) ==
  \/ Size(s) + Len(ws) <= PoolMax /\ Longer(s, t, ws, Len(ws))
  \/ Size(s) + Len(ws) > PoolMax /\ Spilt(s, t, ws, Len(ws))

LEMMA FilledDoes ==
  ASSUME NEW s, StOK(s), s.incode, NEW ws \in Seq(Lit)
  PROVE  LET t == Filled(s, ws)[Len(ws)] IN StOK(t) /\ FullOf(s, t, ws)
<1>1. PICK n \in Nat : n = Len(ws)
  BY LenProperties
<1>2. PICK h : h = Filled(s, ws)
  OBVIOUS
<1>3. FillsTo(h, s, ws, n)
  BY <1>1, <1>2, FilledIs
<1> DEFINE Bad == {i \in Nat : i <= n /\ ~(StOK(h[i]) /\ FilledTo(s, h[i], ws, i))}
<1>4. Bad = {}
  <2>1. SUFFICES ASSUME Bad # {} PROVE FALSE
    OBVIOUS
  <2>2. PICK m \in Bad : \A j \in Bad : m <= j
    BY <2>1, HasLeast
  <2>3. CASE m = 0
    <3>1. h[0] = s
      BY <1>3 DEF FillsTo
    <3>2. Size(s) \in Nat /\ Size(s) + 0 = Size(s) /\ Size(s) + 0 <= PoolMax
      BY LenIs
    <3>3. \A k \in 1 .. 0 : FALSE
      OBVIOUS
    <3>4. Longer(s, s, ws, 0)
      BY <3>2, <3>3 DEF Longer
    <3> QED BY <2>3, <3>1, <3>2, <3>4 DEF FilledTo
  <2>4. CASE m # 0
    <3>1. PICK i \in Nat : m = i + 1
      BY <2>4
    <3>2. i <= n /\ i < n /\ ~(m <= i) /\ m \in 0 .. n /\ m - 1 = i
      BY <3>1
    <3>3. StOK(h[i]) /\ FilledTo(s, h[i], ws, i)
      BY <2>2, <3>2
    <3>4. h[m] = Outlitword(h[i], ws[i + 1])
      BY <1>3, <2>4, <3>1, <3>2 DEF FillsTo
    <3>5. MoreOf(ws, i)
      BY <1>1, <3>2 DEF MoreOf
    <3>6. StOK(h[m]) /\ FilledTo(s, h[m], ws, i + 1)
      BY <3>3, <3>4, <3>5, FillOne
    <3> QED BY <3>1, <3>6
  <2> QED BY <2>3, <2>4
<1>5. StOK(h[n]) /\ FilledTo(s, h[n], ws, n)
  <2>1. n <= n
    OBVIOUS
  <2> QED BY <1>4, <2>1
<1> QED BY <1>1, <1>2, <1>5 DEF FilledTo, FullOf

OutlitsOf(s, t, ws) ==
  \/ Size(s) + Len(ws) <= PoolMax /\ Longer(s, t, ws, Len(ws))
  \/ /\ Size(s) + Len(ws) > PoolMax /\ Spilt(s, t, ws, Len(ws))
     /\ t.litpool = <<>>

LEMMA OutlitsDoes ==
  ASSUME NEW s, StOK(s), s.incode, NEW ws \in Seq(Lit)
  PROVE  StOK(Outlits(s, ws)) /\ OutlitsOf(s, Outlits(s, ws), ws)
<1>1. PICK t : t = Filled(s, ws)[Len(ws)]
  OBVIOUS
<1>2. StOK(t) /\ FullOf(s, t, ws)
  BY <1>1, FilledDoes
<1>3. PICK v : v = IF t.incode THEN t ELSE Dumplits_inner(t)
  OBVIOUS
<1>4. Outlits(s, ws) = v
  BY <1>1, <1>3 DEF Outlits
<1>5. CASE Size(s) + Len(ws) <= PoolMax /\ Longer(s, t, ws, Len(ws))
  <2>1. v = t
    BY <1>3, <1>5 DEF Longer
  <2> QED BY <1>2, <1>4, <1>5, <2>1 DEF OutlitsOf
<1>6. CASE Size(s) + Len(ws) > PoolMax /\ Spilt(s, t, ws, Len(ws))
  <2>1. ~t.incode /\ t.frefs = {} /\ t.mustlitby = Infinity
    BY <1>6 DEF Spilt
  <2>2. v = Dumplits_inner(t)
    BY <1>3, <2>1
  <2>3. /\ StOK(v) /\ v.codep = t.codep + Size(t) /\ v.litpool = <<>>
        /\ v.prevpools = <<[base |-> t.codep, words |-> t.litpool]>> \o t.prevpools
        /\ v.mustlitby = t.mustlitby /\ v.frefs = t.frefs /\ v.ldm = t.ldm
        /\ v.incode = t.incode /\ v.hit = t.hit /\ v.lost = t.lost /\ v.err = t.err
    BY <1>2, <2>2, InnerDoes
  <2>4. t.codep + 0 = t.codep
    BY <1>2, LenIs
  <2>5. Dumped(t, v, 0)
    <3>1. Missed(t, 0) = {} /\ Found(t, 0) = {}
      BY <2>1 DEF Found, Missed
    <3> QED BY <2>1, <2>3, <2>4, <3>1 DEF Dumped
  <2>6. Size(v) = 0 /\ v.codep = t.codep + 0 + Size(t)
    BY <2>3, <2>4 DEF Size
  <2>7. PICK n \in Nat : n = Len(ws)
    BY LenProperties
  <2>8. Spilt(s, v, ws, n)
    BY <1>2, <1>6, <2>3, <2>5, <2>6, <2>7, NextSpill
  <2> QED BY <1>4, <1>6, <2>3, <2>7, <2>8 DEF OutlitsOf
<1> QED BY <1>2, <1>5, <1>6 DEF FullOf

----------------------------------------------------------------------------
(* References.                                                             *)

Fwd(s, t, place, reach, want, sure) ==
  /\ t.frefs = s.frefs \cup {[at |-> s.codep, place |-> place, reach |-> reach,
                               want |-> want, sure |-> sure]}
  /\ t.codep = s.codep + 1
  /\ t.litpool = s.litpool /\ t.mustlitby = s.mustlitby /\ t.prevpools = s.prevpools
  /\ t.ldm = s.ldm /\ t.hit = s.hit /\ t.lost = s.lost /\ t.err = s.err /\ t.incode = s.incode

\* What an instruction at s finds in an earlier pool, dist words back.
Reads(s, dist, off, reach, want) ==
  [target |-> s.codep + 2 - (dist % reach), want |-> want, sure |-> off = 0, short |-> 2 * off]

Back(s, t, dist, off, reach, want) ==
  /\ t.hit = s.hit \cup {Reads(s, dist, off, reach, want)}
  /\ t.codep = s.codep + 1
  /\ t.frefs = s.frefs /\ t.litpool = s.litpool /\ t.mustlitby = s.mustlitby /\ t.lost = s.lost
  /\ t.prevpools = s.prevpools /\ t.ldm = s.ldm /\ t.err = s.err /\ t.incode = s.incode

LEMMA ForwardDoes ==
  ASSUME NEW s, StOK(s), NEW place \in Int, NEW reach \in {Near, Far}, NEW want \in Seq(Lit),
         NEW sure \in BOOLEAN
  PROVE  LET t == Forward(s, place, reach, want, sure)
         IN  StOK(t) /\ Fwd(s, t, place, reach, want, sure)
<1>3. PICK r : r = [at |-> s.codep, place |-> place, reach |-> reach, want |-> want, sure |-> sure]
  OBVIOUS
<1>4. s \in St /\ s.codep \in Nat /\ s.frefs \in SUBSET Ref
  BY LenIs
<1>5. r \in Ref
  BY <1>3, <1>4 DEF Ref
<1>6. PICK R : R = s.frefs \cup {r}
  OBVIOUS
<1>7. PICK v : v = [s EXCEPT !.frefs = R]
  OBVIOUS
<1>8. R \in SUBSET Ref
  BY <1>4, <1>5, <1>6
<1>9. /\ v \in St /\ v.frefs = R /\ v.codep = s.codep /\ v.litpool = s.litpool
      /\ v.mustlitby = s.mustlitby /\ v.prevpools = s.prevpools /\ v.ldm = s.ldm
      /\ v.hit = s.hit /\ v.lost = s.lost /\ v.err = s.err /\ v.incode = s.incode
  BY <1>4, <1>7, <1>8 DEF St
<1>10. StOK(v)
  BY <1>9 DEF StOK, Size
<1>11. PICK t : t = Out(v, 1)
  OBVIOUS
<1>12. StOK(t) /\ Moved(v, t, 1)
  BY <1>10, <1>11, OutDoes
<1>13. Forward(s, place, reach, want, sure) = t
  BY <1>3, <1>6, <1>7, <1>11 DEF Forward
<1>14. Fwd(s, t, place, reach, want, sure)
  BY <1>3, <1>6, <1>9, <1>12 DEF Fwd, Moved, SamePool
<1> QED BY <1>12, <1>13, <1>14

LEMMA BackwardDoes ==
  ASSUME NEW s, StOK(s), NEW dist \in Int, NEW off \in Nat, NEW reach \in {Near, Far},
         NEW want \in Seq(Lit)
  PROVE  LET t == Backward(s, dist, off, reach, want)
         IN  StOK(t) /\ Back(s, t, dist, off, reach, want)
<1>1. PICK d : d = dist % reach
  OBVIOUS
<1>2. d \in Nat
  BY <1>1, LowBits, Reaches
<1>3. s \in St /\ s.codep \in Nat /\ s.hit \in SUBSET Hit
  BY LenIs
<1>4. PICK x : x = s.codep + 2 - d
  OBVIOUS
<1>5. PICK r : r = [target |-> x, want |-> want, sure |-> off = 0, short |-> 2 * off]
  OBVIOUS
<1>6. r \in Hit
  <2>1. x \in Int /\ (off = 0) \in BOOLEAN /\ 2 * off \in Int
    BY <1>2, <1>3, <1>4
  <2> QED BY <1>5, <2>1 DEF Hit
<1>7. PICK H : H = s.hit \cup {r}
  OBVIOUS
<1>8. PICK v : v = [s EXCEPT !.hit = H]
  OBVIOUS
<1>9. /\ v \in St /\ v.hit = H /\ v.codep = s.codep /\ v.litpool = s.litpool
      /\ v.mustlitby = s.mustlitby /\ v.prevpools = s.prevpools /\ v.ldm = s.ldm
      /\ v.frefs = s.frefs /\ v.lost = s.lost /\ v.err = s.err /\ v.incode = s.incode
  <2>1. H \in SUBSET Hit
    BY <1>3, <1>6, <1>7
  <2> QED BY <1>3, <1>8, <2>1 DEF St
<1>10. StOK(v)
  BY <1>9 DEF StOK, Size
<1>11. PICK t : t = Out(v, 1)
  OBVIOUS
<1>12. StOK(t) /\ Moved(v, t, 1)
  BY <1>10, <1>11, OutDoes
<1>13. Backward(s, dist, off, reach, want) = t
  BY <1>1, <1>4, <1>5, <1>7, <1>8, <1>11 DEF Backward
<1>15. r = Reads(s, dist, off, reach, want)
  BY <1>1, <1>4, <1>5 DEF Reads
<1>14. Back(s, t, dist, off, reach, want)
  BY <1>7, <1>9, <1>12, <1>15 DEF Back, Moved, SamePool
<1> QED BY <1>12, <1>13, <1>14

\* ws is in the pool behind its first p words.
Holds(pool, p, ws) ==
  /\ p + Len(ws) <= Len(pool)
  /\ \A k \in 1 .. Len(ws) : pool[p + k] = ws[k]

LEMMA PlacesAre ==
  ASSUME NEW pool \in Seq(Lit), NEW ws \in Seq(Lit), NEW p \in Places(pool, ws)
  PROVE  p \in Nat /\ Holds(pool, p, ws)
<1>1. Len(pool) \in Nat /\ Len(ws) \in Nat
  BY LenProperties
<1>2. /\ p \in 0 .. Len(pool) - Len(ws)
      /\ SubSeq(pool, p + 1, p + Len(ws)) = ws
  BY DEF Places
<1>3. p \in Nat /\ p + Len(ws) <= Len(pool)
  BY <1>1, <1>2
<1>4. ASSUME NEW k \in 1 .. Len(ws) PROVE pool[p + k] = ws[k]
  <2>1. /\ p + 1 \in 1 .. Len(pool) + 1 /\ p + Len(ws) \in p + 1 - 1 .. Len(pool)
        /\ p + 1 + k - 1 = p + k /\ k \in 1 .. (p + Len(ws)) - (p + 1) + 1
    BY <1>1, <1>3
  <2>2. SubSeq(pool, p + 1, p + Len(ws))[k] = pool[p + 1 + k - 1]
    BY <2>1, SubSeqProperties
  <2> QED BY <1>2, <2>1, <2>2
<1> QED BY <1>3, <1>4 DEF Holds

LEMMA FirstPlace ==
  ASSUME NEW pool \in Seq(Lit), NEW ws \in Seq(Lit), Places(pool, ws) # {}
  PROVE  Min(Places(pool, ws)) \in Places(pool, ws)
<1>1. Places(pool, ws) \in SUBSET Nat
  BY PlacesAre
<1> QED BY <1>1, MinOfNats

\* A pool already emitted has ws from address a on.
InPool(s, a, ws) ==
  \E j \in 1 .. Len(s.prevpools) :
    \E i \in Places(s.prevpools[j].words, ws) : a = s.prevpools[j].base + i

LEMMA PoolIs ==
  ASSUME NEW s, StOK(s), NEW j \in 1 .. Len(s.prevpools)
  PROVE  /\ s.prevpools[j].base \in Nat /\ s.prevpools[j].words \in Seq(Lit)
         /\ j \in DOMAIN s.prevpools /\ j \in Nat
<1>1. s.prevpools \in Seq(Pool)
  BY LenIs
<1>2. s.prevpools[j] \in Pool /\ j \in DOMAIN s.prevpools /\ j \in Nat
  BY <1>1, ElementOfSeq, LenProperties
<1> QED BY <1>2 DEF Pool

LEMMA FindPrevIs ==
  ASSUME NEW s, StOK(s), NEW ws \in Seq(Lit), NEW earliest \in Int,
         FindPrev(s, ws, earliest) # {}
  PROVE  LET a == Min(FindPrev(s, ws, earliest))
         IN  a \in Nat /\ a >= earliest /\ InPool(s, a, ws)
<1> DEFINE A(j)   == Addresses(s.prevpools[j], ws, earliest)
           having == {j \in DOMAIN s.prevpools : A(j) # {}}
<1>1. FindPrev(s, ws, earliest) = IF having = {} THEN {} ELSE {Min(A(Min(having)))}
  BY DEF FindPrev
<1>2. having # {} /\ FindPrev(s, ws, earliest) = {Min(A(Min(having)))}
  BY <1>1
<1>3. DOMAIN s.prevpools = 1 .. Len(s.prevpools) /\ having \in SUBSET Nat
  <2>1. s.prevpools \in Seq(Pool)
    BY LenIs
  <2> QED BY <2>1, LenProperties
<1>4. PICK j : j = Min(having)
  OBVIOUS
<1>5. j \in having
  BY <1>2, <1>3, <1>4, MinOfNats
<1>6. j \in 1 .. Len(s.prevpools) /\ A(j) # {}
  BY <1>3, <1>5
<1>7. PICK q : q = s.prevpools[j]
  OBVIOUS
<1>8. q.base \in Nat /\ q.words \in Seq(Lit)
  BY <1>6, <1>7, PoolIs
<1>9. A(j) = {a \in {q.base + i : i \in Places(q.words, ws)} : a >= earliest}
  BY <1>7 DEF Addresses
<1>10. \A i \in Places(q.words, ws) : i \in Nat /\ q.base + i \in Nat
  <2>1. \A i \in Places(q.words, ws) : i \in Nat
    BY <1>8, PlacesAre
  <2> QED BY <1>8, <2>1
<1>11. A(j) \in SUBSET Nat
  BY <1>9, <1>10
<1>12. PICK a : a = Min(A(j))
  OBVIOUS
<1>13. a \in A(j)
  BY <1>6, <1>11, <1>12, MinOfNats
<1>14. a \in Nat /\ a >= earliest /\ \E i \in Places(q.words, ws) : a = q.base + i
  BY <1>9, <1>10, <1>13
<1>15. Min({a}) = a
  <2>1. a \in {a} /\ \A k \in {a} : a <= k
    BY <1>14
  <2>2. Min({a}) \in {a}
    BY <1>14, <2>1, MinOfNats
  <2> QED BY <2>2
<1>16. Min(FindPrev(s, ws, earliest)) = a
  BY <1>2, <1>4, <1>12, <1>15
<1> QED BY <1>6, <1>7, <1>14, <1>16 DEF InPool

\* A literal not in the pool is put there.
EnteredOf(s, t, ws, reach) ==
  \E u, v : /\ StOK(u) /\ u.incode /\ AddrOf(s, u, reach)
            /\ StOK(v) /\ OutlitsOf(u, v, ws)
            /\ Fwd(v, t, Size(v) - Len(ws), reach, ws, TRUE)

ReferOf(s, t, ws, reach) ==
  \/ \E p \in Places(s.litpool, ws) : Fwd(s, t, p, reach, ws, TRUE)
  \/ \E a \in Nat : /\ a >= s.codep + 2 - (reach - 1) /\ InPool(s, a, ws)
                    /\ Back(s, t, s.codep + 2 - a, 0, reach, ws)
  \/ Places(s.litpool, ws) = {} /\ EnteredOf(s, t, ws, reach)

LEMMA AddressabilityRuns ==
  ASSUME NEW s, StOK(s), s.incode, NEW n \in Int, NEW u, AddrOf(s, u, n)
  PROVE  u.incode
<1>1. PICK v : /\ StOK(v)
               /\ IF Size(s) >= n - 5 THEN DumpOf(s, v) ELSE v = s
               /\ SamePool(v, u)
  BY DEF AddrOf
<1>2. v.incode
  BY <1>1 DEF DumpOf, Stopped, Alike, SamePool, Skipped, Dumped
<1> QED BY <1>1, <1>2 DEF SamePool

LEMMA ReferDoes ==
  ASSUME NEW s, StOK(s), s.incode, NEW ws \in Seq(Lit), NEW reach \in {Near, Far}
  PROVE  StOK(Refer(s, ws, reach)) /\ ReferOf(s, Refer(s, ws, reach), ws, reach)
<1>1. PICK here : here = Places(s.litpool, ws)
  OBVIOUS
<1>2. PICK e : e = s.codep + 2 - (reach - 1)
  OBVIOUS
<1>3. PICK back : back = FindPrev(s, ws, e)
  OBVIOUS
<1>4. PICK u : u = Addressability(s, reach)
  OBVIOUS
<1>5. PICK v : v = Outlits(u, ws)
  OBVIOUS
<1>6. Refer(s, ws, reach) = IF here # {} THEN Forward(s, Min(here), reach, ws, TRUE)
        ELSE IF back # {}
             THEN Backward(s, s.codep + 2 - Min(back), 0, reach, ws)
             ELSE Forward(v, Len(v.litpool) - Len(ws), reach, ws, TRUE)
  BY <1>1, <1>2, <1>3, <1>4, <1>5 DEF Refer
<1>7. s.codep \in Nat /\ s.litpool \in Seq(Lit) /\ reach \in Nat /\ e \in Int
  BY <1>2, LenIs, Reaches
<1>8. CASE here # {}
  <2>1. PICK p : p = Min(here)
    OBVIOUS
  <2>2. p \in here /\ p \in Nat
    BY <1>1, <1>7, <1>8, <2>1, FirstPlace, PlacesAre
  <2>3. /\ StOK(Forward(s, p, reach, ws, TRUE))
        /\ Fwd(s, Forward(s, p, reach, ws, TRUE), p, reach, ws, TRUE)
    <3>1. p \in Int /\ TRUE \in BOOLEAN
      BY <2>2
    <3>2. PICK b \in BOOLEAN : b = TRUE
      BY <3>1
    <3> QED BY <3>1, <3>2, ForwardDoes
  <2> QED BY <1>1, <1>6, <1>8, <2>1, <2>2, <2>3 DEF ReferOf
<1>9. CASE here = {} /\ back # {}
  <2>1. PICK a : a = Min(back)
    OBVIOUS
  <2>2. a \in Nat /\ a >= e /\ InPool(s, a, ws)
    BY <1>3, <1>7, <1>9, <2>1, FindPrevIs
  <2>3. PICK d : d = s.codep + 2 - a
    OBVIOUS
  <2>4. d \in Int
    BY <1>7, <2>2, <2>3
  <2>5. /\ StOK(Backward(s, d, 0, reach, ws))
        /\ Back(s, Backward(s, d, 0, reach, ws), d, 0, reach, ws)
    BY <2>4, BackwardDoes
  <2> QED BY <1>2, <1>6, <1>9, <2>1, <2>2, <2>3, <2>5 DEF ReferOf
<1>10. CASE here = {} /\ back = {}
  <2>1. StOK(u) /\ AddrOf(s, u, reach)
    BY <1>4, <1>7, AddressabilityDoes
  <2>2. u.incode
    BY <1>7, <2>1, AddressabilityRuns
  <2>3. StOK(v) /\ OutlitsOf(u, v, ws)
    BY <1>5, <2>1, <2>2, OutlitsDoes
  <2>4. PICK d : d = Size(v) - Len(ws)
    OBVIOUS
  <2>5. d \in Int
    BY <2>3, <2>4, LenIs, LenProperties
  <2>6. /\ StOK(Forward(v, d, reach, ws, TRUE))
        /\ Fwd(v, Forward(v, d, reach, ws, TRUE), d, reach, ws, TRUE)
    <3>2. PICK b \in BOOLEAN : b = TRUE
      OBVIOUS
    <3> QED BY <2>3, <2>5, <3>2, ForwardDoes
  <2>7. Refer(s, ws, reach) = Forward(v, d, reach, ws, TRUE)
    BY <1>6, <1>10, <2>4 DEF Size
  <2>8. EnteredOf(s, Refer(s, ws, reach), ws, reach)
    BY <2>1, <2>2, <2>3, <2>4, <2>6, <2>7 DEF EnteredOf
  <2> QED BY <1>1, <1>10, <2>6, <2>7, <2>8 DEF ReferOf
<1> QED BY <1>8, <1>9, <1>10

LEMMA FewWords ==
  ASSUME NEW S, NEW v \in S, NEW w \in S
  PROVE  /\ <<w>> \in Seq(S) /\ Len(<<w>>) = 1 /\ <<w>>[1] = w
         /\ <<v, w>> \in Seq(S) /\ Len(<<v, w>>) = 2
         /\ <<v, w>>[1] = v /\ <<v, w>>[2] = w
OBVIOUS

LEMMA NumberIs ==
  ASSUME NEW n \in Numbers \cup Int
  PROVE  Number(n) \in Seq(Lit) /\ Len(Number(n)) = 1
<1>1. <<"NUMBER", "", n>> \in Lit
  BY DEF Lit, Symbols, Values
<1>2. PICK w : w = <<"NUMBER", "", n>>
  OBVIOUS
<1>3. <<w>> \in Seq(Lit) /\ Len(<<w>>) = 1
  BY <1>1, <1>2, FewWords
<1> QED BY <1>2, <1>3 DEF Number

LEMMA AdconIs ==
  ASSUME NEW x \in Symbols, NEW n \in Int
  PROVE  Adcon(x, n) \in Seq(Lit) /\ Len(Adcon(x, n)) = 1
<1>1. <<"ADCON", x, n>> \in Lit
  BY DEF Lit, Values
<1>2. PICK w : w = <<"ADCON", x, n>>
  OBVIOUS
<1>3. <<w>> \in Seq(Lit) /\ Len(<<w>>) = 1
  BY <1>1, <1>2, FewWords
<1> QED BY <1>2, <1>3 DEF Adcon

LEMMA DoubleIs ==
  ASSUME NEW p \in Pairs
  PROVE  Double(p) \in Seq(Lit) /\ Len(Double(p)) = 2
<1>1. p[1] \in Values /\ p[2] \in Values
  BY DEF Values
<1>2. <<"FPNUM1", "", p[1]>> \in Lit /\ <<"FPNUM2", "", p[2]>> \in Lit
  BY <1>1 DEF Lit, Symbols
<1>3. PICK v, w : v = <<"FPNUM1", "", p[1]>> /\ w = <<"FPNUM2", "", p[2]>>
  OBVIOUS
<1>4. <<v, w>> \in Seq(Lit) /\ Len(<<v, w>>) = 2
  BY <1>2, <1>3, FewWords
<1> QED BY <1>3, <1>4 DEF Double

LEMMA WordsIs ==
  ASSUME NEW str \in Strings
  PROVE  /\ Words(str) \in Seq(Lit) /\ Len(Words(str)) = Len(str)
         /\ Len(str) \in Nat /\ Len(str) > 0
         /\ \A k \in 1 .. Len(str) : Words(str)[k] = <<"STRING", "", str[k]>>
<1>1. str \in Seq(Int) /\ str # <<>>
  BY SizeAssumption
<1>2. Len(str) \in Nat /\ Len(str) > 0 /\ DOMAIN str = 1 .. Len(str)
  BY <1>1, LenProperties, EmptySeq
<1>3. \A k \in 1 .. Len(str) : str[k] \in Int
  BY <1>1, ElementOfSeq
<1>4. \A k \in 1 .. Len(str) : <<"STRING", "", str[k]>> \in Lit
  BY <1>3 DEF Lit, Symbols, Values
<1>5. Words(str) = [k \in 1 .. Len(str) |-> <<"STRING", "", str[k]>>]
  BY <1>2 DEF Words
<1>6. Words(str) \in [1 .. Len(str) -> Lit]
  BY <1>4, <1>5
<1>7. Words(str) \in Seq(Lit)
  BY <1>2, <1>6, SeqDef
<1>8. Len(Words(str)) = Len(str)
  BY <1>2, <1>6, <1>7, LenProperties
<1> QED BY <1>2, <1>5, <1>7, <1>8

\* The words of a string from an offset on.
LEMMA PartIs ==
  ASSUME NEW S, NEW q \in Seq(S), NEW m \in Nat, NEW n \in Nat, 0 < m, m <= n, n <= Len(q)
  PROVE  /\ SubSeq(q, m, n) \in Seq(S) /\ Len(SubSeq(q, m, n)) = n - m + 1
         /\ \A i \in 1 .. n - m + 1 : SubSeq(q, m, n)[i] = q[m + i - 1]
<1>1. \A i \in m .. n : q[i] \in S
  <2>1. \A i \in m .. n : i \in 1 .. Len(q)
    BY LenProperties
  <2> QED BY <2>1, ElementOfSeq
<1>2. /\ SubSeq(q, m, n) \in Seq(S)
      /\ Len(SubSeq(q, m, n)) = IF m <= n THEN n - m + 1 ELSE 0
      /\ \A i \in 1 .. n - m + 1 : SubSeq(q, m, n)[i] = q[m + i - 1]
  BY <1>1, SubSeqProperties
<1> QED BY <1>2

LEMMA TailIs ==
  ASSUME NEW ws \in Seq(Lit), NEW off \in Nat, off < Len(ws)
  PROVE  LET want == SubSeq(ws, off + 1, Len(ws))
         IN  /\ want \in Seq(Lit) /\ Len(want) = Len(ws) - off
             /\ \A k \in 1 .. Len(ws) - off : want[k] = ws[off + k]
<1>1. PICK n \in Nat : n = Len(ws)
  BY LenProperties
<1>2. PICK m \in Nat : m = off + 1
  OBVIOUS
<1>3. 0 < m /\ m <= n /\ n <= Len(ws)
  BY <1>1, <1>2
<1>4. PICK want : want = SubSeq(ws, m, n)
  OBVIOUS
<1>5. /\ want \in Seq(Lit) /\ Len(want) = n - m + 1
      /\ \A i \in 1 .. n - m + 1 : want[i] = ws[m + i - 1]
  BY <1>3, <1>4, PartIs
<1>6. n - m + 1 = n - off /\ \A k \in 1 .. n - off : m + k - 1 = off + k
  BY <1>2
<1>7. want = SubSeq(ws, off + 1, Len(ws))
  BY <1>1, <1>2, <1>4
<1> QED BY <1>1, <1>5, <1>6, <1>7

\* A reference resolved by an earlier copy, far away.
AtOnce(a, want) == [target |-> a, want |-> want, sure |-> TRUE, short |-> 0]

Noted(s, v, a, want) ==
  /\ v.hit = s.hit \cup {AtOnce(a, want)}
  /\ v.codep = s.codep /\ v.litpool = s.litpool /\ v.mustlitby = s.mustlitby /\ v.lost = s.lost
  /\ v.frefs = s.frefs /\ v.prevpools = s.prevpools /\ v.ldm = s.ldm
  /\ v.err = s.err /\ v.incode = s.incode

LEMMA NotedDoes ==
  ASSUME NEW s, StOK(s), NEW a \in Int, NEW want \in Seq(Lit)
  PROVE  LET v == [s EXCEPT !.hit = @ \cup {AtOnce(a, want)}]
         IN  StOK(v) /\ Noted(s, v, a, want)
<1>1. PICK H : H = s.hit \cup {AtOnce(a, want)}
  OBVIOUS
<1>2. s \in St /\ s.hit \in SUBSET Hit
  BY LenIs
<1>3. H \in SUBSET Hit
  <2>1. AtOnce(a, want) \in Hit
    BY DEF AtOnce, Hit
  <2> QED BY <1>1, <1>2, <2>1
<1>4. PICK v : v = [s EXCEPT !.hit = H]
  OBVIOUS
<1>5. v \in St /\ v.hit = H
      /\ v.codep = s.codep /\ v.litpool = s.litpool /\ v.mustlitby = s.mustlitby
      /\ v.frefs = s.frefs /\ v.prevpools = s.prevpools /\ v.ldm = s.ldm /\ v.lost = s.lost
      /\ v.err = s.err /\ v.incode = s.incode
  BY <1>2, <1>3, <1>4 DEF St
<1>6. StOK(v) /\ Noted(s, v, a, want)
  BY <1>1, <1>5 DEF StOK, Noted, Size
<1> QED BY <1>1, <1>4, <1>6

\* A string, off words of it left out, with an addition of add instructions.
NewStringOf(s, t, ws, off, want, add) ==
  \E u, v, w : /\ StOK(u) /\ u.incode /\ AddrOf(s, u, Near - off)
               /\ StOK(v) /\ v.incode /\ Fwd(u, v, Size(u) + off, Near, want, TRUE)
               /\ StOK(w) /\ OutlitsOf(v, w, ws) /\ Moved(w, t, add)

ReferStringOf(s, t, ws, off, want, add) ==
  \/ \E p \in Places(s.litpool, ws) : \E v :
       /\ StOK(v) /\ Fwd(s, v, p + off, Near, want, NoFurther(s, p + off))
       /\ Moved(v, t, add)
  \/ \E a \in Nat : \E v :
       /\ a >= s.codep + 2 - (Near - 1) + off /\ InPool(s, a, ws)
       /\ StOK(v) /\ Back(s, v, s.codep + 2 - a + off, off, Near, want) /\ Moved(v, t, add)
  \/ \E a \in Nat : \E v :
       /\ InPool(s, a, ws) /\ StOK(v) /\ v.incode /\ Noted(s, v, a + off, want)
       /\ ReferOf(v, t, Adcon("code", 4 * (a + off) + add), Far)
  \/ Places(s.litpool, ws) = {} /\ NewStringOf(s, t, ws, off, want, add)

LEMMA ReferStringDoes ==
  ASSUME NEW s, StOK(s), s.incode, NEW str \in Strings, NEW off \in Nat, off < Len(str),
         NEW add \in Nat
  PROVE  LET t == ReferString(s, str, off, add)
         IN  /\ StOK(t)
             /\ ReferStringOf(s, t, Words(str), off, SubSeq(Words(str), off + 1, Len(str)), add)
<1>1. PICK ws : ws = Words(str)
  OBVIOUS
<1>2. PICK want : want = SubSeq(ws, off + 1, Len(ws))
  OBVIOUS
<1>3. PICK here : here = Places(s.litpool, ws)
  OBVIOUS
<1>4. PICK e : e = s.codep + 2 - (Near - 1) + off
  OBVIOUS
<1>5. PICK back : back = FindPrev(s, ws, e)
  OBVIOUS
<1>6. PICK any : any = IF Len(str) <= ShortStr THEN {} ELSE FindPrev(s, ws, 0)
  OBVIOUS
<1>7. PICK u : u = Addressability(s, Near - off)
  OBVIOUS
<1>8. PICK v : v = Forward(u, Size(u) + off, Near, want, TRUE)
  OBVIOUS
<1>9. PICK t : t = ReferString(s, str, off, add)
  OBVIOUS
<1>10. t = IF here # {} THEN Out(Forward(s, Min(here) + off, Near, want, NoFurther(s, Min(here) + off)), add)
           ELSE IF back # {}
                THEN Out(Backward(s, s.codep + 2 - Min(back) + off, off, Near, want), add)
           ELSE IF any # {}
                THEN Refer([s EXCEPT !.hit = @ \cup {AtOnce(Min(any) + off, want)}],
                           Adcon("code", 4 * (Min(any) + off) + add), Far)
                ELSE Out(Outlits(v, ws), add)
  BY <1>1, <1>2, <1>3, <1>4, <1>5, <1>6, <1>7, <1>8, <1>9 DEF ReferString, Size, AtOnce
<1>11. ws \in Seq(Lit) /\ Len(ws) = Len(str)
  BY <1>1, WordsIs
<1>12. want \in Seq(Lit)
  BY <1>2, <1>11, TailIs
<1>13. s.codep \in Nat /\ s.litpool \in Seq(Lit) /\ Near \in Nat /\ e \in Int /\ Near - off \in Int
  BY <1>4, LenIs, Reaches
<1>14. CASE here # {}
  <2>1. PICK p : p = Min(here)
    OBVIOUS
  <2>2. p \in here /\ p \in Nat
    BY <1>3, <1>11, <1>13, <1>14, <2>1, FirstPlace, PlacesAre
  <2>3. PICK d : d = p + off
    OBVIOUS
  <2>9. PICK b \in BOOLEAN : b = NoFurther(s, d)
    BY DEF NoFurther
  <2>4. PICK x : x = Forward(s, d, Near, want, b)
    OBVIOUS
  <2>10. d \in Int
    BY <2>2, <2>3
  <2>5. StOK(x) /\ Fwd(s, x, d, Near, want, NoFurther(s, d))
    BY <1>12, <2>4, <2>9, <2>10, ForwardDoes
  <2>6. StOK(Out(x, add)) /\ Moved(x, Out(x, add), add)
    BY <2>5, OutDoes
  <2>7. t = Out(x, add)
    BY <1>10, <1>14, <2>1, <2>3, <2>4, <2>9
  <2>8. ReferStringOf(s, t, ws, off, want, add)
    BY <1>3, <2>2, <2>3, <2>5, <2>6, <2>7 DEF ReferStringOf
  <2> QED BY <1>1, <1>2, <1>9, <1>11, <2>6, <2>7, <2>8
<1>15. CASE here = {} /\ back # {}
  <2>1. PICK a : a = Min(back)
    OBVIOUS
  <2>2. a \in Nat /\ a >= e /\ InPool(s, a, ws)
    BY <1>5, <1>11, <1>13, <1>15, <2>1, FindPrevIs
  <2>3. PICK d : d = s.codep + 2 - a + off
    OBVIOUS
  <2>4. PICK x : x = Backward(s, d, off, Near, want)
    OBVIOUS
  <2>9. d \in Int
    BY <1>13, <2>2, <2>3
  <2>5. StOK(x) /\ Back(s, x, d, off, Near, want)
    BY <1>12, <2>4, <2>9, BackwardDoes
  <2>6. StOK(Out(x, add)) /\ Moved(x, Out(x, add), add)
    BY <2>5, OutDoes
  <2>7. t = Out(x, add)
    BY <1>10, <1>15, <2>1, <2>3, <2>4
  <2>8. ReferStringOf(s, t, ws, off, want, add)
    BY <1>4, <2>2, <2>3, <2>5, <2>6, <2>7 DEF ReferStringOf
  <2> QED BY <1>1, <1>2, <1>9, <1>11, <2>6, <2>7, <2>8
<1>16. CASE here = {} /\ back = {} /\ any # {}
  <2>1. PICK a : a = Min(any)
    OBVIOUS
  <2>2. any = FindPrev(s, ws, 0)
    BY <1>6, <1>16
  <2>3. a \in Nat /\ InPool(s, a, ws)
    BY <1>11, <1>16, <2>1, <2>2, FindPrevIs
  <2>4. PICK b : b = a + off
    OBVIOUS
  <2>5. PICK x : x = [s EXCEPT !.hit = @ \cup {AtOnce(b, want)}]
    OBVIOUS
  <2>6. StOK(x) /\ Noted(s, x, b, want)
    <3>1. b \in Int
      BY <2>3, <2>4
    <3> QED BY <1>12, <2>5, <3>1, NotedDoes
  <2>7. x.incode
    BY <2>6 DEF Noted
  <2>8. PICK n : n = 4 * b + add
    OBVIOUS
  <2>9. Adcon("code", n) \in Seq(Lit)
    <3>1. n \in Int
      BY <2>3, <2>4, <2>8
    <3>2. "code" \in Symbols
      BY DEF Symbols
    <3> QED BY <3>1, <3>2, AdconIs
  <2>10. t = Refer(x, Adcon("code", n), Far)
    BY <1>10, <1>16, <2>1, <2>4, <2>5, <2>8
  <2>11. StOK(t) /\ ReferOf(x, t, Adcon("code", n), Far)
    BY <2>6, <2>7, <2>9, <2>10, ReferDoes
  <2>12. ReferStringOf(s, t, ws, off, want, add)
    BY <2>3, <2>4, <2>6, <2>7, <2>8, <2>11 DEF ReferStringOf
  <2> QED BY <1>1, <1>2, <1>9, <1>11, <2>11, <2>12
<1>17. CASE here = {} /\ back = {} /\ any = {}
  <2>1. StOK(u) /\ AddrOf(s, u, Near - off)
    BY <1>7, <1>13, AddressabilityDoes
  <2>2. u.incode
    BY <1>13, <2>1, AddressabilityRuns
  <2>3. PICK d : d = Size(u) + off
    OBVIOUS
  <2>4. d \in Int
    BY <2>1, <2>3, LenIs
  <2>5. StOK(v) /\ Fwd(u, v, d, Near, want, TRUE)
    BY <1>8, <1>12, <2>1, <2>3, <2>4, ForwardDoes
  <2>6. v.incode
    BY <2>2, <2>5 DEF Fwd
  <2>7. PICK w : w = Outlits(v, ws)
    OBVIOUS
  <2>8. StOK(w) /\ OutlitsOf(v, w, ws)
    BY <1>11, <2>5, <2>6, <2>7, OutlitsDoes
  <2>9. StOK(Out(w, add)) /\ Moved(w, Out(w, add), add)
    BY <2>8, OutDoes
  <2>10. t = Out(w, add)
    BY <1>10, <1>17, <2>7
  <2>11. NewStringOf(s, t, ws, off, want, add)
    BY <2>1, <2>2, <2>3, <2>5, <2>6, <2>8, <2>9, <2>10 DEF NewStringOf
  <2>12. ReferStringOf(s, t, ws, off, want, add)
    BY <1>3, <1>17, <2>11 DEF ReferStringOf
  <2> QED BY <1>1, <1>2, <1>9, <1>11, <2>9, <2>10, <2>12
<1> QED BY <1>14, <1>15, <1>16, <1>17

----------------------------------------------------------------------------
(* Steps.                                                                  *)

Held(s, t) ==
  /\ t.ldm /\ t.long = s.long
  /\ t.codep = s.codep /\ t.litpool = s.litpool /\ t.mustlitby = s.mustlitby
  /\ t.frefs = s.frefs /\ t.prevpools = s.prevpools /\ t.hit = s.hit /\ t.lost = s.lost
  /\ t.err = s.err /\ t.incode = s.incode

Begun(s, u) == StOK(u) /\ u.incode /\ \E f \in 0 .. LdmMax : BeginOf(s, u, f)

PlainOf(s, t) ==
  \E u : \E n \in Sizes : Begun(s, u) /\ Moved(u, t, n) /\ (n > 6 => t.long)

HoldOf(s, t) ==
  \E u : StOK(u) /\ (RoomOf(s, u, 0) \/ PlainOf(s, u)) /\ Held(u, t)

NumberOf(s, t) ==
  \E u, v, w : \E b \in Sizes, a \in Sizes, n \in Numbers :
    /\ b + 1 + a <= Max(Sizes)
    /\ Begun(s, u) /\ StOK(v) /\ v.incode /\ Moved(u, v, b)
    /\ StOK(w) /\ ReferOf(v, w, Number(n), Far) /\ Moved(w, t, a)
    /\ b + 1 + a > 6 => t.long

AdconOf(s, t)  == \E u : \E x \in Adcons : Begun(s, u) /\ ReferOf(u, t, Adcon(x, 0), Far)

DoubleOf(s, t) == \E u : \E p \in Pairs : Begun(s, u) /\ ReferOf(u, t, Double(p), Near)

StringOf(s, t) ==
  \E u : \E str \in Strings, off \in Offsets, add \in {0, 1} :
    /\ off < Len(str) /\ Begun(s, u)
    /\ ReferStringOf(u, t, Words(str), off, SubSeq(Words(str), off + 1, Len(str)), add)

MultiplyOf(s, t) ==
  \E u, v : \E n \in MulSizes :
    Begun(s, u) /\ StOK(v) /\ RoomOf(u, v, 0) /\ Moved(v, t, n) /\ (n > 6 => t.long)

BlockOf(s, t) ==
  \E u, v : \E n \in Blocks : Begun(s, u) /\ StOK(v) /\ RoomOf(u, v, n) /\ Moved(v, t, n)

JumpOf(s, t) ==
  \E u, v : \E n \in Sizes \ {0} :
    Begun(s, u) /\ StOK(v) /\ Moved(u, v, n) /\ DumpAfterOf(v, t) /\ (n > 6 => t.long)

EndOf(s, t) ==
  \E u, v : \E n \in {0, 1} :
    /\ ~s.ldm /\ \A r \in s.frefs : r.at # s.codep - 1
    /\ Begun(s, u) /\ StOK(v) /\ Moved(u, v, n) /\ DumpAfterOf(v, t)

StepOf(s, t) ==
  \/ PlainOf(s, t) \/ HoldOf(s, t) \/ NumberOf(s, t) \/ AdconOf(s, t) \/ DoubleOf(s, t)
  \/ StringOf(s, t) \/ MultiplyOf(s, t) \/ BlockOf(s, t) \/ JumpOf(s, t) \/ EndOf(s, t)

CaseOf(s, t, r3) ==
  \E u, v, w : /\ Begun(s, u) /\ StOK(v) /\ Moved(u, v, 1)
               /\ StOK(w) /\ RoomOf(v, w, r3) /\ Moved(w, t, 1)

\* The loads and stores held back have all gone out before a branch table.
BxxOf(s, t) == \E u : StOK(u) /\ BeginOf(s, u, 0) /\ Moved(u, t, 1)

LEMMA RoomRuns ==
  ASSUME NEW s, s.incode, NEW n, NEW t, RoomOf(s, t, n)
  PROVE  t.incode
BY DEF RoomOf, DumpOf, Stopped, Alike, SamePool, Skipped, Dumped

LEMMA BeginDoes ==
  ASSUME NEW s, StOK(s), s.incode, NEW n \in Nat
  PROVE  LET t == Flush(Check(s), n)
         IN  StOK(t) /\ t.incode /\ BeginOf(s, t, n)
<1>1. PICK u : u = Check(s)
  OBVIOUS
<1>2. StOK(u) /\ RoomOf(s, u, 0)
  BY <1>1, CheckDoes
<1>3. PICK t : t = Flush(u, n)
  OBVIOUS
<1>4. StOK(t) /\ FlushOf(u, t, n)
  BY <1>2, <1>3, FlushDoes
<1>5. u.incode
  BY <1>2, RoomRuns
<1>6. t.incode
  BY <1>4, <1>5, RoomRuns DEF FlushOf, Sent
<1> QED BY <1>1, <1>2, <1>3, <1>4, <1>6 DEF BeginOf

\* The state between actions.
TypeInv == StOK(Now) /\ table \in Nat /\ hit \in SUBSET Hit /\ lost \in SUBSET Ref

LEMMA NowIs ==
  /\ Now.codep = codep /\ Now.litpool = litpool /\ Now.mustlitby = mustlitby
  /\ Now.frefs = frefs /\ Now.prevpools = prevpools /\ Now.ldm = ldm
  /\ Now.hit = {} /\ Now.lost = {} /\ Now.err = err /\ Now.incode
BY DEF Now

LEMMA OutExpanded ==
  ASSUME NEW s, StOK(s), NEW n \in Nat, NEW m \in Nat
  PROVE  LET t == Expanded(Out(s, n), m)
         IN  StOK(t) /\ Moved(s, t, n) /\ (m > 6 => t.long)
<1>1. PICK u : u = Out(s, n)
  OBVIOUS
<1>2. StOK(u) /\ Moved(s, u, n)
  BY <1>1, OutDoes
<1>3. PICK t : t = Expanded(u, m)
  OBVIOUS
<1>4. StOK(t) /\ Moved(u, t, 0) /\ (m > 6 => t.long)
  BY <1>2, <1>3, ExpandedDoes
<1>5. u.codep + 0 = s.codep + n
  BY <1>2, LenIs DEF Moved
<1>6. Moved(s, t, n)
  BY <1>2, <1>4, <1>5 DEF Moved, SamePool
<1> QED BY <1>1, <1>3, <1>4, <1>6

LEMMA DumpExpanded ==
  ASSUME NEW s, NEW t, StOK(t), DumpAfterOf(s, t), NEW n \in Nat
  PROVE  /\ StOK(Expanded(t, n)) /\ DumpAfterOf(s, Expanded(t, n))
         /\ n > 6 => Expanded(t, n).long
<1>1. PICK u : u = Expanded(t, n)
  OBVIOUS
<1>2. StOK(u) /\ Moved(t, u, 0) /\ (n > 6 => u.long)
  BY <1>1, ExpandedDoes
<1>3. u.codep = t.codep
  BY <1>2, LenIs DEF Moved
<1>4. DumpAfterOf(s, u)
  BY <1>2, <1>3 DEF DumpAfterOf, Dumped, Moved, SamePool, Alike, Stopped
<1> QED BY <1>1, <1>2, <1>4

LEMMA BegunIs ==
  ASSUME TypeInv, NEW f \in Flushes
  PROVE  Begun(Now, Begin(f))
<1>1. LdmMax \in Nat /\ LdmMax # 0
  BY SizeAssumption
<1>2. f \in 0 .. LdmMax
  BY <1>1 DEF Flushes
<1>3. StOK(Now) /\ Now.incode
  BY NowIs DEF TypeInv
<1>4. f \in Nat
  BY <1>1, <1>2
<1> QED BY <1>2, <1>3, <1>4, BeginDoes DEF Begun, Begin

LEMMA HeldIs ==
  ASSUME NEW s, StOK(s)
  PROVE  StOK([s EXCEPT !.ldm = TRUE]) /\ Held(s, [s EXCEPT !.ldm = TRUE])
BY DEF StOK, St, Held, Size

LEMMA SizesAre ==
  /\ Sizes \subseteq Nat /\ MulSizes \subseteq Nat /\ Blocks \subseteq Nat
  /\ Tables \subseteq Nat /\ Offsets \subseteq Nat /\ \A n \in Tables : n # 0
  /\ LdmMax \in Nat /\ LdmMax > 0 /\ MaxCode \in Nat
BY SizeAssumption

LEMMA PlainIs ==
  ASSUME TypeInv, NEW f \in Flushes, NEW n \in Sizes
  PROVE  LET t == Expanded(Out(Begin(f), n), n) IN StOK(t) /\ PlainOf(Now, t)
<1>1. PICK u : u = Begin(f)
  OBVIOUS
<1>2. Begun(Now, u)
  BY <1>1, BegunIs
<1>3. StOK(u) /\ n \in Nat
  BY <1>2, SizesAre DEF Begun
<1>4. PICK t : t = Expanded(Out(u, n), n)
  OBVIOUS
<1>5. StOK(t) /\ Moved(u, t, n) /\ (n > 6 => t.long)
  BY <1>3, <1>4, OutExpanded
<1> QED BY <1>1, <1>2, <1>4, <1>5 DEF PlainOf

LEMMA HoldIs ==
  ASSUME TypeInv, HoldBack
  PROVE  \E t : StOK(t) /\ Become(t) /\ HoldOf(Now, t)
<1>1. CASE Become([Check(Now) EXCEPT !.ldm = TRUE])
  <2>1. PICK u : u = Check(Now)
    OBVIOUS
  <2>2. StOK(u) /\ RoomOf(Now, u, 0)
    BY <2>1, CheckDoes DEF TypeInv
  <2>3. StOK([u EXCEPT !.ldm = TRUE]) /\ Held(u, [u EXCEPT !.ldm = TRUE])
    BY <2>2, HeldIs
  <2> QED BY <1>1, <2>1, <2>2, <2>3 DEF HoldOf
<1>2. CASE \E f \in Flushes, n \in Sizes :
             Become([Expanded(Out(Begin(f), n), n) EXCEPT !.ldm = TRUE])
  <2>1. PICK f \in Flushes, n \in Sizes :
               Become([Expanded(Out(Begin(f), n), n) EXCEPT !.ldm = TRUE])
    BY <1>2
  <2>2. PICK u : u = Expanded(Out(Begin(f), n), n)
    OBVIOUS
  <2>3. StOK(u) /\ PlainOf(Now, u)
    BY <2>2, PlainIs
  <2>4. StOK([u EXCEPT !.ldm = TRUE]) /\ Held(u, [u EXCEPT !.ldm = TRUE])
    BY <2>3, HeldIs
  <2> QED BY <2>1, <2>2, <2>3, <2>4 DEF HoldOf
<1> QED BY <1>1, <1>2 DEF HoldBack

LEMMA LoadNumberIs ==
  ASSUME TypeInv, LoadNumber
  PROVE  \E t : StOK(t) /\ Become(t) /\ NumberOf(Now, t)
<1>1. PICK f \in Flushes, n \in Numbers, b \in Sizes, a \in Sizes :
        /\ b + 1 + a <= Max(Sizes)
        /\ Become(Expanded(Out(Refer(Out(Begin(f), b), Number(n), Far), a), b + 1 + a))
  BY DEF LoadNumber
<1>2. PICK u : u = Begin(f)
  OBVIOUS
<1>3. Begun(Now, u) /\ StOK(u) /\ u.incode
  BY <1>2, BegunIs DEF Begun
<1>4. a \in Nat /\ b \in Nat
  BY SizesAre
<1>5. PICK v : v = Out(u, b)
  OBVIOUS
<1>6. StOK(v) /\ Moved(u, v, b)
  BY <1>3, <1>4, <1>5, OutDoes
<1>7. v.incode
  BY <1>3, <1>6 DEF Moved, SamePool
<1>8. PICK w : w = Refer(v, Number(n), Far)
  OBVIOUS
<1>9. StOK(w) /\ ReferOf(v, w, Number(n), Far)
  BY <1>6, <1>7, <1>8, NumberIs, ReferDoes
<1>11. PICK m \in Nat : m = b + 1 + a
  BY <1>4
<1>12. PICK t : t = Expanded(Out(w, a), m)
  OBVIOUS
<1>10. StOK(t) /\ Moved(w, t, a) /\ (m > 6 => t.long)
  BY <1>4, <1>9, <1>12, OutExpanded
<1>13. Become(t)
  BY <1>1, <1>2, <1>5, <1>8, <1>11, <1>12
<1> QED BY <1>1, <1>3, <1>6, <1>7, <1>9, <1>10, <1>11, <1>13 DEF NumberOf

LEMMA LoadAdconIs ==
  ASSUME TypeInv, LoadAdcon
  PROVE  \E t : StOK(t) /\ Become(t) /\ AdconOf(Now, t)
<1>1. PICK f \in Flushes, x \in Adcons : Become(Refer(Begin(f), Adcon(x, 0), Far))
  BY DEF LoadAdcon
<1>2. Begun(Now, Begin(f)) /\ StOK(Begin(f)) /\ Begin(f).incode
  BY BegunIs DEF Begun
<1>3. x \in Symbols
  BY DEF Symbols
<1>4. Adcon(x, 0) \in Seq(Lit)
  BY <1>3, AdconIs
<1>5. StOK(Refer(Begin(f), Adcon(x, 0), Far)) /\ ReferOf(Begin(f), Refer(Begin(f), Adcon(x, 0), Far), Adcon(x, 0), Far)
  BY <1>2, <1>4, ReferDoes
<1> QED BY <1>1, <1>2, <1>5 DEF AdconOf

LEMMA LoadDoubleIs ==
  ASSUME TypeInv, LoadDouble
  PROVE  \E t : StOK(t) /\ Become(t) /\ DoubleOf(Now, t)
<1>1. PICK f \in Flushes, p \in Pairs : Become(Refer(Begin(f), Double(p), Near))
  BY DEF LoadDouble
<1>2. Begun(Now, Begin(f)) /\ StOK(Begin(f)) /\ Begin(f).incode
  BY BegunIs DEF Begun
<1>3. Double(p) \in Seq(Lit)
  BY DoubleIs
<1>4. StOK(Refer(Begin(f), Double(p), Near)) /\ ReferOf(Begin(f), Refer(Begin(f), Double(p), Near), Double(p), Near)
  BY <1>2, <1>3, ReferDoes
<1> QED BY <1>1, <1>2, <1>4 DEF DoubleOf

LEMMA LoadStringIs ==
  ASSUME TypeInv, LoadString
  PROVE  \E t : StOK(t) /\ Become(t) /\ StringOf(Now, t)
<1>1. PICK f \in Flushes, str \in Strings, off \in Offsets, add \in {0, 1} :
        off < Len(str) /\ Become(ReferString(Begin(f), str, off, add))
  BY DEF LoadString
<1>2. PICK u : u = Begin(f)
  OBVIOUS
<1>3. Begun(Now, u) /\ StOK(u) /\ u.incode
  BY <1>2, BegunIs DEF Begun
<1>4. PICK t : t = ReferString(u, str, off, add)
  OBVIOUS
<1>5. off \in Nat /\ add \in Nat
  BY SizesAre
<1>6. StOK(t) /\ ReferStringOf(u, t, Words(str), off, SubSeq(Words(str), off + 1, Len(str)), add)
  BY <1>1, <1>3, <1>4, <1>5, ReferStringDoes
<1> QED BY <1>1, <1>2, <1>3, <1>4, <1>6 DEF StringOf

LEMMA MultiplyIs ==
  ASSUME TypeInv, Multiply
  PROVE  \E t : StOK(t) /\ Become(t) /\ MultiplyOf(Now, t)
<1>1. PICK f \in Flushes, n \in MulSizes : Become(Expanded(Out(Check(Begin(f)), n), n))
  BY DEF Multiply
<1>2. PICK u : u = Begin(f)
  OBVIOUS
<1>3. Begun(Now, u) /\ StOK(u) /\ n \in Nat
  BY <1>2, BegunIs, SizesAre DEF Begun
<1>4. PICK v : v = Check(u)
  OBVIOUS
<1>5. StOK(v) /\ RoomOf(u, v, 0)
  BY <1>3, <1>4, CheckDoes
<1>6. PICK t : t = Expanded(Out(v, n), n)
  OBVIOUS
<1>7. StOK(t) /\ Moved(v, t, n) /\ (n > 6 => t.long)
  BY <1>3, <1>5, <1>6, OutExpanded
<1> QED BY <1>1, <1>2, <1>3, <1>4, <1>5, <1>6, <1>7 DEF MultiplyOf

LEMMA MoveBlockIs ==
  ASSUME TypeInv, MoveBlock
  PROVE  \E t : StOK(t) /\ Become(t) /\ BlockOf(Now, t)
<1>1. PICK f \in Flushes, n \in Blocks : Become(Out(Room(Begin(f), n), n))
  BY DEF MoveBlock
<1>2. PICK u : u = Begin(f)
  OBVIOUS
<1>3. Begun(Now, u) /\ StOK(u) /\ n \in Nat
  BY <1>2, BegunIs, SizesAre DEF Begun
<1>4. PICK v : v = Room(u, n)
  OBVIOUS
<1>5. StOK(v) /\ RoomOf(u, v, n)
  BY <1>3, <1>4, RoomDoes
<1>6. StOK(Out(v, n)) /\ Moved(v, Out(v, n), n)
  BY <1>3, <1>5, OutDoes
<1> QED BY <1>1, <1>2, <1>3, <1>4, <1>5, <1>6 DEF BlockOf

LEMMA CaseBranchIs ==
  ASSUME TypeInv, CaseBranch
  PROVE  \E t : \E r3 \in Tables :
           StOK(t) /\ Become(t) /\ table' = r3 - 1 /\ CaseOf(Now, t, r3)
<1>1. PICK f \in Flushes, r3 \in Tables :
        Become(Out(Room(Out(Begin(f), 1), r3), 1)) /\ table' = r3 - 1
  BY DEF CaseBranch
<1>2. PICK u : u = Begin(f)
  OBVIOUS
<1>3. Begun(Now, u) /\ StOK(u) /\ r3 \in Nat /\ 1 \in Nat
  BY <1>2, BegunIs, SizesAre DEF Begun
<1>4. PICK v : v = Out(u, 1)
  OBVIOUS
<1>5. StOK(v) /\ Moved(u, v, 1)
  BY <1>3, <1>4, OutDoes
<1>6. PICK w : w = Room(v, r3)
  OBVIOUS
<1>7. StOK(w) /\ RoomOf(v, w, r3)
  BY <1>3, <1>5, <1>6, RoomDoes
<1>8. StOK(Out(w, 1)) /\ Moved(w, Out(w, 1), 1)
  BY <1>3, <1>7, OutDoes
<1> QED BY <1>1, <1>2, <1>3, <1>4, <1>5, <1>6, <1>7, <1>8 DEF CaseOf

LEMMA BxxIs ==
  ASSUME TypeInv, Bxx
  PROVE  \E t : StOK(t) /\ Become(t) /\ table' = table - 1 /\ BxxOf(Now, t)
<1>1. Become(Out(Begin(0), 1)) /\ table' = table - 1
  BY DEF Bxx
<1>2. PICK u : u = Begin(0)
  OBVIOUS
<1>3. StOK(u) /\ BeginOf(Now, u, 0)
  BY <1>2, BeginDoes, NowIs DEF TypeInv, Begin
<1>4. StOK(Out(u, 1)) /\ Moved(u, Out(u, 1), 1)
  BY <1>3, OutDoes
<1> QED BY <1>1, <1>2, <1>3, <1>4 DEF BxxOf

LEMMA JumpIs ==
  ASSUME TypeInv, Jump
  PROVE  \E t : StOK(t) /\ Become(t) /\ JumpOf(Now, t)
<1>1. PICK f \in Flushes, n \in Sizes \ {0} : Become(Expanded(DumpAfter(Out(Begin(f), n)), n))
  BY DEF Jump
<1>2. PICK u : u = Begin(f)
  OBVIOUS
<1>3. Begun(Now, u) /\ StOK(u) /\ n \in Nat
  BY <1>2, BegunIs, SizesAre DEF Begun
<1>4. PICK v : v = Out(u, n)
  OBVIOUS
<1>5. StOK(v) /\ Moved(u, v, n)
  BY <1>3, <1>4, OutDoes
<1>6. PICK x : x = DumpAfter(v)
  OBVIOUS
<1>7. StOK(x) /\ DumpAfterOf(v, x)
  BY <1>5, <1>6, DumpAfterDoes
<1>8. PICK t : t = Expanded(x, n)
  OBVIOUS
<1>9. StOK(t) /\ DumpAfterOf(v, t) /\ (n > 6 => t.long)
  BY <1>3, <1>7, <1>8, DumpExpanded
<1>10. Become(t)
  BY <1>1, <1>2, <1>4, <1>6, <1>8
<1> QED BY <1>3, <1>5, <1>9, <1>10 DEF JumpOf

LEMMA EndprocIs ==
  ASSUME TypeInv, Endproc
  PROVE  \E t : StOK(t) /\ Become(t) /\ EndOf(Now, t)
<1>1. PICK n \in {0, 1} : Become(DumpAfter(Out(Begin(0), n)))
  BY DEF Endproc
<1>2. PICK u : u = Begin(0)
  OBVIOUS
<1>3. 0 \in Flushes
  BY DEF Endproc, Flushes
<1>4. Begun(Now, u) /\ StOK(u) /\ n \in Nat
  BY <1>2, <1>3, BegunIs DEF Begun
<1>5. PICK v : v = Out(u, n)
  OBVIOUS
<1>6. StOK(v) /\ Moved(u, v, n)
  BY <1>4, <1>5, OutDoes
<1>7. StOK(DumpAfter(v)) /\ DumpAfterOf(v, DumpAfter(v))
  BY <1>6, DumpAfterDoes
<1>8. ~Now.ldm /\ \A r \in Now.frefs : r.at # Now.codep - 1
  BY NowIs DEF Endproc
<1> QED BY <1>1, <1>2, <1>4, <1>5, <1>6, <1>7, <1>8 DEF EndOf

LEMMA NextIs ==
  ASSUME TypeInv, Next
  PROVE  /\ err = "none" /\ codep <= MaxCode
         /\ \E t : /\ StOK(t) /\ Become(t)
                   /\ \/ table = 0 /\ table' = 0 /\ StepOf(Now, t)
                      \/ table = 0 /\ \E r3 \in Tables : table' = r3 - 1 /\ CaseOf(Now, t, r3)
                      \/ table > 0 /\ table' = table - 1 /\ BxxOf(Now, t)
<1>1. CASE Plain
  <2>1. PICK f \in Flushes, n \in Sizes : Become(Expanded(Out(Begin(f), n), n))
    BY <1>1 DEF Plain
  <2>2. PICK t : t = Expanded(Out(Begin(f), n), n)
    OBVIOUS
  <2>3. StOK(t) /\ PlainOf(Now, t)
    BY <2>2, PlainIs
  <2> QED BY <1>1, <2>1, <2>2, <2>3 DEF Plain, Free, Goes, StepOf
<1>2. CASE HoldBack
  BY <1>2, HoldIs DEF HoldBack, Free, Goes, StepOf
<1>3. CASE Multiply
  BY <1>3, MultiplyIs DEF Multiply, Free, Goes, StepOf
<1>4. CASE MoveBlock
  BY <1>4, MoveBlockIs DEF MoveBlock, Free, Goes, StepOf
<1>5. CASE LoadNumber
  BY <1>5, LoadNumberIs DEF LoadNumber, Free, Goes, StepOf
<1>6. CASE LoadAdcon
  BY <1>6, LoadAdconIs DEF LoadAdcon, Free, Goes, StepOf
<1>7. CASE LoadDouble
  BY <1>7, LoadDoubleIs DEF LoadDouble, Free, Goes, StepOf
<1>8. CASE LoadString
  BY <1>8, LoadStringIs DEF LoadString, Free, Goes, StepOf
<1>9. CASE CaseBranch
  BY <1>9, CaseBranchIs DEF CaseBranch, Free, Goes
<1>10. CASE Bxx
  BY <1>10, BxxIs DEF Bxx, Goes
<1>11. CASE Jump
  BY <1>11, JumpIs DEF Jump, Free, Goes, StepOf
<1>12. CASE Endproc
  BY <1>12, EndprocIs DEF Endproc, Free, Goes, StepOf
<1> QED BY <1>1, <1>2, <1>3, <1>4, <1>5, <1>6, <1>7, <1>8, <1>9, <1>10, <1>11, <1>12 DEF Next

\* The state that an action leaves, as the next one finds it.
LEMMA NextNow ==
  ASSUME NEW t, StOK(t), Become(t)
  PROVE  /\ StOK(Now') /\ hit' \in SUBSET Hit /\ hit' = t.hit
         /\ lost' \in SUBSET Ref /\ lost' = t.lost /\ long' = t.long /\ t.long \in BOOLEAN
         /\ Now'.codep = t.codep /\ Now'.litpool = t.litpool /\ Now'.mustlitby = t.mustlitby
         /\ Now'.frefs = t.frefs /\ Now'.prevpools = t.prevpools /\ Now'.ldm = t.ldm
         /\ Now'.err = t.err /\ Now'.incode
<1>1. Now' = [codep |-> codep', litpool |-> litpool', mustlitby |-> mustlitby',
              frefs |-> frefs', prevpools |-> prevpools', ldm |-> ldm',
              hit |-> {}, lost |-> {}, long |-> FALSE, err |-> err', incode |-> TRUE]
  BY DEF Now
<1>2. PICK n : n = Now'
  OBVIOUS
<1>3. /\ n.codep = t.codep /\ n.litpool = t.litpool /\ n.mustlitby = t.mustlitby
      /\ n.frefs = t.frefs /\ n.prevpools = t.prevpools /\ n.ldm = t.ldm
      /\ n.err = t.err /\ n.incode
  BY <1>1, <1>2 DEF Become
<1>4. n \in St
  BY <1>1, <1>2 DEF Become, StOK, St
<1>5. StOK(n)
  BY <1>3, <1>4 DEF StOK, Size
<1>6. t.long \in BOOLEAN
  BY DEF StOK, St
<1> QED BY <1>2, <1>3, <1>5, <1>6, LenIs DEF Become

LEMMA TypeInit == Init => TypeInv
<1> SUFFICES ASSUME Init PROVE TypeInv
  OBVIOUS
<1>1. PICK k : k = Infinity
  OBVIOUS
<1>2. k \in Int
  BY <1>1 DEF Infinity
<1>3. Now = [codep |-> 0, litpool |-> <<>>, mustlitby |-> k,
             frefs |-> {}, prevpools |-> <<>>, ldm |-> FALSE,
             hit |-> {}, lost |-> {}, long |-> FALSE, err |-> "none", incode |-> TRUE]
  BY <1>1 DEF Init, Now
<1>4. <<>> \in Seq(Lit) /\ <<>> \in Seq(Pool)
  OBVIOUS
<1>5. Now \in St
  BY <1>2, <1>3, <1>4 DEF St
<1>6. Size(Now) = 0 /\ Now.mustlitby = k
  <2>1. Len(<<>>) = 0
    OBVIOUS
  <2> QED BY <1>3, <2>1 DEF Size
<1>7. StOK(Now)
  BY <1>1, <1>2, <1>5, <1>6, Reaches DEF StOK
<1> QED BY <1>7 DEF TypeInv, Init

LEMMA TypeNext == TypeInv /\ [Next]_vars => TypeInv'
<1> SUFFICES ASSUME TypeInv, [Next]_vars PROVE TypeInv'
  OBVIOUS
<1>1. CASE Next
  <2>1. PICK t : /\ StOK(t) /\ Become(t)
                 /\ \/ table' = 0
                    \/ \E r3 \in Tables : table' = r3 - 1
                    \/ table > 0 /\ table' = table - 1
    BY <1>1, NextIs
  <2>2. table' \in Nat
    BY <2>1, SizesAre DEF TypeInv
  <2> QED BY <2>1, <2>2, NextNow DEF TypeInv
<1>2. CASE UNCHANGED vars
  BY <1>2 DEF TypeInv, vars, Now
<1> QED BY <1>1, <1>2

LEMMA TypesHold == Spec => []TypeInv
<1> QED BY TypeInit, TypeNext, PTL DEF Spec

----------------------------------------------------------------------------
(* A branch table stays whole.                                             *)

LEMMA DumpAdvances ==
  ASSUME NEW s, StOK(s), NEW t, DumpOf(s, t)
  PROVE  t.codep >= s.codep /\ t.codep <= s.codep + 1 + PoolMax
<1>1. s.codep \in Nat /\ Size(s) \in Nat /\ Size(s) <= PoolMax /\ PoolMax \in Nat
  BY LenIs, Reaches
<1>2. t.codep \in {s.codep, s.codep + 1, s.codep + 1 + Size(s)}
  BY DEF DumpOf, Stopped, Alike, Skipped, Dumped
<1> QED BY <1>1, <1>2

LEMMA RoomAdvances ==
  ASSUME NEW s, StOK(s), NEW n, NEW t, RoomOf(s, t, n)
  PROVE  t.codep >= s.codep /\ t.codep <= s.codep + 1 + PoolMax
<1>1. s.codep \in Nat /\ PoolMax \in Nat
  BY LenIs, Reaches
<1>2. CASE t = s
  BY <1>1, <1>2
<1>3. CASE DumpOf(s, t)
  BY <1>3, DumpAdvances
<1> QED BY <1>2, <1>3 DEF RoomOf

LEMMA BegunAdvances ==
  ASSUME NEW s, StOK(s), NEW t, Begun(s, t)
  PROVE  /\ ~t.ldm /\ t.codep \in Nat
         /\ t.codep >= s.codep /\ t.codep <= s.codep + 2 * (1 + PoolMax) + LdmMax
<1>1. PICK f \in 0 .. LdmMax : BeginOf(s, t, f)
  BY DEF Begun
<1>2. PICK u : StOK(u) /\ RoomOf(s, u, 0) /\ FlushOf(u, t, f)
  BY <1>1 DEF BeginOf
<1>3. /\ s.codep \in Nat /\ u.codep \in Nat /\ t.codep \in Nat /\ PoolMax \in Nat
      /\ LdmMax \in Nat /\ f \in Nat /\ f <= LdmMax
  BY <1>2, LenIs, Reaches, SizesAre DEF Begun
<1>4. u.codep >= s.codep /\ u.codep <= s.codep + 1 + PoolMax
  BY <1>2, RoomAdvances
<1>5. CASE ~u.ldm /\ t = u
  BY <1>3, <1>4, <1>5
<1>6. CASE u.ldm /\ \E x : StOK(x) /\ RoomOf(u, x, LdmMax) /\ Sent(x, t, f)
  <2>1. PICK x : StOK(x) /\ RoomOf(u, x, LdmMax) /\ Sent(x, t, f)
    BY <1>6
  <2>2. x.codep \in Nat /\ x.codep >= u.codep /\ x.codep <= u.codep + 1 + PoolMax
    BY <1>2, <2>1, LenIs, RoomAdvances
  <2>3. t.codep = x.codep + f /\ ~t.ldm
    BY <2>1 DEF Sent
  <2> QED BY <1>3, <1>4, <2>2, <2>3
<1> QED BY <1>2, <1>5, <1>6 DEF FlushOf

\* A branch table that has begun is finished before the limit.
TableInv == err = "none" /\ table > 0 => ~ldm /\ codep + table < mustlitby

LEMMA TableBegins ==
  ASSUME NEW s, StOK(s), s.codep <= MaxCode, s.err = "none",
         NEW r3 \in Tables, NEW t, StOK(t), CaseOf(s, t, r3)
  PROVE  ~t.ldm /\ (t.err = "none" => t.codep + (r3 - 1) < t.mustlitby)
<1>1. PICK u, v, w : /\ Begun(s, u) /\ StOK(v) /\ Moved(u, v, 1)
                     /\ StOK(w) /\ RoomOf(v, w, r3) /\ Moved(w, t, 1)
  BY DEF CaseOf
<1>2. /\ ~u.ldm /\ u.codep \in Nat /\ u.codep <= s.codep + 2 * (1 + PoolMax) + LdmMax
  BY <1>1, BegunAdvances
<1>3. ~w.ldm
  BY <1>1, <1>2 DEF Moved, SamePool, RoomOf, DumpOf, Stopped, Alike, Skipped, Dumped
<1>4. ~t.ldm /\ t.codep = w.codep + 1 /\ t.mustlitby = w.mustlitby /\ t.err = w.err
  BY <1>1, <1>3 DEF Moved, SamePool
<1>5. /\ v.codep \in Nat /\ w.codep \in Nat /\ r3 \in Nat /\ s.codep \in Nat
      /\ PoolMax \in Nat /\ LdmMax \in Nat /\ v.mustlitby \in Int /\ v.codep = u.codep + 1
      /\ MaxCode \in Nat /\ PoolMax >= 6
  BY <1>1, LenIs, SizesAre, Reaches DEF Moved
<1>6. CASE v.codep + r3 < v.mustlitby /\ w = v
  BY <1>4, <1>5, <1>6
<1>7. CASE DumpOf(v, w)
  <2>1. w.err = "none" => w.mustlitby = Infinity
    BY <1>7 DEF DumpOf, Stopped, Skipped, Dumped
  <2>2. w.codep <= v.codep + 1 + PoolMax
    BY <1>1, <1>7, DumpAdvances
  <2>3. MaxCode + 4 * PoolMax + LdmMax + r3 < Infinity
    BY SizeAssumption
  <2>4. Infinity \in Nat
    BY DEF Infinity
  <2>5. w.codep + 1 + (r3 - 1) < Infinity
    BY <1>2, <1>5, <2>2, <2>3, <2>4
  <2> QED BY <1>4, <2>1, <2>5
<1> QED BY <1>1, <1>6, <1>7 DEF RoomOf

LEMMA TableGoesOn ==
  ASSUME NEW s, StOK(s), ~s.ldm, NEW n \in Nat, n > 0, s.codep + n < s.mustlitby,
         NEW t, BxxOf(s, t)
  PROVE  ~t.ldm /\ t.codep = s.codep + 1 /\ t.codep + (n - 1) < t.mustlitby
<1>1. PICK u : StOK(u) /\ BeginOf(s, u, 0) /\ Moved(u, t, 1)
  BY DEF BxxOf
<1>2. PICK x : RoomOf(s, x, 0) /\ FlushOf(x, u, 0)
  BY <1>1 DEF BeginOf
<1>3. s.codep \in Nat /\ s.mustlitby \in Int
  BY LenIs
<1>4. ~(s.codep + 0 >= s.mustlitby)
  BY <1>3
<1>5. x = s /\ u = s
  BY <1>2, <1>4 DEF RoomOf, FlushOf
<1>6. ~t.ldm /\ t.codep = s.codep + 1 /\ t.mustlitby = s.mustlitby
  BY <1>1, <1>5 DEF Moved, SamePool
<1> QED BY <1>3, <1>6

LEMMA TableNext ==
  ASSUME TypeInv, TableInv, [Next]_vars
  PROVE  TableInv' /\ (table > 0 /\ ~UNCHANGED vars => codep' = codep + 1)
<1>1. CASE Next
  <2>1. PICK t : /\ StOK(t) /\ Become(t)
                 /\ \/ table = 0 /\ table' = 0 /\ StepOf(Now, t)
                    \/ table = 0 /\ \E r3 \in Tables : table' = r3 - 1 /\ CaseOf(Now, t, r3)
                    \/ table > 0 /\ table' = table - 1 /\ BxxOf(Now, t)
    BY <1>1, NextIs
  <2>2. /\ codep' = t.codep /\ ldm' = t.ldm /\ mustlitby' = t.mustlitby /\ err' = t.err
    BY <2>1 DEF Become
  <2>3. /\ StOK(Now) /\ err = "none" /\ codep <= MaxCode /\ table \in Nat
        /\ Now.codep = codep /\ Now.ldm = ldm /\ Now.err = err /\ Now.mustlitby = mustlitby
    BY <1>1, NextIs, NowIs DEF TypeInv
  <2>4. CASE table = 0 /\ table' = 0
    BY <2>4 DEF TableInv
  <2>5. CASE table = 0 /\ \E r3 \in Tables : table' = r3 - 1 /\ CaseOf(Now, t, r3)
    <3>1. PICK r3 \in Tables : table' = r3 - 1 /\ CaseOf(Now, t, r3)
      BY <2>5
    <3>2. ~t.ldm /\ (t.err = "none" => t.codep + (r3 - 1) < t.mustlitby)
      BY <2>1, <2>3, <3>1, TableBegins
    <3> QED BY <2>2, <2>5, <3>1, <3>2 DEF TableInv
  <2>6. CASE table > 0 /\ table' = table - 1 /\ BxxOf(Now, t)
    <3>1. ~Now.ldm /\ Now.codep + table < Now.mustlitby
      BY <2>3, <2>6 DEF TableInv
    <3>2. ~t.ldm /\ t.codep = Now.codep + 1 /\ t.codep + (table - 1) < t.mustlitby
      BY <2>3, <2>6, <3>1, TableGoesOn
    <3> QED BY <2>2, <2>3, <2>6, <3>2 DEF TableInv
  <2> QED BY <2>1, <2>4, <2>5, <2>6
<1>2. CASE UNCHANGED vars
  BY <1>2 DEF TableInv, vars
<1> QED BY <1>1, <1>2

\* However large the tables are, however close the limit is when one begins
\* and whatever was held back, no pool and no load or store comes between the
\* ADD that jumps into a table and its last entry.
THEOREM TableStaysWhole == Spec => TableWhole
<1>1. Init => TableInv
  BY DEF Init, TableInv
<1>2. TypeInv /\ TableInv /\ [Next]_vars => TableInv' /\ [table > 0 => codep' = codep + 1]_vars
  BY TableNext DEF vars
<1> QED BY <1>1, <1>2, TypesHold, PTL DEF Spec, TableWhole

----------------------------------------------------------------------------
(* There is a limit exactly when a reference waits for the pool.           *)

\* An offset folded into a reference leaves the pool some room.
OffsetsShort == \A off \in Offsets : off < Near - 5

LEMMA EnoughAddresses ==
  ASSUME NEW n \in {0} \cup Sizes \cup MulSizes \cup Blocks \cup Tables
  PROVE  /\ n \in Nat /\ MaxCode + 4 * PoolMax + LdmMax + n < Infinity
         /\ MaxCode \in Nat /\ PoolMax \in Nat /\ LdmMax \in Nat /\ PoolMax > 5
         /\ Infinity \in Nat
<1>1. MaxCode + 4 * PoolMax + LdmMax + n < Infinity
  BY SizeAssumption
<1>2. n \in Nat
  BY SizesAre
<1>3. Infinity \in Nat
  BY DEF Infinity
<1> QED BY <1>1, <1>2, <1>3, SizesAre, Reaches

Sound(s) == s.err \in {"none", "displacement"}

\* A pool, a reference and a limit only together.
Tidy(s) == /\ Sound(s)
           /\ s.frefs = {} <=> s.mustlitby = Infinity
           /\ s.frefs = {} <=> s.litpool = <<>>

LEMMA TidyAfterPool ==
  ASSUME NEW s, Sound(s), NEW n, NEW t, Dumped(s, t, n)
  PROVE  Tidy(t)
BY DEF Dumped, Sound, Tidy

LEMMA TidyAfterDump ==
  ASSUME NEW s, Tidy(s), s.frefs # {}, NEW t, DumpOf(s, t)
  PROVE  Tidy(t)
<1>1. Dumped(s, t, 1)
  BY DEF DumpOf, Tidy
<1> QED BY <1>1, TidyAfterPool DEF Tidy

LEMMA TidyAfterRoom ==
  ASSUME NEW s, StOK(s), Tidy(s), NEW n \in Nat, s.codep + n < Infinity, NEW t, RoomOf(s, t, n)
  PROVE  Tidy(t)
<1>1. CASE t = s
  BY <1>1
<1>2. CASE s.codep + n >= s.mustlitby /\ DumpOf(s, t)
  <2>1. s.mustlitby # Infinity
    BY <1>2, LenIs DEF Infinity
  <2> QED BY <1>2, <2>1, TidyAfterDump DEF Tidy
<1> QED BY <1>1, <1>2 DEF RoomOf

LEMMA TidyAlike ==
  ASSUME NEW s, Tidy(s), NEW t, t.frefs = s.frefs, t.litpool = s.litpool,
         t.mustlitby = s.mustlitby, t.err = s.err
  PROVE  Tidy(t)
BY DEF Tidy, Sound

LEMMA TidyMoved ==
  ASSUME NEW s, Tidy(s), NEW n, NEW t, Moved(s, t, n)
  PROVE  Tidy(t)
BY TidyAlike DEF Moved, SamePool

LEMMA TidyBegun ==
  ASSUME NEW s, StOK(s), s.codep <= MaxCode, Tidy(s), NEW t, Begun(s, t)
  PROVE  Tidy(t)
<1>1. PICK f \in 0 .. LdmMax : BeginOf(s, t, f)
  BY DEF Begun
<1>2. PICK u : StOK(u) /\ RoomOf(s, u, 0) /\ FlushOf(u, t, f)
  BY <1>1 DEF BeginOf
<1>3. /\ MaxCode + 4 * PoolMax + LdmMax + 0 < Infinity
      /\ MaxCode \in Nat /\ PoolMax \in Nat /\ LdmMax \in Nat /\ PoolMax > 5
      /\ Infinity \in Nat
  BY EnoughAddresses
<1>4. s.codep \in Nat /\ u.codep \in Nat /\ u.codep <= s.codep + 1 + PoolMax
  BY <1>2, LenIs, RoomAdvances
<1>5. s.codep + 0 < Infinity /\ u.codep + LdmMax < Infinity
  BY <1>3, <1>4
<1>6. Tidy(u)
  BY <1>2, <1>5, TidyAfterRoom
<1>7. CASE t = u
  BY <1>6, <1>7
<1>8. CASE \E x : StOK(x) /\ RoomOf(u, x, LdmMax) /\ Sent(x, t, f)
  <2>1. PICK x : RoomOf(u, x, LdmMax) /\ Sent(x, t, f)
    BY <1>8
  <2>2. Tidy(x)
    BY <1>2, <1>3, <1>5, <1>6, <2>1, TidyAfterRoom
  <2> QED BY <2>1, <2>2, TidyAlike DEF Sent
<1> QED BY <1>2, <1>7, <1>8 DEF FlushOf

\* A place for the literal is made: the limit may be set before the reference.
Ready(s) == Sound(s) /\ s.mustlitby < Infinity /\ (s.frefs = {} <=> s.litpool = <<>>)

LEMMA EmptyIs ==
  ASSUME NEW s, StOK(s)
  PROVE  s.litpool = <<>> <=> Size(s) = 0
<1>1. s.litpool \in Seq(Lit)
  BY LenIs
<1>2. Len(<<>>) = 0
  OBVIOUS
<1>3. s.litpool # <<>> => Len(s.litpool) # 0
  BY <1>1, EmptySeq
<1> QED BY <1>2, <1>3 DEF Size

LEMMA ReadyAddr ==
  ASSUME NEW s, StOK(s), Tidy(s), NEW n \in Nat, n > 5, n <= PoolMax,
         s.codep + 2 * PoolMax < Infinity + 4, NEW t, StOK(t), AddrOf(s, t, n)
  PROVE  Ready(t) /\ Size(t) < n - 5
<1>1. PICK u : /\ StOK(u)
               /\ IF Size(s) >= n - 5 THEN DumpOf(s, u) ELSE u = s
               /\ SamePool(u, t) /\ t.err = u.err
               /\ t.mustlitby <= u.codep - Size(u) + (n - 5)
  BY DEF AddrOf
<1>2. /\ Size(s) \in Nat /\ Size(u) \in Nat /\ u.codep \in Nat /\ s.codep \in Nat
      /\ PoolMax \in Nat /\ t.mustlitby \in Int /\ Infinity \in Int
  BY <1>1, LenIs, Reaches DEF Infinity
<1>3. Tidy(u) /\ Size(u) < n - 5 /\ u.codep <= s.codep + 1 + PoolMax
  <2>1. CASE Size(s) >= n - 5
    <3>1. s.frefs # {} /\ s.litpool # <<>>
      BY <1>2, <2>1, EmptyIs DEF Tidy
    <3>2. DumpOf(s, u)
      BY <1>1, <2>1
    <3>3. Dumped(s, u, 1)
      BY <3>1, <3>2 DEF DumpOf
    <3>4. Size(u) = 0
      BY <1>1, <3>3, EmptyIs DEF Dumped
    <3> QED BY <3>1, <3>2, <3>4, TidyAfterDump, DumpAdvances
  <2>2. CASE ~(Size(s) >= n - 5)
    <3>1. u = s
      BY <1>1, <2>2
    <3> QED BY <1>2, <2>2, <3>1
  <2> QED BY <2>1, <2>2
<1>4. t.mustlitby < Infinity
  BY <1>1, <1>2, <1>3
<1>5. Size(t) = Size(u)
  BY <1>1 DEF SamePool, Size
<1> QED BY <1>1, <1>3, <1>4, <1>5 DEF Ready, Tidy, Sound, SamePool

LEMMA TidyEntered ==
  ASSUME NEW s, StOK(s), Tidy(s), s.codep + 2 * PoolMax < Infinity + 4,
         NEW ws \in Seq(Lit), Len(ws) \in {1, 2}, NEW reach \in {Near, Far},
         NEW t, StOK(t), EnteredOf(s, t, ws, reach)
  PROVE  Tidy(t)
<1>1. PICK u, v : /\ StOK(u) /\ AddrOf(s, u, reach) /\ StOK(v) /\ OutlitsOf(u, v, ws)
                  /\ Fwd(v, t, Size(v) - Len(ws), reach, ws, TRUE)
  BY DEF EnteredOf
<1>2. reach \in Nat /\ reach > 5 /\ reach <= PoolMax /\ PoolMax \in Nat
  BY Reaches
<1>3. Ready(u) /\ Size(u) < reach - 5 /\ Size(u) \in Nat
  BY <1>1, <1>2, ReadyAddr, LenIs
<1>4. PICK n \in {1, 2} : n = Len(ws)
  OBVIOUS
<1>5. Size(u) + n <= PoolMax
  BY <1>2, <1>3
<1>6. Longer(u, v, ws, n)
  BY <1>1, <1>2, <1>3, <1>4, <1>5 DEF OutlitsOf
<1>7. Size(v) = Size(u) + n /\ Size(v) # 0
  BY <1>3, <1>6 DEF Longer
<1>8. v.litpool # <<>>
  BY <1>1, <1>7, EmptyIs
<1>9. t.frefs # {} /\ t.litpool = v.litpool /\ t.mustlitby = u.mustlitby /\ t.err = u.err
  BY <1>1, <1>6 DEF Fwd, Longer
<1>10. t.mustlitby # Infinity
  BY <1>1, <1>3, <1>9, LenIs DEF Ready, Infinity
<1> QED BY <1>3, <1>8, <1>9, <1>10 DEF Tidy, Ready, Sound

LEMMA PlaceUsed ==
  ASSUME NEW s, StOK(s), NEW ws \in Seq(Lit), Len(ws) # 0, NEW p \in Places(s.litpool, ws)
  PROVE  s.litpool # <<>> /\ p \in Nat /\ p + Len(ws) <= Size(s) /\ Holds(s.litpool, p, ws)
<1>1. PICK n \in Nat : n = Len(ws)
  BY LenProperties
<1>2. s.litpool \in Seq(Lit) /\ Size(s) \in Nat
  BY LenIs
<1>3. p \in Nat /\ Holds(s.litpool, p, ws)
  BY <1>2, PlacesAre
<1>4. p + n <= Size(s)
  BY <1>1, <1>3 DEF Holds, Size
<1>5. Size(s) # 0
  BY <1>1, <1>2, <1>3, <1>4
<1> QED BY <1>1, <1>3, <1>4, <1>5, EmptyIs

LEMMA TidyForward ==
  ASSUME NEW s, Tidy(s), s.litpool # <<>>, NEW t, NEW place, NEW reach, NEW want, NEW sure,
         Fwd(s, t, place, reach, want, sure)
  PROVE  Tidy(t)
BY DEF Tidy, Sound, Fwd

LEMMA TidyBackward ==
  ASSUME NEW s, Tidy(s), NEW t, NEW dist, NEW off, NEW reach, NEW want,
         Back(s, t, dist, off, reach, want)
  PROVE  Tidy(t)
BY TidyAlike DEF Back

LEMMA TidyRefer ==
  ASSUME NEW s, StOK(s), Tidy(s), s.codep + 2 * PoolMax < Infinity + 4,
         NEW ws \in Seq(Lit), Len(ws) \in {1, 2}, NEW reach \in {Near, Far},
         NEW t, StOK(t), ReferOf(s, t, ws, reach)
  PROVE  Tidy(t)
<1>1. CASE \E p \in Places(s.litpool, ws) : Fwd(s, t, p, reach, ws, TRUE)
  <2>1. \A k \in {1, 2} : k # 0
    OBVIOUS
  <2>2. Len(ws) # 0
    BY <2>1, Zenon
  <2> QED BY <1>1, <2>2, PlaceUsed, TidyForward
<1>2. CASE \E a \in Nat : Back(s, t, s.codep + 2 - a, 0, reach, ws)
  BY <1>2, TidyBackward
<1>3. CASE EnteredOf(s, t, ws, reach)
  BY <1>3, TidyEntered
<1> QED BY <1>1, <1>2, <1>3 DEF ReferOf

LEMMA TidyNewString ==
  ASSUME NEW s, StOK(s), Tidy(s), s.codep + 2 * PoolMax < Infinity + 4,
         NEW ws \in Seq(Lit), Len(ws) # 0, NEW off \in Nat, off < Near - 5,
         NEW want, NEW add, NEW t, NewStringOf(s, t, ws, off, want, add)
  PROVE  Tidy(t)
<1>1. PICK u, v, w : /\ StOK(u) /\ AddrOf(s, u, Near - off)
                     /\ StOK(v) /\ Fwd(u, v, Size(u) + off, Near, want, TRUE)
                     /\ StOK(w) /\ OutlitsOf(v, w, ws) /\ Moved(w, t, add)
  BY DEF NewStringOf
<1>2. PICK n : n = Near - off
  OBVIOUS
<1>3. n \in Nat /\ n > 5 /\ n <= PoolMax
  BY <1>2, Reaches
<1>4. Ready(u)
  BY <1>1, <1>2, <1>3, ReadyAddr
<1>5. v.frefs # {} /\ v.mustlitby = u.mustlitby /\ v.err = u.err
  BY <1>1 DEF Fwd
<1>6. PICK k \in Nat : k = Len(ws) /\ k # 0
  BY LenProperties
<1>7. CASE Longer(v, w, ws, k)
  <2>1. Size(w) = Size(v) + k /\ w.frefs # {} /\ w.mustlitby = u.mustlitby /\ w.err = u.err
    BY <1>5, <1>7 DEF Longer
  <2>2. w.litpool # <<>>
    <3>1. Size(v) \in Nat /\ k \in Nat
      BY <1>1, <1>6, LenIs
    <3>2. Size(w) # 0
      BY <1>6, <2>1, <3>1
    <3> QED BY <1>1, <3>2, EmptyIs
  <2>3. w.mustlitby # Infinity
    BY <1>1, <1>4, <2>1, LenIs DEF Ready, Infinity
  <2>4. Tidy(w)
    BY <1>4, <2>1, <2>2, <2>3 DEF Tidy, Ready, Sound
  <2> QED BY <1>1, <2>4, TidyMoved
<1>8. CASE Spilt(v, w, ws, k) /\ w.litpool = <<>>
  <2>1. Tidy(w)
    BY <1>4, <1>5, <1>8 DEF Spilt, Tidy, Ready, Sound
  <2> QED BY <1>1, <2>1, TidyMoved
<1> QED BY <1>1, <1>6, <1>7, <1>8 DEF OutlitsOf

LEMMA TidyReferString ==
  ASSUME NEW s, StOK(s), Tidy(s), s.codep + 2 * PoolMax < Infinity + 4,
         NEW ws \in Seq(Lit), Len(ws) # 0, NEW off \in Nat, off < Near - 5,
         NEW want, NEW add \in Nat, NEW t, StOK(t), ReferStringOf(s, t, ws, off, want, add)
  PROVE  Tidy(t)
<1>1. CASE \E p \in Places(s.litpool, ws) : \E v :
             StOK(v) /\ Fwd(s, v, p + off, Near, want, NoFurther(s, p + off)) /\ Moved(v, t, add)
  BY <1>1, PlaceUsed, TidyForward, TidyMoved
<1>2. CASE \E a \in Nat : \E v :
             StOK(v) /\ Back(s, v, s.codep + 2 - a + off, off, Near, want) /\ Moved(v, t, add)
  BY <1>2, TidyBackward, TidyMoved
<1>3. CASE \E a \in Nat : \E v :
             /\ StOK(v) /\ v.incode /\ Noted(s, v, a + off, want)
             /\ ReferOf(v, t, Adcon("code", 4 * (a + off) + add), Far)
  <2>1. PICK a \in Nat : \E v :
             /\ StOK(v) /\ v.incode /\ Noted(s, v, a + off, want)
             /\ ReferOf(v, t, Adcon("code", 4 * (a + off) + add), Far)
    BY <1>3
  <2>2. PICK v : /\ StOK(v) /\ v.incode /\ Noted(s, v, a + off, want)
                 /\ ReferOf(v, t, Adcon("code", 4 * (a + off) + add), Far)
    BY <2>1
  <2>3. Tidy(v) /\ v.codep = s.codep
    BY <2>2, TidyAlike DEF Noted
  <2>4. PICK k : k = 4 * (a + off) + add
    OBVIOUS
  <2>5. k \in Int
    BY <2>4
  <2>6. "code" \in Symbols
    BY DEF Symbols
  <2>7. PICK xs : xs = Adcon("code", k)
    OBVIOUS
  <2>8. xs \in Seq(Lit) /\ Len(xs) \in {1, 2}
    BY <2>5, <2>6, <2>7, AdconIs
  <2>9. ReferOf(v, t, xs, Far)
    BY <2>2, <2>4, <2>7
  <2> QED BY <2>2, <2>3, <2>8, <2>9, TidyRefer
<1>4. CASE NewStringOf(s, t, ws, off, want, add)
  BY <1>4, TidyNewString
<1> QED BY <1>1, <1>2, <1>3, <1>4 DEF ReferStringOf

LEMMA BegunNear ==
  ASSUME NEW s, StOK(s), s.codep <= MaxCode, NEW u, Begun(s, u),
         NEW n \in {0} \cup Sizes \cup MulSizes \cup Blocks \cup Tables
  PROVE  u.codep + n + 2 * PoolMax < Infinity + 4 /\ u.codep + n + 1 < Infinity
<1>1. s.codep \in Nat /\ u.codep \in Nat /\ u.codep <= s.codep + 2 * (1 + PoolMax) + LdmMax
  BY BegunAdvances, LenIs
<1>2. /\ n \in Nat /\ MaxCode + 4 * PoolMax + LdmMax + n < Infinity
      /\ MaxCode \in Nat /\ PoolMax \in Nat /\ LdmMax \in Nat /\ PoolMax > 5
      /\ Infinity \in Nat
  BY EnoughAddresses
<1> QED BY <1>1, <1>2

LEMMA TidyStep ==
  ASSUME OffsetsShort, NEW s, StOK(s), s.codep <= MaxCode, Tidy(s),
         NEW t, StOK(t), StepOf(s, t)
  PROVE  Tidy(t)
<1>1. ASSUME NEW u, Begun(s, u)
      PROVE  /\ StOK(u) /\ Tidy(u) /\ u.codep \in Nat
             /\ u.codep + 2 * PoolMax < Infinity + 4 /\ u.codep + 0 < Infinity
  <2>1. u.codep + 0 + 2 * PoolMax < Infinity + 4 /\ u.codep + 0 + 1 < Infinity
    BY <1>1, BegunNear
  <2>2. StOK(u) /\ Tidy(u)
    BY <1>1, TidyBegun DEF Begun
  <2>3. u.codep \in Nat /\ PoolMax \in Nat /\ Infinity \in Nat
    BY <2>2, LenIs, Reaches DEF Infinity
  <2> QED BY <2>1, <2>2, <2>3
<1>2. ASSUME NEW x, PlainOf(s, x) PROVE Tidy(x)
  BY <1>1, <1>2, TidyMoved DEF PlainOf
<1>3. ASSUME HoldOf(s, t) PROVE Tidy(t)
  <2>1. PICK u : StOK(u) /\ (RoomOf(s, u, 0) \/ PlainOf(s, u)) /\ Held(u, t)
    BY <1>3 DEF HoldOf
  <2>2. Tidy(u)
    <3>1. MaxCode + 4 * PoolMax + LdmMax + 0 < Infinity /\ MaxCode \in Nat /\ PoolMax \in Nat
          /\ LdmMax \in Nat /\ Infinity \in Nat
      BY EnoughAddresses
    <3>2. s.codep + 0 < Infinity
      BY <3>1, LenIs
    <3>3. 0 \in Nat
      OBVIOUS
    <3> QED BY <1>2, <2>1, <3>2, <3>3, TidyAfterRoom
  <2> QED BY <2>1, <2>2, TidyAlike DEF Held
<1>4. ASSUME NumberOf(s, t) PROVE Tidy(t)
  <2>1. PICK u, v, w : \E b \in Sizes, a \in Sizes, n \in Numbers :
          /\ Begun(s, u) /\ StOK(v) /\ Moved(u, v, b)
          /\ StOK(w) /\ ReferOf(v, w, Number(n), Far) /\ Moved(w, t, a)
    BY <1>4 DEF NumberOf
  <2>2. PICK b \in Sizes, a \in Sizes, n \in Numbers :
          /\ Begun(s, u) /\ StOK(v) /\ Moved(u, v, b)
          /\ StOK(w) /\ ReferOf(v, w, Number(n), Far) /\ Moved(w, t, a)
    BY <2>1
  <2>3. Tidy(v)
    BY <1>1, <2>2, TidyMoved
  <2>4. v.codep + 2 * PoolMax < Infinity + 4
    <3>1. u.codep + b + 2 * PoolMax < Infinity + 4
      BY <2>2, BegunNear
    <3> QED BY <2>2, <3>1 DEF Moved
  <2>5. PICK xs : xs = Number(n)
    OBVIOUS
  <2>6. xs \in Seq(Lit) /\ Len(xs) \in {1, 2} /\ ReferOf(v, w, xs, Far)
    BY <2>2, <2>5, NumberIs
  <2>7. Tidy(w)
    BY <2>2, <2>3, <2>4, <2>6, TidyRefer
  <2> QED BY <2>2, <2>7, TidyMoved
<1>5. ASSUME AdconOf(s, t) PROVE Tidy(t)
  <2>1. PICK u : \E x \in Adcons : Begun(s, u) /\ ReferOf(u, t, Adcon(x, 0), Far)
    BY <1>5 DEF AdconOf
  <2>2. PICK x \in Adcons : Begun(s, u) /\ ReferOf(u, t, Adcon(x, 0), Far)
    BY <2>1
  <2>3. x \in Symbols
    BY DEF Symbols
  <2>4. PICK xs : xs = Adcon(x, 0)
    OBVIOUS
  <2>5. xs \in Seq(Lit) /\ Len(xs) \in {1, 2} /\ ReferOf(u, t, xs, Far)
    BY <2>2, <2>3, <2>4, AdconIs
  <2> QED BY <1>1, <2>2, <2>5, TidyRefer
<1>6. ASSUME DoubleOf(s, t) PROVE Tidy(t)
  <2>1. PICK u : \E p \in Pairs : Begun(s, u) /\ ReferOf(u, t, Double(p), Near)
    BY <1>6 DEF DoubleOf
  <2>2. PICK p \in Pairs : Begun(s, u) /\ ReferOf(u, t, Double(p), Near)
    BY <2>1
  <2>4. PICK xs : xs = Double(p)
    OBVIOUS
  <2>5. xs \in Seq(Lit) /\ Len(xs) \in {1, 2} /\ ReferOf(u, t, xs, Near)
    BY <2>2, <2>4, DoubleIs
  <2> QED BY <1>1, <2>2, <2>5, TidyRefer
<1>7. ASSUME StringOf(s, t) PROVE Tidy(t)
  <2>1. PICK u : \E str \in Strings, off \in Offsets, add \in {0, 1} :
          /\ off < Len(str) /\ Begun(s, u)
          /\ ReferStringOf(u, t, Words(str), off, SubSeq(Words(str), off + 1, Len(str)), add)
    BY <1>7 DEF StringOf
  <2>2. PICK str \in Strings, off \in Offsets, add \in {0, 1} :
          /\ off < Len(str) /\ Begun(s, u)
          /\ ReferStringOf(u, t, Words(str), off, SubSeq(Words(str), off + 1, Len(str)), add)
    BY <2>1
  <2>3. PICK ws, want : /\ ws = Words(str) /\ want = SubSeq(Words(str), off + 1, Len(str))
    OBVIOUS
  <2>4. ws \in Seq(Lit) /\ Len(ws) # 0
    <3>1. ws \in Seq(Lit) /\ Len(ws) = Len(str) /\ Len(str) \in Nat /\ Len(str) > 0
      BY <2>3, WordsIs
    <3>2. \A k \in Nat : k > 0 => k # 0
      OBVIOUS
    <3> QED BY <3>1, <3>2, Zenon
  <2>5. off \in Nat /\ off < Near - 5 /\ add \in Nat
    BY SizesAre DEF OffsetsShort
  <2>6. ReferStringOf(u, t, ws, off, want, add)
    BY <2>2, <2>3
  <2> QED BY <1>1, <2>2, <2>4, <2>5, <2>6, TidyReferString
<1>8. ASSUME MultiplyOf(s, t) PROVE Tidy(t)
  <2>1. PICK u, v : \E n \in MulSizes :
          Begun(s, u) /\ StOK(v) /\ RoomOf(u, v, 0) /\ Moved(v, t, n)
    BY <1>8 DEF MultiplyOf
  <2>2. 0 \in Nat
    OBVIOUS
  <2> QED BY <1>1, <2>1, <2>2, TidyAfterRoom, TidyMoved
<1>9. ASSUME BlockOf(s, t) PROVE Tidy(t)
  <2>1. PICK u, v : \E n \in Blocks :
          Begun(s, u) /\ StOK(v) /\ RoomOf(u, v, n) /\ Moved(v, t, n)
    BY <1>9 DEF BlockOf
  <2>2. PICK n \in Blocks : Begun(s, u) /\ StOK(v) /\ RoomOf(u, v, n) /\ Moved(v, t, n)
    BY <2>1
  <2>3. u.codep + n + 1 < Infinity
    BY <2>2, BegunNear
  <2>4. n \in Nat /\ u.codep \in Nat /\ Infinity \in Nat
    BY <1>1, <2>2, SizesAre DEF Infinity
  <2>5. u.codep + n < Infinity
    BY <2>3, <2>4
  <2>6. Tidy(v)
    BY <1>1, <2>2, <2>4, <2>5, TidyAfterRoom
  <2> QED BY <2>2, <2>6, TidyMoved
<1>10. ASSUME NEW v, Tidy(v), DumpAfterOf(v, t) PROVE Tidy(t)
  <2>1. CASE Dumped(v, t, 0)
    BY <1>10, <2>1, TidyAfterPool DEF Tidy
  <2>2. CASE Alike(v, t) /\ t.err = v.err
    BY <1>10, <2>2, TidyAlike DEF Alike, SamePool
  <2> QED BY <1>10, <2>1, <2>2 DEF DumpAfterOf, Tidy
<1>11. ASSUME JumpOf(s, t) PROVE Tidy(t)
  BY <1>1, <1>10, <1>11, TidyMoved DEF JumpOf
<1>12. ASSUME EndOf(s, t) PROVE Tidy(t)
  BY <1>1, <1>10, <1>12, TidyMoved DEF EndOf
<1> QED BY <1>2, <1>3, <1>4, <1>5, <1>6, <1>7, <1>8, <1>9, <1>11, <1>12 DEF StepOf

LEMMA TidyTable ==
  ASSUME NEW s, StOK(s), s.codep <= MaxCode, Tidy(s), NEW r3 \in Tables,
         NEW t, StOK(t), CaseOf(s, t, r3)
  PROVE  Tidy(t)
<1>1. PICK u, v, w : /\ Begun(s, u) /\ StOK(v) /\ Moved(u, v, 1)
                     /\ StOK(w) /\ RoomOf(v, w, r3) /\ Moved(w, t, 1)
  BY DEF CaseOf
<1>2. u.codep + r3 + 1 < Infinity
  BY <1>1, BegunNear
<1>3. Tidy(u) /\ StOK(u)
  BY <1>1, TidyBegun DEF Begun
<1>4. Tidy(v)
  BY <1>1, <1>3, TidyMoved
<1>5. r3 \in Nat /\ u.codep \in Nat /\ v.codep = u.codep + 1 /\ Infinity \in Nat
  BY <1>1, <1>3, LenIs, SizesAre DEF Moved, Infinity
<1>6. v.codep + r3 < Infinity
  BY <1>2, <1>5
<1>7. Tidy(w)
  BY <1>1, <1>4, <1>5, <1>6, TidyAfterRoom
<1> QED BY <1>1, <1>7, TidyMoved

LEMMA TidyEntry ==
  ASSUME NEW s, StOK(s), s.codep <= MaxCode, Tidy(s), NEW t, StOK(t), BxxOf(s, t)
  PROVE  Tidy(t)
<1>1. PICK u : StOK(u) /\ BeginOf(s, u, 0) /\ Moved(u, t, 1)
  BY DEF BxxOf
<1>2. PICK x : StOK(x) /\ RoomOf(s, x, 0) /\ FlushOf(x, u, 0)
  BY <1>1 DEF BeginOf
<1>3. /\ MaxCode + 4 * PoolMax + LdmMax + 0 < Infinity
      /\ MaxCode \in Nat /\ PoolMax \in Nat /\ LdmMax \in Nat /\ PoolMax > 5
      /\ Infinity \in Nat
  BY EnoughAddresses
<1>4. s.codep \in Nat /\ x.codep \in Nat /\ x.codep <= s.codep + 1 + PoolMax
  BY <1>2, LenIs, RoomAdvances
<1>5. s.codep + 0 < Infinity /\ x.codep + LdmMax < Infinity
  BY <1>3, <1>4
<1>6. Tidy(x)
  BY <1>2, <1>5, TidyAfterRoom
<1>7. Tidy(u)
  <2>1. CASE u = x
    BY <1>6, <2>1
  <2>2. CASE \E y : StOK(y) /\ RoomOf(x, y, LdmMax) /\ Sent(y, u, 0)
    <3>1. PICK y : RoomOf(x, y, LdmMax) /\ Sent(y, u, 0)
      BY <2>2
    <3>2. Tidy(y)
      BY <1>2, <1>3, <1>5, <1>6, <3>1, TidyAfterRoom
    <3> QED BY <3>1, <3>2, TidyAlike DEF Sent
  <2> QED BY <1>2, <2>1, <2>2 DEF FlushOf
<1> QED BY <1>1, <1>7, TidyMoved

TidyInv == OffsetsShort /\ Tidy(Now)

LEMMA TidyInit == OffsetsShort /\ Init => TidyInv
BY DEF Init, TidyInv, Tidy, Sound, Now

LEMMA TidyNext == TypeInv /\ TidyInv /\ [Next]_vars => TidyInv'
<1> SUFFICES ASSUME TypeInv, TidyInv, [Next]_vars PROVE TidyInv'
  OBVIOUS
<1>1. CASE Next
  <2>1. PICK t : /\ StOK(t) /\ Become(t)
                 /\ \/ StepOf(Now, t)
                    \/ \E r3 \in Tables : CaseOf(Now, t, r3)
                    \/ BxxOf(Now, t)
    BY <1>1, NextIs
  <2>2. StOK(Now) /\ Now.codep <= MaxCode /\ Tidy(Now) /\ OffsetsShort
    BY <1>1, NextIs, NowIs DEF TypeInv, TidyInv
  <2>3. Tidy(t)
    BY <2>1, <2>2, TidyStep, TidyTable, TidyEntry
  <2>4. Tidy(Now')
    BY <2>1, <2>3, NextNow, TidyAlike
  <2> QED BY <2>2, <2>4 DEF TidyInv
<1>2. CASE UNCHANGED vars
  BY <1>2 DEF TidyInv, vars, Now
<1> QED BY <1>1, <1>2

\* A pool is never emitted for nothing, nor kept with no reference to it, and
\* the check at each jopcode has a limit to go by as soon as one waits: the
\* syserrs dumplits1 to 3 cannot happen while the offsets folded into strings
\* leave a pool some room.
THEOREM PoolNeverIdle == OffsetsShort /\ Spec => []PoolHasRefs
<1>1. OffsetsShort /\ Init => TidyInv
  BY TidyInit
<1>2. TypeInv /\ TidyInv /\ [Next]_vars => TidyInv'
  BY TidyNext
<1>3. TidyInv => PoolHasRefs
  BY NowIs DEF TidyInv, Tidy, Sound, PoolHasRefs
<1> QED BY <1>1, <1>2, <1>3, TypesHold, PTL DEF Spec

----------------------------------------------------------------------------
(* No reference runs out of reach, but for two faults.                     *)

\* The limit allows for r, and for a new reference, n words of reach, to the
\* word p of the pool.
Reaching(s, r) ==
  0 <= r.place /\ r.place < r.reach /\ s.mustlitby <= r.at - r.place + r.reach - 5

Within(s, p, n) == s.mustlitby <= s.codep - p + n - 5 /\ p - 1 < n - 5

\* A word of a string is shared whether or not the limit allows for it.
Placed(s) ==
  \A p \in 1 .. Size(s) :
    /\ s.litpool[p][1] \in {"NUMBER", "ADCON"} => Within(s, p, Far)
    /\ s.litpool[p][1] = "FPNUM1" => Within(s, p, Near)

Fits(s) == /\ \A r \in s.frefs : r.at < s.codep /\ (r.sure => Reaching(s, r))
           /\ Placed(s)

\* The limit is k words behind.
Before(s, k) == s.frefs # {} => s.codep <= s.mustlitby + k

\* No reference was lost that the limit allows for.
Spared(s) == \A r \in s.lost : ~r.sure

LEMMA SparedAlike ==
  ASSUME NEW s, Spared(s), NEW t, t.lost = s.lost
  PROVE  Spared(t)
BY DEF Spared

LEMMA BeforeMore ==
  ASSUME NEW s, StOK(s), NEW j \in Int, NEW k \in Int, j <= k, Before(s, j)
  PROVE  Before(s, k)
<1>1. s.codep \in Nat /\ s.mustlitby \in Int
  BY LenIs
<1> QED BY <1>1 DEF Before

LEMMA NotTooFar ==
  ASSUME NEW s, StOK(s), NEW r \in s.frefs, Reaching(s, r), NEW n \in {0, 1},
         s.codep + n <= s.mustlitby + 6, r.at + 2 <= s.codep + n
  PROVE  ~TooFar(s, n, r)
<1>1. r \in Ref /\ s.codep \in Nat /\ s.mustlitby \in Int
  BY LenIs
<1>2. /\ r.at \in Nat /\ r.place \in Int /\ r.reach \in Nat
      /\ 0 <= r.place /\ r.place < r.reach => LowPlace(r) = r.place
  BY <1>1, LowPlaceIs
<1>3. /\ LowPlace(r) = r.place /\ 0 <= r.place
      /\ s.mustlitby <= r.at - r.place + r.reach - 5
  BY <1>2 DEF Reaching
<1>4. s.codep + n - r.at - 2 + LowPlace(r) \in 0 .. r.reach - 1
  BY <1>1, <1>2, <1>3
<1> QED BY <1>4 DEF TooFar

LEMMA FitsAfterPool ==
  ASSUME NEW s, NEW n, NEW t, StOK(t), Dumped(s, t, n)
  PROVE  /\ Fits(t) /\ t.frefs = {}
         /\ Spared(s) /\ (\A r \in s.frefs : r.sure => ~TooFar(s, n, r)) => Spared(t)
<1>1. t.frefs = {} /\ Size(t) = 0
  BY EmptyIs DEF Dumped
<1>2. \A p \in 1 .. 0 : FALSE
  OBVIOUS
<1>3. Fits(t)
  BY <1>1, <1>2 DEF Fits, Placed
<1>4. ASSUME Spared(s), \A r \in s.frefs : r.sure => ~TooFar(s, n, r) PROVE Spared(t)
  BY <1>4 DEF Spared, Dumped, Missed
<1> QED BY <1>1, <1>3, <1>4

LEMMA FitsAfterDump ==
  ASSUME NEW s, StOK(s), Tidy(s), Fits(s), s.frefs # {}, NEW t, StOK(t), DumpOf(s, t)
  PROVE  Fits(t) /\ t.frefs = {} /\ (Before(s, 5) /\ Spared(s) => Spared(t))
<1>1. Dumped(s, t, 1)
  BY DEF DumpOf, Tidy
<1>2. ASSUME Before(s, 5), NEW r \in s.frefs, r.sure PROVE ~TooFar(s, 1, r)
  <2>1. r.at < s.codep /\ Reaching(s, r)
    BY <1>2 DEF Fits
  <2>2. s.codep \in Nat /\ s.mustlitby \in Int /\ r.at \in Nat
    BY <1>2, DistanceIs, LenIs
  <2>3. s.codep + 1 <= s.mustlitby + 6
    BY <1>2, <2>2 DEF Before
  <2>4. r.at + 2 <= s.codep + 1
    BY <2>1, <2>2
  <2> QED BY <2>1, <2>3, <2>4, NotTooFar
<1>3. /\ Fits(t) /\ t.frefs = {}
      /\ Spared(s) /\ (\A r \in s.frefs : r.sure => ~TooFar(s, 1, r)) => Spared(t)
  BY <1>1, FitsAfterPool
<1> QED BY <1>2, <1>3

LEMMA FitsAfterRoom ==
  ASSUME NEW s, StOK(s), Tidy(s), Fits(s), NEW n \in Nat, s.codep + n < Infinity,
         NEW t, StOK(t), RoomOf(s, t, n)
  PROVE  /\ Fits(t) /\ (t.frefs # {} => t.codep + n < t.mustlitby)
         /\ Before(s, 5) /\ Spared(s) => Spared(t)
<1>1. CASE s.codep + n < s.mustlitby /\ t = s
  BY <1>1
<1>2. CASE s.codep + n >= s.mustlitby /\ DumpOf(s, t)
  <2>1. s.mustlitby # Infinity
    BY <1>2, LenIs DEF Infinity
  <2>2. s.frefs # {}
    BY <2>1 DEF Tidy
  <2> QED BY <1>2, <2>2, FitsAfterDump
<1> QED BY <1>1, <1>2 DEF RoomOf

\* Instructions that are not references; the limit may only be lowered.
LEMMA FitsLower ==
  ASSUME NEW s, StOK(s), Fits(s), NEW t, StOK(t), t.litpool = s.litpool, t.frefs = s.frefs,
         t.mustlitby <= s.mustlitby, t.codep >= s.codep
  PROVE  Fits(t)
<1>1. /\ s.codep \in Nat /\ t.codep \in Nat /\ s.mustlitby \in Int /\ t.mustlitby \in Int
      /\ Size(s) \in Nat /\ Size(t) = Size(s) /\ s.frefs \in SUBSET Ref
  BY LenIs DEF Size
<1>2. ASSUME NEW r \in s.frefs PROVE r.at < t.codep /\ (r.sure => Reaching(t, r))
  <2>1. r.at \in Nat /\ r.place \in Int /\ r.reach \in Nat
    BY <1>1, LowPlaceIs
  <2>2. r.at < s.codep /\ (r.sure => Reaching(s, r))
    BY DEF Fits
  <2>3. r.at < t.codep
    BY <1>1, <2>1, <2>2
  <2>4. ASSUME Reaching(s, r) PROVE Reaching(t, r)
    BY <1>1, <2>1, <2>4 DEF Reaching
  <2> QED BY <2>2, <2>3, <2>4
<1>3. ASSUME NEW p \in 1 .. Size(s), NEW n \in Nat, Within(s, p, n) PROVE Within(t, p, n)
  BY <1>1, <1>3 DEF Within
<1>4. Near \in Nat /\ Far \in Nat
  BY Reaches
<1>5. Placed(t)
  BY <1>1, <1>3, <1>4 DEF Placed, Fits
<1> QED BY <1>2, <1>5 DEF Fits

LEMMA FitsAlike ==
  ASSUME NEW s, StOK(s), Fits(s), NEW t, StOK(t), t.litpool = s.litpool, t.frefs = s.frefs,
         t.mustlitby = s.mustlitby, t.codep >= s.codep
  PROVE  Fits(t)
<1>1. t.mustlitby <= s.mustlitby
  BY LenIs
<1> QED BY <1>1, FitsLower

LEMMA FitsMoved ==
  ASSUME NEW s, StOK(s), Fits(s), NEW n \in Nat, NEW t, StOK(t), Moved(s, t, n)
  PROVE  /\ Fits(t) /\ (Spared(s) => Spared(t))
         /\ \A k \in Int : Before(s, k) => Before(t, k + n)
<1>1. /\ t.litpool = s.litpool /\ t.frefs = s.frefs /\ t.mustlitby = s.mustlitby
      /\ t.lost = s.lost /\ t.codep = s.codep + n
  BY DEF Moved, SamePool
<1>2. s.codep \in Nat /\ s.mustlitby \in Int
  BY LenIs
<1>3. Fits(t)
  <2>1. t.codep >= s.codep
    BY <1>1, <1>2
  <2> QED BY <1>1, <2>1, FitsAlike
<1>4. ASSUME NEW k \in Int, Before(s, k) PROVE Before(t, k + n)
  BY <1>1, <1>2, <1>4 DEF Before
<1> QED BY <1>1, <1>3, <1>4, SparedAlike

LEMMA FitsBegun ==
  ASSUME NEW s, StOK(s), s.codep <= MaxCode, Tidy(s), Fits(s), NEW t, Begun(s, t)
  PROVE  Fits(t) /\ Before(t, -1) /\ (Before(s, 5) /\ Spared(s) => Spared(t))
<1>1. PICK f \in 0 .. LdmMax : BeginOf(s, t, f)
  BY DEF Begun
<1>2. PICK u : StOK(u) /\ RoomOf(s, u, 0) /\ FlushOf(u, t, f)
  BY <1>1 DEF BeginOf
<1>3. /\ MaxCode + 4 * PoolMax + LdmMax + 0 < Infinity
      /\ MaxCode \in Nat /\ PoolMax \in Nat /\ LdmMax \in Nat /\ PoolMax > 5
      /\ Infinity \in Nat
  BY EnoughAddresses
<1>4. /\ s.codep \in Nat /\ u.codep \in Nat /\ u.codep <= s.codep + 1 + PoolMax
      /\ u.mustlitby \in Int
  BY <1>2, LenIs, RoomAdvances
<1>5. s.codep + 0 < Infinity /\ u.codep + LdmMax < Infinity
  BY <1>3, <1>4
<1>6. Tidy(u)
  BY <1>2, <1>5, TidyAfterRoom
<1>7. /\ Fits(u) /\ (u.frefs # {} => u.codep + 0 < u.mustlitby)
      /\ Before(s, 5) /\ Spared(s) => Spared(u)
  BY <1>2, <1>5, FitsAfterRoom
<1>8. Before(u, -1) /\ Before(u, 5)
  BY <1>4, <1>7 DEF Before
<1>9. CASE t = u
  BY <1>7, <1>8, <1>9
<1>10. CASE \E x : StOK(x) /\ RoomOf(u, x, LdmMax) /\ Sent(x, t, f)
  <2>1. PICK x : StOK(x) /\ RoomOf(u, x, LdmMax) /\ Sent(x, t, f)
    BY <1>10
  <2>3. /\ Fits(x) /\ (x.frefs # {} => x.codep + LdmMax < x.mustlitby)
        /\ Spared(u) => Spared(x)
    BY <1>2, <1>3, <1>5, <1>6, <1>7, <1>8, <2>1, FitsAfterRoom
  <2>4. /\ t.litpool = x.litpool /\ t.frefs = x.frefs /\ t.mustlitby = x.mustlitby
        /\ t.lost = x.lost /\ t.codep = x.codep + f
    BY <2>1 DEF Sent
  <2>5. x.codep \in Nat /\ x.mustlitby \in Int /\ f \in Nat /\ f <= LdmMax
    BY <1>3, <2>1, LenIs
  <2>6. t.codep >= x.codep /\ (x.frefs # {} => t.codep <= t.mustlitby + -1)
    BY <1>3, <2>3, <2>4, <2>5
  <2>7. Fits(t)
    BY <2>1, <2>3, <2>4, <2>6, FitsAlike DEF Begun
  <2>8. Before(s, 5) /\ Spared(s) => Spared(t)
    BY <1>7, <2>3, <2>4, SparedAlike
  <2> QED BY <2>4, <2>6, <2>7, <2>8 DEF Before
<1> QED BY <1>2, <1>9, <1>10 DEF FlushOf

LEMMA FitsAddr ==
  ASSUME NEW s, StOK(s), Tidy(s), Fits(s), NEW k \in Int, k >= -1, Before(s, k),
         s.codep + 2 * PoolMax < Infinity + 4,
         NEW n \in Nat, n > 5, n <= PoolMax, NEW t, StOK(t), AddrOf(s, t, n)
  PROVE  /\ Fits(t) /\ Ready(t) /\ Size(t) \in Nat /\ Size(t) < n - 5
         /\ t.mustlitby <= t.codep - Size(t) + (n - 5)
         /\ t.codep <= t.mustlitby + k
         /\ k <= 5 /\ Spared(s) => Spared(t)
<1>1. PICK u : /\ StOK(u)
               /\ IF Size(s) >= n - 5 THEN DumpOf(s, u) ELSE u = s
               /\ SamePool(u, t) /\ t.codep = u.codep
               /\ t.mustlitby <= u.mustlitby
               /\ t.mustlitby <= u.codep - Size(u) + (n - 5)
               /\ \/ t.mustlitby = u.mustlitby
                  \/ t.mustlitby = u.codep - Size(u) + (n - 5)
  BY DEF AddrOf
<1>2. /\ Size(s) \in Nat /\ Size(u) \in Nat /\ u.codep \in Nat /\ s.codep \in Nat
      /\ PoolMax \in Nat /\ PoolMax > 5 /\ u.mustlitby \in Int /\ t.mustlitby \in Int
      /\ Infinity \in Nat
  BY <1>1, LenIs, Reaches DEF Infinity
<1>3. Ready(t) /\ Size(t) < n - 5
  BY ReadyAddr
<1>4. Size(t) = Size(u)
  BY <1>1 DEF SamePool, Size
<1>5. /\ Fits(u) /\ (u.frefs = {} => u.mustlitby = Infinity) /\ (u.frefs # {} => u = s)
      /\ k <= 5 /\ Spared(s) => Spared(u)
  <2>1. CASE Size(s) >= n - 5
    <3>1. s.frefs # {}
      BY <1>2, <2>1, EmptyIs DEF Tidy
    <3>2. DumpOf(s, u)
      BY <1>1, <2>1
    <3>3. ASSUME k <= 5 PROVE Before(s, 5)
      BY <3>3, BeforeMore
    <3>4. Fits(u) /\ u.frefs = {} /\ (Before(s, 5) /\ Spared(s) => Spared(u))
      BY <1>1, <3>1, <3>2, FitsAfterDump
    <3>5. Tidy(u)
      BY <3>1, <3>2, TidyAfterDump
    <3> QED BY <3>3, <3>4, <3>5 DEF Tidy
  <2>2. CASE ~(Size(s) >= n - 5)
    <3>1. u = s
      BY <1>1, <2>2
    <3> QED BY <3>1 DEF Tidy
  <2> QED BY <2>1, <2>2
<1>6. u.codep <= s.codep + 1 + PoolMax
  <2>1. CASE u = s
    BY <1>2, <2>1
  <2>2. CASE DumpOf(s, u)
    BY <2>2, DumpAdvances
  <2> QED BY <1>1, <2>1, <2>2
<1>7. Fits(t)
  <2>1. t.codep >= u.codep
    BY <1>1, <1>2
  <2> QED BY <1>1, <1>5, <2>1, FitsLower DEF SamePool
<1>8. t.codep <= t.mustlitby + k
  <2>2. CASE t.mustlitby = u.codep - Size(u) + (n - 5)
    BY <1>1, <1>2, <1>3, <1>4, <2>2
  <2>3. CASE t.mustlitby = u.mustlitby /\ u.frefs = {}
    BY <1>1, <1>2, <1>5, <1>6, <2>3
  <2>4. CASE t.mustlitby = u.mustlitby /\ u.frefs # {}
    BY <1>1, <1>5, <2>4 DEF Before
  <2> QED BY <1>1, <2>2, <2>3, <2>4
<1>9. k <= 5 /\ Spared(s) => Spared(t)
  BY <1>1, <1>5, SparedAlike DEF SamePool
<1> QED BY <1>1, <1>2, <1>3, <1>4, <1>7, <1>8, <1>9

\* The word w at p.
Fitted(s, p, w) ==
  /\ w[1] \in {"NUMBER", "ADCON"} => Within(s, p, Far)
  /\ w[1] = "FPNUM1" => Within(s, p, Near)

LEMMA PlacedLonger ==
  ASSUME NEW u, StOK(u), Placed(u), NEW ws, NEW m \in Nat, NEW v, StOK(v), Longer(u, v, ws, m),
         NEW t, StOK(t), t.litpool = v.litpool, t.mustlitby <= u.mustlitby, t.codep >= u.codep,
         \A k \in 1 .. m : Fitted(t, Size(u) + k, ws[k])
  PROVE  Placed(t)
<1>1. /\ u.codep \in Nat /\ t.codep \in Nat /\ u.mustlitby \in Int /\ t.mustlitby \in Int
      /\ Size(u) \in Nat /\ Size(t) = Size(u) + m /\ Near \in Nat /\ Far \in Nat
  BY LenIs, Reaches DEF Longer, Size
<1>2. ASSUME NEW p \in 1 .. Size(t)
      PROVE  Fitted(t, p, t.litpool[p])
  <2>1. CASE p <= Size(u)
    <3>1. p \in 1 .. Size(u) /\ p \in Nat
      BY <1>1, <2>1
    <3>2. t.litpool[p] = u.litpool[p]
      BY <3>1 DEF Longer
    <3>3. ASSUME NEW n \in Nat, Within(u, p, n) PROVE Within(t, p, n)
      BY <1>1, <3>1, <3>3 DEF Within
    <3> QED BY <1>1, <3>1, <3>2, <3>3 DEF Placed, Fitted
  <2>2. CASE p > Size(u)
    <3>1. PICK k \in 1 .. m : p = Size(u) + k
      <4>1. p - Size(u) \in 1 .. m /\ p = Size(u) + (p - Size(u))
        BY <1>1, <2>2
      <4> QED BY <4>1
    <3>2. t.litpool[p] = ws[k]
      BY <3>1 DEF Longer
    <3> QED BY <3>1, <3>2
  <2> QED BY <1>1, <2>1, <2>2
<1> QED BY <1>2 DEF Placed, Fitted

\* The literals other than strings, with the reach of the instruction.
Literal(ws, reach) ==
  \/ Len(ws) = 1 /\ ws[1][1] \in {"NUMBER", "ADCON"} /\ reach = Far
  \/ Len(ws) = 2 /\ ws[1][1] = "FPNUM1" /\ ws[2][1] = "FPNUM2" /\ reach = Near

\* A reference to the word at p, n words of reach.
LEMMA FitsForward ==
  ASSUME NEW s, StOK(s), Fits(s), NEW p \in Int, NEW n \in {Near, Far}, NEW sure \in BOOLEAN,
         sure => 0 <= p /\ p < n /\ s.mustlitby <= s.codep - p + n - 5,
         NEW t, StOK(t), NEW want, Fwd(s, t, p, n, want, sure)
  PROVE  Fits(t) /\ (Spared(s) => Spared(t))
<1>1. s.codep \in Nat /\ s.mustlitby \in Int /\ n \in Nat
  BY LenIs, Reaches
<1>3. PICK x : x = [at |-> s.codep, place |-> p, reach |-> n, want |-> want, sure |-> sure]
  OBVIOUS
<1>4. /\ t.frefs = s.frefs \cup {x} /\ t.codep = s.codep + 1 /\ t.mustlitby = s.mustlitby
      /\ t.litpool = s.litpool /\ t.lost = s.lost
  BY <1>3 DEF Fwd
<1>5. x.at < t.codep /\ (x.sure => Reaching(t, x))
  BY <1>1, <1>3, <1>4 DEF Reaching
<1>6. ASSUME NEW r \in s.frefs PROVE r.at < t.codep /\ (r.sure => Reaching(t, r))
  <2>1. r.at \in Nat
    BY DistanceIs
  <2>2. r.at < s.codep /\ (r.sure => Reaching(s, r))
    BY DEF Fits
  <2> QED BY <1>1, <1>4, <2>1, <2>2 DEF Reaching
<1>7. Placed(t)
  <2>1. ASSUME NEW q \in 1 .. Size(s), NEW m \in Nat, Within(s, q, m) PROVE Within(t, q, m)
    <3>1. Size(s) \in Nat
      BY LenIs
    <3> QED BY <1>1, <1>4, <2>1, <3>1 DEF Within
  <2>2. Size(t) = Size(s)
    BY <1>4 DEF Size
  <2> QED BY <1>4, <2>1, <2>2, Reaches DEF Placed, Fits
<1>8. Fits(t)
  BY <1>4, <1>5, <1>6, <1>7 DEF Fits
<1> QED BY <1>4, <1>8, SparedAlike

LEMMA FitsHere ==
  ASSUME NEW s, StOK(s), Tidy(s), Fits(s), NEW ws \in Seq(Lit), NEW reach \in {Near, Far},
         Literal(ws, reach), NEW p \in Places(s.litpool, ws),
         NEW t, StOK(t), Fwd(s, t, p, reach, ws, TRUE)
  PROVE  Fits(t) /\ s.frefs # {} /\ (Spared(s) => Spared(t))
<1>1. PICK n \in {1, 2} : n = Len(ws)
  BY DEF Literal
<1>2. Len(ws) # 0
  <2>1. \A k \in {1, 2} : k # 0
    OBVIOUS
  <2> QED BY <1>1, <2>1
<1>3. s.litpool # <<>> /\ p \in Nat /\ p + n <= Size(s) /\ Holds(s.litpool, p, ws)
  BY <1>1, <1>2, PlaceUsed
<1>4. s.litpool[p + 1] = ws[1]
  <2>1. 1 \in 1 .. n
    OBVIOUS
  <2> QED BY <1>1, <1>3, <2>1 DEF Holds
<1>5. p + 1 \in 1 .. Size(s)
  BY <1>3, LenIs
<1>6. Within(s, p + 1, reach)
  BY <1>4, <1>5 DEF Literal, Fits, Placed
<1>7. reach \in Nat /\ s.codep \in Nat /\ s.mustlitby \in Int
  BY LenIs, Reaches
<1>8. p \in Int /\ 0 <= p /\ p < reach /\ s.mustlitby <= s.codep - p + reach - 5
  BY <1>3, <1>6, <1>7 DEF Within
<1>9. PICK b \in BOOLEAN : b = TRUE
  OBVIOUS
<1>10. Fwd(s, t, p, reach, ws, b)
  BY <1>9
<1>11. Fits(t) /\ (Spared(s) => Spared(t))
  BY <1>8, <1>10, FitsForward
<1> QED BY <1>3, <1>11 DEF Tidy

LEMMA FitsEntered ==
  ASSUME NEW s, StOK(s), Tidy(s), Fits(s), NEW k \in Int, k >= -1, Before(s, k),
         s.codep + 2 * PoolMax < Infinity + 4,
         NEW ws \in Seq(Lit), NEW reach \in {Near, Far}, Literal(ws, reach),
         NEW t, StOK(t), EnteredOf(s, t, ws, reach)
  PROVE  /\ Fits(t) /\ t.codep <= t.mustlitby + (k + 1)
         /\ k <= 5 /\ Spared(s) => Spared(t)
<1>1. PICK u, v : /\ StOK(u) /\ AddrOf(s, u, reach) /\ StOK(v) /\ OutlitsOf(u, v, ws)
                  /\ Fwd(v, t, Size(v) - Len(ws), reach, ws, TRUE)
  BY DEF EnteredOf
<1>2. reach \in Nat /\ reach > 5 /\ reach <= PoolMax /\ PoolMax \in Nat
  BY Reaches
<1>3. /\ Fits(u) /\ Size(u) \in Nat /\ Size(u) < reach - 5
      /\ u.mustlitby <= u.codep - Size(u) + (reach - 5)
      /\ u.codep <= u.mustlitby + k
      /\ k <= 5 /\ Spared(s) => Spared(u)
  BY <1>1, <1>2, FitsAddr
<1>4. PICK n \in {1, 2} : n = Len(ws)
  BY DEF Literal
<1>5. Size(u) + n <= PoolMax /\ n \in Nat
  BY <1>2, <1>3
<1>6. Longer(u, v, ws, n)
  BY <1>1, <1>2, <1>3, <1>4, <1>5 DEF OutlitsOf
<1>7. /\ v.codep = u.codep /\ v.mustlitby = u.mustlitby /\ v.frefs = u.frefs
      /\ v.lost = u.lost /\ Size(v) = Size(u) + n
  BY <1>6 DEF Longer
<1>8. PICK d : d = Size(u)
  OBVIOUS
<1>9. Size(v) - n = d /\ d \in Int /\ 0 <= d /\ d < reach
  BY <1>2, <1>3, <1>5, <1>7, <1>8
<1>10. Fwd(v, t, d, reach, ws, TRUE)
  BY <1>1, <1>4, <1>9
<1>11. u.codep \in Nat /\ u.mustlitby \in Int /\ u.frefs \in SUBSET Ref
  BY <1>1, LenIs
<1>12. ASSUME NEW x, StOK(x), x.litpool = v.litpool, x.mustlitby = u.mustlitby,
              x.codep = u.codep + 1
       PROVE  Placed(x)
  <2>1. Within(x, d + 1, reach)
    <3>1. \A m, c, e, l \in Int : m <= c - e + (l - 5) /\ e < l - 5 =>
            m <= (c + 1) - (e + 1) + l - 5 /\ (e + 1) - 1 < l - 5
      OBVIOUS
    <3>2. u.mustlitby \in Int /\ u.codep \in Int /\ d \in Int /\ reach \in Int
      BY <1>2, <1>9, <1>11
    <3>3. u.mustlitby <= u.codep - d + (reach - 5) /\ d < reach - 5
      BY <1>3, <1>8
    <3>4. x.mustlitby <= (u.codep + 1) - (d + 1) + reach - 5 /\ (d + 1) - 1 < reach - 5
      BY <1>12, <3>1, <3>2, <3>3
    <3> QED BY <1>12, <3>4 DEF Within
  <2>2. ASSUME NEW j \in 1 .. n PROVE Fitted(x, Size(u) + j, ws[j])
    <3>1. CASE j = 1
      BY <1>8, <2>1, <3>1 DEF Fitted, Literal
    <3>2. CASE j = 2 /\ n = 2
      <4>1. Len(ws) # 1
        <5>1. \A i \in {1, 2} : i = 2 => i # 1
          OBVIOUS
        <5> QED BY <1>4, <3>2, <5>1
      <4>2. ws[2][1] = "FPNUM2"
        BY <4>1 DEF Literal
      <4> QED BY <3>2, <4>2 DEF Fitted
    <3>3. j = 1 \/ (j = 2 /\ n = 2)
      OBVIOUS
    <3> QED BY <3>1, <3>2, <3>3
  <2>3. x.mustlitby <= u.mustlitby /\ x.codep >= u.codep
    BY <1>11, <1>12
  <2>4. Placed(u)
    BY <1>3 DEF Fits
  <2> QED BY <1>1, <1>5, <1>6, <1>12, <2>2, <2>3, <2>4, PlacedLonger
<1>13. t.litpool = v.litpool /\ t.mustlitby = u.mustlitby /\ t.codep = u.codep + 1
       /\ t.lost = u.lost
  BY <1>7, <1>10 DEF Fwd
<1>14. Placed(t)
  BY <1>12, <1>13
<1>15. ASSUME NEW r \in t.frefs PROVE r.at < t.codep /\ (r.sure => Reaching(t, r))
  <2>1. CASE r \in u.frefs
    <3>1. r.at < u.codep /\ (r.sure => Reaching(u, r))
      BY <1>3, <2>1 DEF Fits
    <3>2. r.at \in Nat
      BY <1>1, <2>1, DistanceIs
    <3> QED BY <1>11, <1>13, <3>1, <3>2 DEF Reaching
  <2>2. CASE r \notin u.frefs
    <3>2. r.at = u.codep /\ r.place = d /\ r.reach = reach
      BY <1>7, <1>10, <2>2 DEF Fwd
    <3> QED BY <1>2, <1>3, <1>8, <1>9, <1>11, <1>13, <3>2 DEF Reaching
  <2> QED BY <2>1, <2>2
<1>16. t.codep <= t.mustlitby + (k + 1)
  BY <1>3, <1>11, <1>13
<1>17. k <= 5 /\ Spared(s) => Spared(t)
  BY <1>3, <1>13, SparedAlike
<1> QED BY <1>14, <1>15, <1>16, <1>17 DEF Fits

LEMMA FitsBackward ==
  ASSUME NEW s, StOK(s), Fits(s), NEW k \in Int, Before(s, k), NEW t, StOK(t),
         NEW dist, NEW off, NEW reach, NEW want, Back(s, t, dist, off, reach, want)
  PROVE  Fits(t) /\ Before(t, k + 1) /\ (Spared(s) => Spared(t))
<1>1. s.codep \in Nat /\ s.mustlitby \in Int
  BY LenIs
<1>2. /\ t.litpool = s.litpool /\ t.frefs = s.frefs /\ t.mustlitby = s.mustlitby
      /\ t.lost = s.lost /\ t.codep = s.codep + 1
  BY DEF Back
<1>3. t.codep >= s.codep
  BY <1>1, <1>2
<1>4. Before(t, k + 1)
  BY <1>1, <1>2 DEF Before
<1> QED BY <1>2, <1>3, <1>4, FitsAlike, SparedAlike

LEMMA FitsRefer ==
  ASSUME NEW s, StOK(s), Tidy(s), Fits(s), NEW k \in Int, k >= -1, Before(s, k),
         s.codep + 2 * PoolMax < Infinity + 4,
         NEW ws \in Seq(Lit), NEW reach \in {Near, Far}, Literal(ws, reach),
         NEW t, StOK(t), ReferOf(s, t, ws, reach)
  PROVE  Fits(t) /\ Before(t, k + 1) /\ (k <= 5 /\ Spared(s) => Spared(t))
<1>1. s.codep \in Nat /\ s.mustlitby \in Int
  BY LenIs
<1>2. CASE \E p \in Places(s.litpool, ws) : Fwd(s, t, p, reach, ws, TRUE)
  <2>1. PICK p \in Places(s.litpool, ws) : Fwd(s, t, p, reach, ws, TRUE)
    BY <1>2
  <2>2. Fits(t) /\ s.frefs # {} /\ (Spared(s) => Spared(t))
    BY <2>1, FitsHere
  <2>3. t.codep = s.codep + 1 /\ t.mustlitby = s.mustlitby
    BY <2>1 DEF Fwd
  <2>4. Before(t, k + 1)
    BY <1>1, <2>2, <2>3 DEF Before
  <2> QED BY <2>2, <2>4
<1>3. CASE \E a \in Nat : Back(s, t, s.codep + 2 - a, 0, reach, ws)
  BY <1>3, FitsBackward
<1>4. CASE EnteredOf(s, t, ws, reach)
  BY <1>4, FitsEntered DEF Before
<1> QED BY <1>2, <1>3, <1>4 DEF ReferOf

\* A reference no further from its words than one that the limit allows for
\* from its own is allowed for too.
LEMMA NoFurtherReaches ==
  ASSUME NEW s, StOK(s), Fits(s), Before(s, -1), NEW q \in Int, NoFurther(s, q)
  PROVE  q < Near /\ s.mustlitby <= s.codep - q + Near - 5
<1>1. s.frefs \in SUBSET Ref /\ s.codep \in Nat /\ s.mustlitby \in Int /\ Near \in Nat
  BY LenIs, Reaches
<1>2. PICK r \in s.frefs : r.sure /\ r.reach = Near /\ q - s.codep <= r.place - r.at
  BY DEF NoFurther
<1>3. r.at \in Nat /\ r.place \in Int
  BY <1>1, LowPlaceIs
<1>4. s.mustlitby <= r.at - r.place + Near - 5
  BY <1>2 DEF Fits, Reaching
<1>5. s.codep <= s.mustlitby + -1
  BY DEF Before
<1> QED BY <1>1, <1>2, <1>3, <1>4, <1>5

LEMMA FitsStringHere ==
  ASSUME NEW s, StOK(s), Tidy(s), Fits(s), Before(s, -1), NEW str \in Strings,
         NEW p \in Places(s.litpool, Words(str)), NEW off \in Nat, NEW want,
         NEW t, StOK(t), Fwd(s, t, p + off, Near, want, NoFurther(s, p + off))
  PROVE  Fits(t) /\ s.frefs # {} /\ (Spared(s) => Spared(t))
<1>2. s.litpool # <<>> /\ p \in Nat
  <2>1. PICK ws : ws = Words(str)
    OBVIOUS
  <2>2. PICK n \in Nat : n = Len(ws) /\ n > 0 /\ ws \in Seq(Lit)
    BY <2>1, WordsIs
  <2>3. Len(ws) # 0
    BY <2>2
  <2> QED BY <2>1, <2>2, <2>3, PlaceUsed
<1>3. s.frefs # {}
  BY <1>2 DEF Tidy
<1>4. PICK q \in Int : q = p + off /\ 0 <= q
  BY <1>2
<1>5. NoFurther(s, q) => q < Near /\ s.mustlitby <= s.codep - q + Near - 5
  BY NoFurtherReaches
<1>6. NoFurther(s, q) \in BOOLEAN
  BY DEF NoFurther
<1>7. PICK b \in BOOLEAN : b = NoFurther(s, q)
  BY <1>6
<1>8. Fwd(s, t, q, Near, want, b)
  BY <1>4, <1>7
<1>9. b => 0 <= q /\ q < Near /\ s.mustlitby <= s.codep - q + Near - 5
  BY <1>4, <1>5, <1>7
<1>10. Fits(t) /\ (Spared(s) => Spared(t))
  BY <1>8, <1>9, FitsForward
<1> QED BY <1>3, <1>10

LEMMA FitsNewString ==
  ASSUME NEW s, StOK(s), Tidy(s), Fits(s), Before(s, -1),
         s.codep + 2 * PoolMax < Infinity + 4,
         NEW str \in Strings, NEW off \in Nat, off < Near - 5, NEW add \in Nat,
         NEW want, NEW t, StOK(t), NewStringOf(s, t, Words(str), off, want, add)
  PROVE  Fits(t) /\ Before(t, add) /\ (Spared(s) => Spared(t))
<1>1. PICK ws : ws = Words(str)
  OBVIOUS
<1>2. PICK m \in Nat : m = Len(ws) /\ m = Len(str) /\ m > 0
  BY <1>1, WordsIs
<1>3. PICK u, v, w : /\ StOK(u) /\ AddrOf(s, u, Near - off)
                     /\ StOK(v) /\ Fwd(u, v, Size(u) + off, Near, want, TRUE)
                     /\ StOK(w) /\ OutlitsOf(v, w, ws) /\ Moved(w, t, add)
  BY <1>1 DEF NewStringOf
<1>4. PICK n : n = Near - off
  OBVIOUS
<1>5. n \in Nat /\ n > 5 /\ n <= PoolMax /\ Near \in Nat /\ n <= Near
  BY <1>4, Reaches
<1>6. -1 \in Int /\ -1 >= -1 /\ -1 <= 5
  OBVIOUS
<1>7. /\ Fits(u) /\ Size(u) \in Nat /\ Size(u) < n - 5
      /\ u.mustlitby <= u.codep - Size(u) + (n - 5)
      /\ u.codep <= u.mustlitby + -1
      /\ Spared(s) => Spared(u)
  BY <1>3, <1>4, <1>5, <1>6, FitsAddr
<1>8. u.codep \in Nat /\ u.mustlitby \in Int
  BY <1>3, LenIs
<1>9. PICK d : d = Size(u) + off
  OBVIOUS
<1>10. d \in Int /\ 0 <= d /\ d < Near /\ u.mustlitby <= u.codep - d + Near - 5
  BY <1>4, <1>5, <1>7, <1>8, <1>9
<1>17. PICK b \in BOOLEAN : b = TRUE
  OBVIOUS
<1>11. Fwd(u, v, d, Near, want, b)
  BY <1>3, <1>9, <1>17
<1>12. Fits(v) /\ (Spared(u) => Spared(v))
  BY <1>3, <1>7, <1>10, <1>11, FitsForward
<1>13. /\ v.codep = u.codep + 1 /\ v.mustlitby = u.mustlitby /\ v.litpool = u.litpool
       /\ Size(v) = Size(u)
  BY <1>11 DEF Fwd, Size
<1>14. v.codep <= v.mustlitby
  BY <1>7, <1>8, <1>13
<1>15. CASE Longer(v, w, ws, m)
  <2>1. /\ w.codep = v.codep /\ w.mustlitby = v.mustlitby /\ w.frefs = v.frefs
        /\ w.lost = v.lost /\ Size(w) = Size(v) + m
    BY <1>15 DEF Longer
  <2>4. ASSUME NEW j \in 1 .. m PROVE Fitted(w, Size(v) + j, ws[j])
    <3>1. ws[j] = <<"STRING", "", str[j]>>
      BY <1>1, <1>2, WordsIs
    <3>2. \A x : <<"STRING", "", x>>[1] = "STRING"
      OBVIOUS
    <3>3. ws[j][1] = "STRING"
      BY <3>1, <3>2, Zenon
    <3> QED BY <3>3 DEF Fitted
  <2>5. w.mustlitby <= v.mustlitby /\ w.codep >= v.codep
    BY <1>8, <1>13, <2>1
  <2>6. Placed(w)
    BY <1>3, <1>12, <1>15, <2>4, <2>5, PlacedLonger DEF Fits
  <2>7. Fits(w)
    BY <1>12, <2>1, <2>6 DEF Fits, Reaching
  <2>8. Before(w, 0)
    BY <1>8, <1>13, <1>14, <2>1 DEF Before
  <2>9. Fits(t) /\ Before(t, 0 + add) /\ (Spared(w) => Spared(t))
    BY <1>3, <2>7, <2>8, FitsMoved
  <2>10. 0 + add = add
    OBVIOUS
  <2>11. Spared(s) => Spared(w)
    BY <1>7, <1>12, <2>1, SparedAlike
  <2> QED BY <2>9, <2>10, <2>11
<1>16. CASE Spilt(v, w, ws, m) /\ w.litpool = <<>>
  <2>1. ASSUME NEW r \in v.frefs, r.sure PROVE ~TooFar(v, 1, r)
    <3>1. Reaching(v, r) /\ r.at \in Nat /\ r.at < v.codep
      BY <1>3, <1>12, <2>1, DistanceIs DEF Fits
    <3>2. v.codep + 1 <= v.mustlitby + 6 /\ r.at + 2 <= v.codep + 1
      BY <1>8, <1>13, <1>14, <3>1
    <3> QED BY <1>3, <3>1, <3>2, NotTooFar
  <2>3. w.frefs = {} /\ w.lost = v.lost \cup Missed(v, 1)
    BY <1>16 DEF Spilt
  <2>4. Size(w) = 0
    BY <1>3, <1>16, EmptyIs
  <2>5. \A p \in 1 .. 0 : FALSE
    OBVIOUS
  <2>6. Fits(w)
    BY <2>3, <2>4, <2>5 DEF Fits, Placed
  <2>7. Fits(t) /\ (Spared(w) => Spared(t))
    BY <1>3, <2>6, FitsMoved
  <2>8. t.frefs = {}
    BY <1>3, <2>3 DEF Moved, SamePool
  <2>9. Spared(v) => Spared(w)
    BY <2>1, <2>3 DEF Spared, Missed
  <2> QED BY <1>7, <1>12, <2>7, <2>8, <2>9 DEF Before
<1> QED BY <1>2, <1>3, <1>15, <1>16 DEF OutlitsOf

LEMMA LiteralsAre ==
  /\ \A n \in Numbers : Literal(Number(n), Far)
  /\ \A x \in Symbols, n \in Int : Literal(Adcon(x, n), Far)
  /\ \A p \in Pairs : Literal(Double(p), Near)
<1>1. \A v, w : /\ <<v>>[1] = v /\ Len(<<v>>) = 1
                /\ <<v, w>>[1] = v /\ <<v, w>>[2] = w /\ Len(<<v, w>>) = 2
  OBVIOUS
<1>2. \A a, b, c : <<a, b, c>>[1] = a
  OBVIOUS
<1>3. ASSUME NEW n \in Numbers PROVE Literal(Number(n), Far)
  BY <1>1, <1>2, Zenon DEF Literal, Number
<1>4. ASSUME NEW x \in Symbols, NEW n \in Int PROVE Literal(Adcon(x, n), Far)
  BY <1>1, <1>2, Zenon DEF Literal, Adcon
<1>5. ASSUME NEW p \in Pairs PROVE Literal(Double(p), Near)
  BY <1>1, <1>2, Zenon DEF Literal, Double
<1> QED BY <1>3, <1>4, <1>5

LEMMA FitsReferString ==
  ASSUME NEW s, StOK(s), Tidy(s), Fits(s), Before(s, -1),
         s.codep + 2 * PoolMax < Infinity + 4,
         NEW str \in Strings, NEW off \in Nat, off < Near - 5, NEW add \in {0, 1}, NEW want,
         NEW t, StOK(t), ReferStringOf(s, t, Words(str), off, want, add)
  PROVE  Fits(t) /\ Before(t, 5) /\ (Spared(s) => Spared(t))
<1>1. add \in Nat /\ add <= 1 /\ -1 \in Int /\ -1 >= -1 /\ -1 <= 5
  OBVIOUS
<1>2. s.codep \in Nat /\ s.mustlitby \in Int
  BY LenIs
<1>3. CASE \E p \in Places(s.litpool, Words(str)) : \E v :
             StOK(v) /\ Fwd(s, v, p + off, Near, want, NoFurther(s, p + off)) /\ Moved(v, t, add)
  <2>1. PICK p \in Places(s.litpool, Words(str)) : \E v :
             StOK(v) /\ Fwd(s, v, p + off, Near, want, NoFurther(s, p + off)) /\ Moved(v, t, add)
    BY <1>3
  <2>2. PICK v : StOK(v) /\ Fwd(s, v, p + off, Near, want, NoFurther(s, p + off)) /\ Moved(v, t, add)
    BY <2>1
  <2>3. Fits(v) /\ s.frefs # {} /\ (Spared(s) => Spared(v))
    BY <2>2, FitsStringHere
  <2>4. v.codep = s.codep + 1 /\ v.mustlitby = s.mustlitby
    BY <2>2 DEF Fwd
  <2>5. Before(v, 0)
    <3>1. s.codep <= s.mustlitby + -1
      BY <2>3 DEF Before
    <3> QED BY <1>2, <2>4, <3>1 DEF Before
  <2>6. Fits(t) /\ Before(t, 0 + add) /\ (Spared(v) => Spared(t))
    <3>1. Fits(t) /\ (Spared(v) => Spared(t)) /\ \A k \in Int : Before(v, k) => Before(t, k + add)
      BY <1>1, <2>2, <2>3, FitsMoved
    <3>2. 0 \in Int
      OBVIOUS
    <3> QED BY <2>5, <3>1, <3>2, Zenon
  <2>7. 0 + add \in Int /\ 0 + add <= 5 /\ 5 \in Int
    BY <1>1
  <2> QED BY <2>3, <2>6, <2>7, BeforeMore
<1>4. CASE \E a \in Nat : \E v :
             StOK(v) /\ Back(s, v, s.codep + 2 - a + off, off, Near, want) /\ Moved(v, t, add)
  <2>1. PICK a \in Nat : \E v :
             StOK(v) /\ Back(s, v, s.codep + 2 - a + off, off, Near, want) /\ Moved(v, t, add)
    BY <1>4
  <2>2. PICK v : StOK(v) /\ Back(s, v, s.codep + 2 - a + off, off, Near, want) /\ Moved(v, t, add)
    BY <2>1
  <2>3. Fits(v) /\ Before(v, -1 + 1) /\ (Spared(s) => Spared(v))
    BY <1>1, <2>2, FitsBackward
  <2>4. Fits(t) /\ Before(t, (-1 + 1) + add) /\ (Spared(v) => Spared(t))
    BY <1>1, <2>2, <2>3, FitsMoved
  <2>5. (-1 + 1) + add \in Int /\ (-1 + 1) + add <= 5
    BY <1>1
  <2> QED BY <2>3, <2>4, <2>5, BeforeMore
<1>5. CASE \E a \in Nat : \E v :
             /\ StOK(v) /\ v.incode /\ Noted(s, v, a + off, want)
             /\ ReferOf(v, t, Adcon("code", 4 * (a + off) + add), Far)
  <2>1. PICK a \in Nat : \E v :
             /\ StOK(v) /\ v.incode /\ Noted(s, v, a + off, want)
             /\ ReferOf(v, t, Adcon("code", 4 * (a + off) + add), Far)
    BY <1>5
  <2>2. PICK v : /\ StOK(v) /\ v.incode /\ Noted(s, v, a + off, want)
                 /\ ReferOf(v, t, Adcon("code", 4 * (a + off) + add), Far)
    BY <2>1
  <2>3. /\ v.codep = s.codep /\ v.litpool = s.litpool /\ v.mustlitby = s.mustlitby
        /\ v.frefs = s.frefs /\ v.err = s.err /\ v.lost = s.lost
    BY <2>2 DEF Noted
  <2>4. Tidy(v) /\ Before(v, -1)
    BY <2>3, TidyAlike DEF Before
  <2>5. Fits(v)
    <3>1. v.codep >= s.codep
      BY <1>2, <2>3
    <3> QED BY <2>2, <2>3, <3>1, FitsAlike
  <2>6. PICK k : k = 4 * (a + off) + add
    OBVIOUS
  <2>7. k \in Int
    BY <1>1, <2>6
  <2>8. "code" \in Symbols
    BY DEF Symbols
  <2>9. PICK xs : xs = Adcon("code", k)
    OBVIOUS
  <2>10. xs \in Seq(Lit) /\ Literal(xs, Far)
    BY <2>7, <2>8, <2>9, AdconIs, LiteralsAre
  <2>11. ReferOf(v, t, xs, Far)
    BY <2>2, <2>6, <2>9
  <2>12. v.codep + 2 * PoolMax < Infinity + 4
    BY <2>3
  <2>13. Fits(t) /\ Before(t, -1 + 1) /\ (Spared(v) => Spared(t))
    BY <1>1, <2>2, <2>4, <2>5, <2>10, <2>11, <2>12, FitsRefer
  <2>14. -1 + 1 \in Int /\ -1 + 1 <= 5 /\ 5 \in Int
    OBVIOUS
  <2> QED BY <2>3, <2>13, <2>14, BeforeMore, SparedAlike
<1>6. CASE NewStringOf(s, t, Words(str), off, want, add)
  <2>1. Fits(t) /\ Before(t, add) /\ (Spared(s) => Spared(t))
    BY <1>1, <1>6, FitsNewString
  <2>2. add \in Int /\ add <= 5 /\ 5 \in Int
    BY <1>1
  <2> QED BY <2>1, <2>2, BeforeMore
<1> QED BY <1>3, <1>4, <1>5, <1>6 DEF ReferStringOf

LEMMA FitsAfterEnd ==
  ASSUME NEW v, StOK(v), Tidy(v), Fits(v), NEW t, StOK(t), DumpAfterOf(v, t)
  PROVE  /\ Fits(t) /\ Before(t, 5)
         /\ Before(v, 5) /\ Spared(v) /\ (\A r \in v.frefs : r.at + 2 <= v.codep) => Spared(t)
<1>1. CASE v.frefs # {} /\ Dumped(v, t, 0)
  <2>1. v.codep \in Nat /\ v.mustlitby \in Int
    BY LenIs
  <2>2. ASSUME Before(v, 5), NEW r \in v.frefs, r.sure, r.at + 2 <= v.codep PROVE ~TooFar(v, 0, r)
    <3>1. v.codep + 0 <= v.mustlitby + 6 /\ r.at + 2 <= v.codep + 0
      BY <1>1, <2>1, <2>2 DEF Before
    <3>2. Reaching(v, r)
      BY <2>2 DEF Fits
    <3> QED BY <3>1, <3>2, NotTooFar
  <2>3. /\ Fits(t) /\ t.frefs = {}
        /\ Spared(v) /\ (\A r \in v.frefs : r.sure => ~TooFar(v, 0, r)) => Spared(t)
    BY <1>1, FitsAfterPool
  <2>4. Before(t, 5)
    BY <2>3 DEF Before
  <2> QED BY <2>2, <2>3, <2>4
<1>2. CASE v.frefs = {} /\ Alike(v, t)
  <2>1. /\ t.litpool = v.litpool /\ t.frefs = v.frefs /\ t.mustlitby = v.mustlitby
        /\ t.codep = v.codep /\ t.lost = v.lost
    BY <1>2 DEF Alike, SamePool
  <2>2. t.codep >= v.codep
    BY <2>1, LenIs
  <2> QED BY <1>2, <2>1, <2>2, FitsAlike, SparedAlike DEF Before
<1> QED BY <1>1, <1>2 DEF DumpAfterOf, Tidy

LEMMA FitsPlain ==
  ASSUME NEW u, StOK(u), Fits(u), Before(u, -1), NEW n \in Nat, NEW t, StOK(t), Moved(u, t, n)
  PROVE  Fits(t) /\ (n <= 6 => Before(t, 5)) /\ (Spared(u) => Spared(t))
<1>1. -1 \in Int /\ -1 + n \in Int /\ (n <= 6 => -1 + n <= 5) /\ 5 \in Int
  OBVIOUS
<1>2. Fits(t) /\ Before(t, -1 + n) /\ (Spared(u) => Spared(t))
  BY <1>1, FitsMoved
<1> QED BY <1>1, <1>2, BeforeMore

\* What a step keeps, unless it or the one before is long.
StaysFit(s, t) ==
  /\ Fits(t) /\ (t.long \/ Before(t, 5))
  /\ Before(s, 5) /\ Spared(s) => t.long \/ Spared(t)

LEMMA FitsNumber ==
  ASSUME NEW u, StOK(u), Tidy(u), Fits(u), Before(u, -1), NEW b \in Nat, NEW a \in Nat,
         u.codep + b + 2 * PoolMax < Infinity + 4,
         NEW v, StOK(v), Moved(u, v, b), NEW n \in Numbers,
         NEW w, StOK(w), ReferOf(v, w, Number(n), Far), NEW t, StOK(t), Moved(w, t, a)
  PROVE  Fits(t) /\ (b + 1 + a <= 6 => Before(t, 5) /\ (Spared(u) => Spared(t)))
<1>4. PICK k : k = -1 + b
  OBVIOUS
<1>5. k \in Int /\ k >= -1 /\ -1 \in Int /\ k + 1 \in Int /\ (k + 1) + a \in Int /\ 5 \in Int
  BY <1>4
<1>6. Fits(v) /\ Before(v, k) /\ (Spared(u) => Spared(v))
  BY <1>4, <1>5, FitsMoved
<1>7. Tidy(v)
  BY TidyMoved
<1>8. v.codep + 2 * PoolMax < Infinity + 4
  BY DEF Moved
<1>9. PICK xs : xs = Number(n)
  OBVIOUS
<1>10. xs \in Seq(Lit) /\ Literal(xs, Far) /\ ReferOf(v, w, xs, Far)
  BY <1>9, NumberIs, LiteralsAre
<1>11. Fits(w) /\ Before(w, k + 1) /\ (k <= 5 /\ Spared(v) => Spared(w))
  BY <1>5, <1>6, <1>7, <1>8, <1>10, FitsRefer
<1>12. Fits(t) /\ Before(t, (k + 1) + a) /\ (Spared(w) => Spared(t))
  BY <1>5, <1>11, FitsMoved
<1>13. ASSUME b + 1 + a <= 6 PROVE Before(t, 5) /\ k <= 5
  <2>1. (k + 1) + a <= 5 /\ k <= 5
    BY <1>4, <1>13
  <2> QED BY <1>5, <1>12, <2>1, BeforeMore
<1> QED BY <1>6, <1>11, <1>12, <1>13

LEMMA FitsStep ==
  ASSUME OffsetsShort, NEW s, StOK(s), s.codep <= MaxCode, Tidy(s), Fits(s),
         NEW t, StOK(t), StepOf(s, t)
  PROVE  StaysFit(s, t)
<1>1. ASSUME NEW u, Begun(s, u)
      PROVE  /\ StOK(u) /\ Tidy(u) /\ Fits(u) /\ Before(u, -1) /\ Before(u, 5)
             /\ u.codep \in Nat /\ u.codep + 2 * PoolMax < Infinity + 4
             /\ Before(s, 5) /\ Spared(s) => Spared(u)
  <2>1. u.codep + 0 + 2 * PoolMax < Infinity + 4
    BY <1>1, BegunNear
  <2>2. /\ StOK(u) /\ Tidy(u) /\ Fits(u) /\ Before(u, -1)
        /\ Before(s, 5) /\ Spared(s) => Spared(u)
    BY <1>1, TidyBegun, FitsBegun DEF Begun
  <2>3. u.codep \in Nat /\ PoolMax \in Nat /\ Infinity \in Nat /\ u.mustlitby \in Int
    BY <2>2, LenIs, Reaches DEF Infinity
  <2>4. u.codep + 2 * PoolMax < Infinity + 4
    BY <2>1, <2>3
  <2>5. Before(u, 5)
    BY <2>2, <2>3 DEF Before
  <2> QED BY <2>2, <2>3, <2>4, <2>5
<1>14. \A n \in Nat : n <= 6 \/ n > 6
  OBVIOUS
<1>2. ASSUME NEW x, StOK(x), PlainOf(s, x) PROVE StaysFit(s, x)
  <2>1. PICK u : \E n \in Sizes : Begun(s, u) /\ Moved(u, x, n) /\ (n > 6 => x.long)
    BY <1>2 DEF PlainOf
  <2>2. PICK n \in Sizes : Begun(s, u) /\ Moved(u, x, n) /\ (n > 6 => x.long)
    BY <2>1
  <2>3. n \in Nat
    BY SizesAre
  <2>4. Fits(x) /\ (n <= 6 => Before(x, 5)) /\ (Spared(u) => Spared(x))
    BY <1>1, <1>2, <2>2, <2>3, FitsPlain
  <2> QED BY <1>1, <1>14, <2>2, <2>3, <2>4 DEF StaysFit
<1>3. ASSUME HoldOf(s, t) PROVE StaysFit(s, t)
  <2>1. PICK u : StOK(u) /\ (RoomOf(s, u, 0) \/ PlainOf(s, u)) /\ Held(u, t)
    BY <1>3 DEF HoldOf
  <2>2. u.codep \in Nat /\ u.mustlitby \in Int
    BY <2>1, LenIs
  <2>3. /\ t.litpool = u.litpool /\ t.frefs = u.frefs /\ t.mustlitby = u.mustlitby
        /\ t.lost = u.lost /\ t.codep = u.codep /\ t.codep >= u.codep /\ t.long = u.long
    BY <2>1, <2>2 DEF Held
  <2>5. StaysFit(s, u)
    <3>1. CASE RoomOf(s, u, 0)
      <4>1. s.codep + 0 < Infinity /\ 0 \in Nat
        BY EnoughAddresses, LenIs
      <4>2. /\ Fits(u) /\ (u.frefs # {} => u.codep + 0 < u.mustlitby)
            /\ Before(s, 5) /\ Spared(s) => Spared(u)
        BY <2>1, <3>1, <4>1, FitsAfterRoom
      <4>3. Before(u, 5)
        BY <2>2, <4>2 DEF Before
      <4> QED BY <4>2, <4>3 DEF StaysFit
    <3>2. CASE PlainOf(s, u)
      BY <1>2, <2>1, <3>2
    <3> QED BY <2>1, <3>1, <3>2
  <2>6. Fits(t)
    BY <2>1, <2>3, <2>5, FitsAlike DEF StaysFit
  <2>7. Before(u, 5) => Before(t, 5)
    BY <2>3 DEF Before
  <2> QED BY <2>3, <2>5, <2>6, <2>7, SparedAlike DEF StaysFit
<1>4. ASSUME NumberOf(s, t) PROVE StaysFit(s, t)
  <2>1. PICK u, v, w : \E b \in Sizes, a \in Sizes, n \in Numbers :
          /\ Begun(s, u) /\ StOK(v) /\ v.incode /\ Moved(u, v, b)
          /\ StOK(w) /\ ReferOf(v, w, Number(n), Far) /\ Moved(w, t, a)
          /\ b + 1 + a > 6 => t.long
    BY <1>4 DEF NumberOf
  <2>2. PICK b \in Sizes, a \in Sizes, n \in Numbers :
          /\ Begun(s, u) /\ StOK(v) /\ v.incode /\ Moved(u, v, b)
          /\ StOK(w) /\ ReferOf(v, w, Number(n), Far) /\ Moved(w, t, a)
          /\ b + 1 + a > 6 => t.long
    BY <2>1
  <2>3. u.codep + b + 2 * PoolMax < Infinity + 4
    BY <2>2, BegunNear
  <2>4. a \in Nat /\ b \in Nat
    BY SizesAre
  <2>5. Fits(t) /\ (b + 1 + a <= 6 => Before(t, 5) /\ (Spared(u) => Spared(t)))
    BY <1>1, <2>2, <2>3, <2>4, FitsNumber
  <2>6. b + 1 + a <= 6 \/ b + 1 + a > 6
    BY <2>4
  <2> QED BY <1>1, <2>2, <2>5, <2>6 DEF StaysFit
<1>5. ASSUME NEW xs \in Seq(Lit), NEW reach \in {Near, Far}, Literal(xs, reach),
             NEW u, Begun(s, u), ReferOf(u, t, xs, reach)
      PROVE  StaysFit(s, t)
  <2>1. -1 \in Int /\ -1 >= -1 /\ -1 <= 5 /\ -1 + 1 \in Int /\ 5 \in Int /\ -1 + 1 <= 5
    OBVIOUS
  <2>2. Fits(t) /\ Before(t, -1 + 1) /\ (Spared(u) => Spared(t))
    BY <1>1, <1>5, <2>1, FitsRefer
  <2>3. Before(t, 5)
    BY <2>1, <2>2, BeforeMore
  <2> QED BY <1>1, <1>5, <2>2, <2>3 DEF StaysFit
<1>6. ASSUME AdconOf(s, t) PROVE StaysFit(s, t)
  <2>1. PICK u : \E x \in Adcons : Begun(s, u) /\ ReferOf(u, t, Adcon(x, 0), Far)
    BY <1>6 DEF AdconOf
  <2>2. PICK x \in Adcons : Begun(s, u) /\ ReferOf(u, t, Adcon(x, 0), Far)
    BY <2>1
  <2>3. x \in Symbols /\ 0 \in Int
    <3>1. 0 \in Int
      OBVIOUS
    <3> QED BY <3>1 DEF Symbols
  <2>4. PICK xs : xs = Adcon(x, 0)
    OBVIOUS
  <2>5. xs \in Seq(Lit) /\ Literal(xs, Far) /\ ReferOf(u, t, xs, Far)
    BY <2>2, <2>3, <2>4, AdconIs, LiteralsAre
  <2> QED BY <1>5, <2>2, <2>5
<1>7. ASSUME DoubleOf(s, t) PROVE StaysFit(s, t)
  <2>1. PICK u : \E p \in Pairs : Begun(s, u) /\ ReferOf(u, t, Double(p), Near)
    BY <1>7 DEF DoubleOf
  <2>2. PICK p \in Pairs : Begun(s, u) /\ ReferOf(u, t, Double(p), Near)
    BY <2>1
  <2>3. PICK xs : xs = Double(p)
    OBVIOUS
  <2>4. xs \in Seq(Lit) /\ Literal(xs, Near) /\ ReferOf(u, t, xs, Near)
    BY <2>2, <2>3, DoubleIs, LiteralsAre
  <2> QED BY <1>5, <2>2, <2>4
<1>8. ASSUME StringOf(s, t) PROVE StaysFit(s, t)
  <2>1. PICK u : \E str \in Strings, off \in Offsets, add \in {0, 1} :
          /\ off < Len(str) /\ Begun(s, u)
          /\ ReferStringOf(u, t, Words(str), off, SubSeq(Words(str), off + 1, Len(str)), add)
    BY <1>8 DEF StringOf
  <2>2. PICK str \in Strings, off \in Offsets, add \in {0, 1} :
          /\ off < Len(str) /\ Begun(s, u)
          /\ ReferStringOf(u, t, Words(str), off, SubSeq(Words(str), off + 1, Len(str)), add)
    BY <2>1
  <2>3. PICK want : want = SubSeq(Words(str), off + 1, Len(str))
    OBVIOUS
  <2>4. ReferStringOf(u, t, Words(str), off, want, add)
    BY <2>2, <2>3
  <2>5. off \in Nat /\ off < Near - 5
    BY SizesAre DEF OffsetsShort
  <2>6. Fits(t) /\ Before(t, 5) /\ (Spared(u) => Spared(t))
    BY <1>1, <2>2, <2>4, <2>5, FitsReferString
  <2> QED BY <1>1, <2>2, <2>6 DEF StaysFit
<1>9. ASSUME NEW u, Begun(s, u), NEW v, StOK(v),
             NEW n \in {0} \cup Sizes \cup MulSizes \cup Blocks \cup Tables, RoomOf(u, v, n)
      PROVE  /\ Fits(v) /\ (v.frefs # {} => v.codep + n < v.mustlitby) /\ n \in Nat
             /\ Before(s, 5) /\ Spared(s) => Spared(v)
  <2>1. u.codep + n + 1 < Infinity /\ n \in Nat
    BY <1>9, BegunNear, EnoughAddresses
  <2>2. u.codep + n < Infinity
    <3>1. Infinity \in Nat /\ u.codep \in Nat
      BY <1>1, <1>9 DEF Infinity
    <3> QED BY <2>1, <3>1
  <2>3. /\ Fits(v) /\ (v.frefs # {} => v.codep + n < v.mustlitby)
        /\ Before(u, 5) /\ Spared(u) => Spared(v)
    BY <1>1, <1>9, <2>1, <2>2, FitsAfterRoom
  <2> QED BY <1>1, <1>9, <2>1, <2>3
<1>10. ASSUME MultiplyOf(s, t) PROVE StaysFit(s, t)
  <2>1. PICK u, v : \E n \in MulSizes :
          Begun(s, u) /\ StOK(v) /\ RoomOf(u, v, 0) /\ Moved(v, t, n) /\ (n > 6 => t.long)
    BY <1>10 DEF MultiplyOf
  <2>2. PICK n \in MulSizes :
          Begun(s, u) /\ StOK(v) /\ RoomOf(u, v, 0) /\ Moved(v, t, n) /\ (n > 6 => t.long)
    BY <2>1
  <2>3. n \in Nat
    BY SizesAre
  <2>5. /\ Fits(v) /\ (v.frefs # {} => v.codep + 0 < v.mustlitby)
        /\ Before(s, 5) /\ Spared(s) => Spared(v)
    BY <1>9, <2>2
  <2>6. Before(v, -1)
    <3>1. v.codep \in Nat /\ v.mustlitby \in Int
      BY <2>2, LenIs
    <3> QED BY <2>5, <3>1 DEF Before
  <2>7. Fits(t) /\ (n <= 6 => Before(t, 5)) /\ (Spared(v) => Spared(t))
    BY <2>2, <2>3, <2>5, <2>6, FitsPlain
  <2> QED BY <1>14, <2>2, <2>3, <2>5, <2>7 DEF StaysFit
<1>11. ASSUME BlockOf(s, t) PROVE StaysFit(s, t)
  <2>1. PICK u, v : \E n \in Blocks :
          Begun(s, u) /\ StOK(v) /\ RoomOf(u, v, n) /\ Moved(v, t, n)
    BY <1>11 DEF BlockOf
  <2>2. PICK n \in Blocks : Begun(s, u) /\ StOK(v) /\ RoomOf(u, v, n) /\ Moved(v, t, n)
    BY <2>1
  <2>3. v.frefs = t.frefs /\ v.mustlitby = t.mustlitby /\ t.codep = v.codep + n
    BY <2>2 DEF Moved, SamePool
  <2>5. /\ Fits(v) /\ (v.frefs # {} => v.codep + n < v.mustlitby) /\ n \in Nat
        /\ Before(s, 5) /\ Spared(s) => Spared(v)
    BY <1>9, <2>2
  <2>6. Fits(t) /\ (Spared(v) => Spared(t))
    BY <2>2, <2>5, FitsMoved
  <2>7. v.codep \in Nat /\ v.mustlitby \in Int
    BY <2>2, LenIs
  <2>8. Before(t, 5)
    BY <2>3, <2>5, <2>7 DEF Before
  <2> QED BY <2>5, <2>6, <2>8 DEF StaysFit
<1>12. ASSUME JumpOf(s, t) PROVE StaysFit(s, t)
  <2>1. PICK u, v : \E n \in Sizes \ {0} :
          Begun(s, u) /\ StOK(v) /\ Moved(u, v, n) /\ DumpAfterOf(v, t) /\ (n > 6 => t.long)
    BY <1>12 DEF JumpOf
  <2>2. PICK n \in Sizes \ {0} :
          Begun(s, u) /\ StOK(v) /\ Moved(u, v, n) /\ DumpAfterOf(v, t) /\ (n > 6 => t.long)
    BY <2>1
  <2>3. n \in Nat /\ n >= 1
    BY SizesAre
  <2>4. Tidy(v) /\ Fits(v) /\ (n <= 6 => Before(v, 5)) /\ (Spared(u) => Spared(v))
    BY <1>1, <2>2, <2>3, FitsPlain, TidyMoved
  <2>5. ASSUME NEW r \in v.frefs PROVE r.at + 2 <= v.codep
    <3>1. r \in u.frefs /\ v.codep = u.codep + n
      BY <2>2, <2>5 DEF Moved, SamePool
    <3>2. r.at < u.codep /\ r.at \in Nat /\ u.codep \in Nat
      BY <1>1, <2>2, <3>1, DistanceIs DEF Fits
    <3> QED BY <2>3, <3>1, <3>2
  <2>6. Fits(t) /\ Before(t, 5) /\ (Before(v, 5) /\ Spared(v) => Spared(t))
    BY <2>2, <2>4, <2>5, FitsAfterEnd
  <2> QED BY <1>1, <1>14, <2>2, <2>3, <2>4, <2>6 DEF StaysFit
<1>13. ASSUME EndOf(s, t) PROVE StaysFit(s, t)
  <2>1. PICK u, v : \E n \in {0, 1} :
          /\ ~s.ldm /\ \A r \in s.frefs : r.at # s.codep - 1
          /\ Begun(s, u) /\ StOK(v) /\ Moved(u, v, n) /\ DumpAfterOf(v, t)
    BY <1>13 DEF EndOf
  <2>2. PICK n \in {0, 1} :
          /\ ~s.ldm /\ \A r \in s.frefs : r.at # s.codep - 1
          /\ Begun(s, u) /\ StOK(v) /\ Moved(u, v, n) /\ DumpAfterOf(v, t)
    BY <2>1
  <2>3. n \in Nat /\ n <= 6
    OBVIOUS
  <2>4. Tidy(v) /\ Fits(v) /\ Before(v, 5) /\ (Spared(u) => Spared(v))
    BY <1>1, <2>2, <2>3, FitsPlain, TidyMoved
  <2>5. ASSUME NEW r \in v.frefs PROVE r.at + 2 <= v.codep
    <3>1. r \in u.frefs /\ v.codep = u.codep + n
      BY <2>2, <2>5 DEF Moved, SamePool
    <3>2. PICK f \in 0 .. LdmMax : BeginOf(s, u, f)
      BY <2>2 DEF Begun
    <3>3. PICK x : RoomOf(s, x, 0) /\ FlushOf(x, u, f)
      BY <3>2 DEF BeginOf
    <3>4. x.ldm = s.ldm
      BY <3>3 DEF RoomOf, DumpOf, Stopped, Alike, SamePool, Skipped, Dumped
    <3>5. u = x
      BY <2>2, <3>3, <3>4 DEF FlushOf
    <3>6. u = s
      <4>1. CASE DumpOf(s, x)
        <5>1. x.frefs = {}
          BY <4>1 DEF DumpOf, Dumped, Tidy, Stopped, Alike, SamePool
        <5> QED BY <3>1, <3>5, <5>1
      <4> QED BY <3>3, <3>5, <4>1 DEF RoomOf
    <3>7. r.at < u.codep /\ r.at \in Nat /\ u.codep \in Nat /\ r.at # u.codep - 1
      BY <1>1, <2>2, <3>1, <3>6, DistanceIs DEF Fits
    <3> QED BY <2>3, <3>1, <3>7
  <2>6. Fits(t) /\ Before(t, 5) /\ (Spared(v) => Spared(t))
    BY <2>2, <2>4, <2>5, FitsAfterEnd
  <2> QED BY <1>1, <2>2, <2>4, <2>6 DEF StaysFit
<1> QED BY <1>2, <1>3, <1>4, <1>6, <1>7, <1>8, <1>10, <1>11, <1>12, <1>13 DEF StepOf

LEMMA FitsTable ==
  ASSUME NEW s, StOK(s), s.codep <= MaxCode, Tidy(s), Fits(s), NEW r3 \in Tables,
         NEW t, StOK(t), CaseOf(s, t, r3)
  PROVE  StaysFit(s, t)
<1>1. PICK u, v, w : /\ Begun(s, u) /\ StOK(v) /\ Moved(u, v, 1)
                     /\ StOK(w) /\ RoomOf(v, w, r3) /\ Moved(w, t, 1)
  BY DEF CaseOf
<1>2. /\ StOK(u) /\ Tidy(u) /\ Fits(u) /\ Before(u, -1)
      /\ Before(s, 5) /\ Spared(s) => Spared(u)
  BY <1>1, TidyBegun, FitsBegun DEF Begun
<1>3. /\ 1 \in Nat /\ -1 \in Int /\ -1 + 1 \in Int /\ -1 + 1 <= 5 /\ 5 \in Int /\ 0 \in Int
      /\ 0 <= 5 /\ r3 \in Nat /\ r3 # 0
  BY SizesAre
<1>4. Fits(v) /\ Before(v, -1 + 1) /\ (Spared(u) => Spared(v))
  BY <1>1, <1>2, <1>3, FitsMoved
<1>5. Before(v, 5)
  BY <1>1, <1>3, <1>4, BeforeMore
<1>6. Tidy(v)
  BY <1>1, <1>2, TidyMoved
<1>7. w.frefs = t.frefs /\ w.mustlitby = t.mustlitby /\ t.codep = w.codep + 1
  BY <1>1 DEF Moved, SamePool
<1>8. v.codep + r3 < Infinity
  <2>1. u.codep + r3 + 1 < Infinity
    BY <1>1, BegunNear
  <2>2. u.codep \in Nat /\ v.codep = u.codep + 1 /\ Infinity \in Nat
    BY <1>1, <1>2, LenIs DEF Moved, Infinity
  <2> QED BY <1>3, <2>1, <2>2
<1>9. /\ Fits(w) /\ (w.frefs # {} => w.codep + r3 < w.mustlitby)
      /\ Spared(v) => Spared(w)
  BY <1>1, <1>3, <1>4, <1>5, <1>6, <1>8, FitsAfterRoom
<1>10. Fits(t) /\ (Spared(w) => Spared(t))
  BY <1>1, <1>3, <1>9, FitsMoved
<1>11. w.codep \in Nat /\ w.mustlitby \in Int
  BY <1>1, LenIs
<1>12. Before(t, 5)
  BY <1>3, <1>7, <1>9, <1>11 DEF Before
<1> QED BY <1>2, <1>4, <1>9, <1>10, <1>12 DEF StaysFit

LEMMA FitsEntry ==
  ASSUME NEW s, StOK(s), s.codep <= MaxCode, Tidy(s), Fits(s),
         s.incode, NEW t, StOK(t), BxxOf(s, t)
  PROVE  StaysFit(s, t)
<1>1. PICK u : StOK(u) /\ BeginOf(s, u, 0) /\ Moved(u, t, 1)
  BY DEF BxxOf
<1>2. 0 \in 0 .. LdmMax
  BY SizesAre
<1>3. u.incode
  <2>1. PICK x : RoomOf(s, x, 0) /\ FlushOf(x, u, 0)
    BY <1>1 DEF BeginOf
  <2>2. x.incode
    BY <2>1, RoomRuns
  <2> QED BY <2>1, <2>2, RoomRuns DEF FlushOf, Sent
<1>4. Begun(s, u)
  BY <1>1, <1>2, <1>3 DEF Begun
<1>5. Fits(u) /\ Before(u, -1) /\ (Before(s, 5) /\ Spared(s) => Spared(u))
  BY <1>4, FitsBegun
<1>6. 1 \in Nat /\ 1 <= 6
  OBVIOUS
<1>7. Fits(t) /\ Before(t, 5) /\ (Spared(u) => Spared(t))
  BY <1>1, <1>5, <1>6, FitsPlain
<1> QED BY <1>5, <1>7 DEF StaysFit

FitInv == OffsetsShort /\ Fits(Now) /\ (long \/ Before(Now, 5))

LEMMA FitInit == OffsetsShort /\ Init => FitInv
<1> SUFFICES ASSUME OffsetsShort, Init PROVE FitInv
  OBVIOUS
<1>1. Now.frefs = {} /\ Size(Now) = 0
  <2>1. Now.litpool = <<>>
    BY NowIs DEF Init
  <2>2. StOK(Now)
    BY TypeInit DEF TypeInv
  <2> QED BY <2>1, <2>2, EmptyIs, NowIs DEF Init
<1>2. \A p \in 1 .. 0 : FALSE
  OBVIOUS
<1> QED BY <1>1, <1>2 DEF FitInv, Fits, Placed, Before

LEMMA FitNext ==
  TypeInv /\ TidyInv /\ FitInv /\ [Next]_vars =>
    FitInv' /\ [\A r \in lost' : ~r.sure \/ long \/ long']_vars
<1> SUFFICES ASSUME TypeInv, TidyInv, FitInv, [Next]_vars
             PROVE  FitInv' /\ (UNCHANGED vars \/ \A r \in lost' : ~r.sure \/ long \/ long')
  OBVIOUS
<1>1. CASE Next
  <2>1. PICK t : /\ StOK(t) /\ Become(t)
                 /\ \/ StepOf(Now, t)
                    \/ \E r3 \in Tables : CaseOf(Now, t, r3)
                    \/ BxxOf(Now, t)
    BY <1>1, NextIs
  <2>2. /\ StOK(Now) /\ Now.codep <= MaxCode /\ Tidy(Now) /\ OffsetsShort /\ Fits(Now)
        /\ (long \/ Before(Now, 5)) /\ Now.incode
    BY <1>1, NextIs, NowIs DEF TypeInv, TidyInv, FitInv
  <2>3. PICK n : n = Now'
    OBVIOUS
  <2>4. /\ StOK(n) /\ n.codep = t.codep /\ n.litpool = t.litpool /\ n.mustlitby = t.mustlitby
        /\ n.frefs = t.frefs
    BY <2>1, <2>3, NextNow
  <2>5. lost' = t.lost /\ long' = t.long
    BY <2>1, NextNow
  <2>6. StaysFit(Now, t)
    BY <2>1, <2>2, FitsStep, FitsTable, FitsEntry
  <2>7. n.codep >= t.codep
    BY <2>1, <2>4, LenIs
  <2>8. Fits(n)
    BY <2>1, <2>4, <2>6, <2>7, FitsAlike DEF StaysFit
  <2>9. long' \/ Before(n, 5)
    BY <2>4, <2>5, <2>6 DEF Before, StaysFit
  <2>10. Spared(Now)
    BY NowIs DEF Spared
  <2>11. long \/ long' \/ \A r \in lost' : ~r.sure
    BY <2>2, <2>5, <2>6, <2>10 DEF StaysFit, Spared
  <2> QED BY <2>2, <2>3, <2>8, <2>9, <2>11 DEF FitInv
<1>2. CASE UNCHANGED vars
  BY <1>2 DEF FitInv, vars, Now
<1> QED BY <1>1, <1>2

\* Wherever the pool is emitted and whatever shares its words, an instruction
\* that finds its literal too far away is one that shares words of a string
\* further from it than any reference the limit allows for, or comes with an
\* expansion longer than addressability supposes: all others reach, whatever
\* the strings, the expansions and the offsets that leave a pool some room.
THEOREM ReferencesReach == OffsetsShort /\ Spec => InReachOrKnown
<1>1. OffsetsShort /\ Init => TidyInv /\ FitInv
  BY TidyInit, FitInit
<1>2. TypeInv /\ (TidyInv /\ FitInv) /\ [Next]_vars =>
        (TidyInv /\ FitInv)' /\ [\A r \in lost' : ~r.sure \/ long \/ long']_vars
  BY TidyNext, FitNext
<1> QED BY <1>1, <1>2, TypesHold, PTL DEF Spec, InReachOrKnown

-----------------------------------------------------------------------------
(* What the references find.                                               *)

\* The word at address a, in a pool emitted.
Emitted(t, a, w) ==
  \E j \in 1 .. Len(t.prevpools) :
    /\ a - t.prevpools[j].base + 1 \in 1 .. Len(t.prevpools[j].words)
    /\ t.prevpools[j].words[a - t.prevpools[j].base + 1] = w

At(s, a, ws) == \A i \in 1 .. Len(ws) : Emitted(s, a + (i - 1), ws[i])

\* Each waiting reference has the place of its words in the pool being collected,
\* each resolved one their address, or what it falls short of it.
Waits(s) ==
  \A r \in s.frefs : /\ r.place \in Nat /\ Holds(s.litpool, r.place, r.want)
                     /\ r.sure => r.place < r.reach

Right(s, h) == At(s, h.target + h.short, h.want) /\ (h.sure => h.short = 0)

Hits(s) == \A h \in s.hit : Right(s, h)

Good(s) == Below(s) /\ Waits(s) /\ Hits(s)

LEMMA AtKept ==
  ASSUME NEW s, NEW t, Kept(s, t), NEW a, NEW ws, At(s, a, ws)
  PROVE  At(t, a, ws)
<1>1. ASSUME NEW i \in 1 .. Len(ws) PROVE Emitted(t, a + (i - 1), ws[i])
  <2>1. Emitted(s, a + (i - 1), ws[i])
    BY DEF At
  <2>2. PICK j \in 1 .. Len(s.prevpools) :
          /\ (a + (i - 1)) - s.prevpools[j].base + 1 \in 1 .. Len(s.prevpools[j].words)
          /\ s.prevpools[j].words[(a + (i - 1)) - s.prevpools[j].base + 1] = ws[i]
    BY <2>1 DEF Emitted
  <2>3. PICK k \in 1 .. Len(t.prevpools) : t.prevpools[k] = s.prevpools[j]
    BY DEF Kept
  <2> QED BY <2>2, <2>3 DEF Emitted
<1> QED BY <1>1 DEF At

LEMMA RightKept ==
  ASSUME NEW s, NEW t, Kept(s, t), NEW h, Right(s, h)
  PROVE  Right(t, h)
BY AtKept DEF Right

LEMMA GoodAlike ==
  ASSUME NEW s, StOK(s), NEW t, Good(s), t.litpool = s.litpool, t.frefs = s.frefs,
         t.prevpools = s.prevpools, t.hit = s.hit, NEW n \in Nat, t.codep = s.codep + n
  PROVE  Good(t)
<1>1. Below(t)
  <2>1. ASSUME NEW j \in 1 .. Len(s.prevpools)
        PROVE  s.prevpools[j].base + Len(s.prevpools[j].words) <= t.codep
    <3>1. s.prevpools[j].base \in Nat /\ Len(s.prevpools[j].words) \in Nat
      BY PoolIs, LenProperties
    <3>2. s.prevpools[j].base + Len(s.prevpools[j].words) <= s.codep
      BY DEF Good, Below
    <3>3. \A x, c, m \in Nat : x <= c => x <= c + m
      OBVIOUS
    <3>4. PICK x : x = s.prevpools[j].base + Len(s.prevpools[j].words)
      OBVIOUS
    <3>5. \A b, l \in Nat : b + l \in Nat
      OBVIOUS
    <3>6. x \in Nat
      BY <3>1, <3>4, <3>5
    <3>7. s.codep \in Nat /\ x <= s.codep
      BY <3>2, <3>4, LenIs
    <3>8. x <= s.codep + n
      BY <3>3, <3>6, <3>7
    <3> QED BY <3>4, <3>8
  <2> QED BY <2>1 DEF Below
<1>2. Waits(t)
  BY DEF Good, Waits
<1>3. Kept(s, t)
  BY KeptSame
<1>4. Hits(t)
  BY <1>3, RightKept DEF Good, Hits
<1> QED BY <1>1, <1>2, <1>4 DEF Good

LEMMA GoodMoved ==
  ASSUME NEW s, StOK(s), Good(s), NEW n \in Nat, NEW t, Moved(s, t, n)
  PROVE  Good(t)
BY GoodAlike DEF Moved, SamePool

\* What is written is emitted once no pool is being collected.
LEMMA WrittenEmitted ==
  ASSUME NEW t, t.litpool = <<>>, NEW a, NEW w, Written(t, a, w)
  PROVE  Emitted(t, a, w)
<1>1. Size(t) = 0
  BY DEF Size
<1>2. \A k : ~(k \in 1 .. 0)
  OBVIOUS
<1> QED BY <1>1, <1>2 DEF Written, Emitted

\* A reference to the word d of the pool finds its words once they are written
\* from address a on.
LEMMA HoldsAt ==
  ASSUME NEW s, StOK(s), NEW d \in Nat, NEW want \in Seq(Lit), Holds(s.litpool, d, want),
         NEW t, t.litpool = <<>>, NEW a \in Nat,
         \A k \in 1 .. Size(s) : Written(t, a + (k - 1), s.litpool[k])
  PROVE  At(t, a + d, want)
<1>1. PICK n \in Nat : n = Len(want)
  BY LenProperties
<1>2. ASSUME NEW i \in 1 .. n PROVE Emitted(t, (a + d) + (i - 1), want[i])
  <2>1. PICK k : k = d + i
    OBVIOUS
  <2>2. k \in 1 .. Size(s) /\ s.litpool[k] = want[i] /\ a + (k - 1) = (a + d) + (i - 1)
    <3>1. d + n <= Size(s) /\ s.litpool[d + i] = want[i]
      BY <1>1 DEF Holds, Size
    <3>2. Size(s) \in Nat
      BY LenIs
    <3>3. k \in 1 .. Size(s)
      <4>1. \A e, m, z \in Nat : \A j \in 1 .. m : e + m <= z => e + j \in 1 .. z
        OBVIOUS
      <4> QED BY <1>1, <2>1, <3>1, <3>2, <4>1
    <3>4. a + (k - 1) = (a + d) + (i - 1)
      BY <2>1
    <3> QED BY <2>1, <3>1, <3>3, <3>4
  <2>3. Written(t, a + (k - 1), want[i])
    BY <2>2
  <2> QED BY <2>2, <2>3, WrittenEmitted
<1> QED BY <1>1, <1>2 DEF At

\* What the instruction of r loads when its words are there.
LEMMA LoadsRight ==
  ASSUME NEW s, StOK(s), NEW n \in Nat, NEW r \in s.frefs, r.place \in Nat,
         r.sure => r.place < r.reach,
         NEW t, NEW a, a = s.codep + n, At(t, a + r.place, r.want)
  PROVE  Right(t, Loads(s, n, r))
<1>1. r \in Ref /\ s.codep \in Nat
  BY LenIs
<1>2. /\ LowPlace(r) \in Nat
      /\ r.place < r.reach => LowPlace(r) = r.place
  BY <1>1, LowPlaceIs
<1>3. PICK h : h = Loads(s, n, r)
  OBVIOUS
<1>4. /\ h.target = s.codep + n + LowPlace(r) /\ h.want = r.want /\ h.sure = r.sure
      /\ h.short = r.place - LowPlace(r)
  BY <1>3 DEF Loads
<1>5. h.target + h.short = a + r.place
  BY <1>1, <1>2, <1>4
<1>6. h.sure => h.short = 0
  BY <1>2, <1>4
<1> QED BY <1>3, <1>4, <1>5, <1>6 DEF Right

LEMMA GoodDumped ==
  ASSUME NEW s, StOK(s), Good(s), NEW n \in Nat, NEW t, StOK(t), Dumped(s, t, n)
  PROVE  Good(t)
<1>1. Below(t)
  BY DumpedBelow DEF Good
<1>2. Waits(t)
  BY DEF Dumped, Waits
<1>3. /\ \A k \in 1 .. Size(s) : Written(t, s.codep + n + (k - 1), s.litpool[k])
      /\ Kept(s, t)
  BY DumpedWritten
<1>4. t.litpool = <<>> /\ t.hit = s.hit \cup Found(s, n)
  BY DEF Dumped
<1>5. ASSUME NEW h \in Found(s, n) PROVE Right(t, h)
  <2>1. PICK r \in s.frefs : h = Loads(s, n, r)
    BY DEF Found
  <2>2. r.want \in Seq(Lit)
    BY LenIs, LowPlaceIs
  <2>4. r.place \in Nat /\ Holds(s.litpool, r.place, r.want) /\ (r.sure => r.place < r.reach)
    BY DEF Good, Waits
  <2>5. PICK a : a = s.codep + n
    OBVIOUS
  <2>6. a \in Nat
    BY <2>5, LenIs
  <2>7. At(t, a + r.place, r.want)
    BY <1>3, <1>4, <2>2, <2>4, <2>5, <2>6, HoldsAt
  <2> QED BY <2>1, <2>4, <2>5, <2>7, LoadsRight
<1>6. Hits(t)
  BY <1>3, <1>4, <1>5, RightKept DEF Good, Hits
<1> QED BY <1>1, <1>2, <1>6 DEF Good

LEMMA GoodDump ==
  ASSUME NEW s, StOK(s), Good(s), NEW t, StOK(t), DumpOf(s, t)
  PROVE  Good(t)
<1>1. 0 \in Nat /\ 1 \in Nat
  OBVIOUS
<1>2. s.codep = s.codep + 0
  BY LenIs
<1>3. CASE Stopped(s, t, "dumplits1")
  BY <1>1, <1>2, <1>3, GoodAlike DEF Stopped, Alike, SamePool
<1>4. CASE Skipped(s, t)
  BY <1>1, <1>4, GoodAlike DEF Skipped, SamePool
<1>5. CASE Dumped(s, t, 1)
  BY <1>1, <1>5, GoodDumped
<1> QED BY <1>3, <1>4, <1>5 DEF DumpOf

LEMMA GoodRoom ==
  ASSUME NEW s, StOK(s), Good(s), NEW n, NEW t, StOK(t), RoomOf(s, t, n)
  PROVE  Good(t)
BY GoodDump DEF RoomOf

LEMMA GoodBegun ==
  ASSUME NEW s, StOK(s), Good(s), NEW t, Begun(s, t)
  PROVE  Good(t)
<1>1. PICK f \in 0 .. LdmMax : BeginOf(s, t, f)
  BY DEF Begun
<1>2. PICK x : StOK(x) /\ RoomOf(s, x, 0) /\ FlushOf(x, t, f)
  BY <1>1 DEF BeginOf
<1>3. Good(x)
  BY <1>2, GoodRoom
<1>4. CASE \E u : StOK(u) /\ RoomOf(x, u, LdmMax) /\ Sent(u, t, f)
  <2>1. PICK u : StOK(u) /\ RoomOf(x, u, LdmMax) /\ Sent(u, t, f)
    BY <1>4
  <2>2. Good(u)
    BY <1>2, <1>3, <2>1, GoodRoom
  <2>3. f \in Nat
    BY SizesAre
  <2> QED BY <2>1, <2>2, <2>3, GoodAlike DEF Sent
<1> QED BY <1>2, <1>3, <1>4 DEF FlushOf

LEMMA GoodAddr ==
  ASSUME NEW s, StOK(s), Good(s), NEW n, NEW t, AddrOf(s, t, n)
  PROVE  Good(t)
<1>1. PICK u : /\ StOK(u) /\ (DumpOf(s, u) \/ u = s)
               /\ SamePool(u, t) /\ t.codep = u.codep
  BY DEF AddrOf
<1>2. Good(u)
  BY <1>1, GoodDump
<1>3. 0 \in Nat /\ t.codep = u.codep + 0
  BY <1>1, LenIs
<1> QED BY <1>1, <1>2, <1>3, GoodAlike DEF SamePool

LEMMA HoldsLonger ==
  ASSUME NEW s, StOK(s), NEW t, NEW ws, NEW m \in Nat, Longer(s, t, ws, m),
         NEW d \in Nat, NEW want \in Seq(Lit), Holds(s.litpool, d, want)
  PROVE  Holds(t.litpool, d, want)
<1>1. PICK n \in Nat : n = Len(want)
  BY LenProperties
<1>2. d + n <= Size(s) /\ Size(s) \in Nat /\ Size(t) = Size(s) + m
  BY <1>1, LenIs DEF Holds, Size, Longer
<1>3. \A e, k, z, l \in Nat : e + k <= z => e + k <= z + l
  OBVIOUS
<1>4. d + n <= Size(t)
  BY <1>2, <1>3
<1>5. ASSUME NEW i \in 1 .. n PROVE t.litpool[d + i] = want[i]
  <2>1. \A e, k, z \in Nat : \A j \in 1 .. k : e + k <= z => e + j \in 1 .. z
    OBVIOUS
  <2>2. d + i \in 1 .. Size(s)
    BY <1>2, <2>1
  <2>3. s.litpool[d + i] = want[i]
    BY <1>1 DEF Holds
  <2> QED BY <2>2, <2>3 DEF Longer
<1> QED BY <1>1, <1>4, <1>5 DEF Holds, Size

\* The new words are behind those that were there.
LEMMA HoldsNew ==
  ASSUME NEW s, StOK(s), NEW t, NEW ws, Longer(s, t, ws, Len(ws))
  PROVE  Holds(t.litpool, Size(s), ws)
<1>1. Size(t) = Size(s) + Len(ws)
  BY DEF Longer
<1>2. Size(t) \in Nat => Size(s) + Len(ws) <= Size(t)
  BY <1>1
<1> QED BY <1>1 DEF Longer, Holds, Size

LEMMA GoodLonger ==
  ASSUME NEW s, StOK(s), Good(s), NEW t, NEW ws, NEW m \in Nat, Longer(s, t, ws, m)
  PROVE  Good(t)
<1>1. /\ t.codep = s.codep /\ t.prevpools = s.prevpools /\ t.frefs = s.frefs
      /\ t.hit = s.hit
  BY DEF Longer
<1>2. Below(t)
  BY <1>1 DEF Good, Below
<1>3. ASSUME NEW r \in t.frefs
      PROVE  /\ r.place \in Nat /\ Holds(t.litpool, r.place, r.want)
             /\ r.sure => r.place < r.reach
  <2>1. r \in s.frefs /\ r.want \in Seq(Lit)
    BY <1>1, LenIs, LowPlaceIs
  <2>2. r.place \in Nat /\ Holds(s.litpool, r.place, r.want) /\ (r.sure => r.place < r.reach)
    BY <2>1 DEF Good, Waits
  <2> QED BY <2>1, <2>2, HoldsLonger
<1>4. Hits(t)
  BY <1>1, KeptSame, RightKept DEF Good, Hits
<1> QED BY <1>2, <1>3, <1>4 DEF Good, Waits

LEMMA GoodForward ==
  ASSUME NEW s, StOK(s), Good(s), NEW d \in Nat, NEW reach, NEW sure \in BOOLEAN,
         sure => d < reach, NEW want, Holds(s.litpool, d, want),
         NEW t, Fwd(s, t, d, reach, want, sure)
  PROVE  Good(t)
<1>2. PICK r : r = [at |-> s.codep, place |-> d, reach |-> reach, want |-> want, sure |-> sure]
  OBVIOUS
<1>3. /\ t.frefs = s.frefs \cup {r} /\ r.place = d /\ r.want = want
      /\ r.sure = sure /\ r.reach = reach
  BY <1>2 DEF Fwd
<1>4. t.litpool = s.litpool /\ t.prevpools = s.prevpools /\ t.hit = s.hit /\ t.codep = s.codep + 1
  BY DEF Fwd
<1>5. Waits(t)
  BY <1>3, <1>4 DEF Good, Waits
<1>7. Below(t)
  <2>1. \A b, c \in Int : b <= c => b <= c + 1
    OBVIOUS
  <2>2. ASSUME NEW j \in 1 .. Len(s.prevpools)
        PROVE  s.prevpools[j].base + Len(s.prevpools[j].words) <= t.codep
    <3>1. s.prevpools[j].base \in Nat /\ Len(s.prevpools[j].words) \in Nat
      BY PoolIs, LenProperties
    <3>2. \A b, l \in Nat : b + l \in Int
      OBVIOUS
    <3>3. s.prevpools[j].base + Len(s.prevpools[j].words) \in Int
      BY <3>1, <3>2
    <3>4. s.codep \in Int
      BY LenIs
    <3>5. s.prevpools[j].base + Len(s.prevpools[j].words) <= s.codep
      BY DEF Good, Below
    <3> QED BY <1>4, <2>1, <3>3, <3>4, <3>5
  <2> QED BY <1>4, <2>2 DEF Below
<1>8. Hits(t)
  BY <1>4, KeptSame, RightKept DEF Good, Hits
<1> QED BY <1>5, <1>7, <1>8 DEF Good

\* What is found in an earlier pool is there, before the next instruction.
LEMMA InPoolAt ==
  ASSUME NEW s, StOK(s), Below(s), NEW ws \in Seq(Lit), NEW a \in Nat, InPool(s, a, ws)
  PROVE  At(s, a, ws) /\ a <= s.codep
<1>1. PICK j \in 1 .. Len(s.prevpools) :
        \E i \in Places(s.prevpools[j].words, ws) : a = s.prevpools[j].base + i
  BY DEF InPool
<1>2. PICK p \in Places(s.prevpools[j].words, ws) : a = s.prevpools[j].base + p
  BY <1>1
<1>3. PICK b, q : b = s.prevpools[j].base /\ q = s.prevpools[j].words
  OBVIOUS
<1>4. b \in Nat /\ q \in Seq(Lit)
  BY <1>3, PoolIs
<1>5. p \in Nat /\ Holds(q, p, ws)
  BY <1>2, <1>3, <1>4, PlacesAre
<1>6. PICK n, m \in Nat : n = Len(ws) /\ m = Len(q)
  BY <1>4, LenProperties
<1>7. a = b + p /\ p + n <= m /\ b + m <= s.codep /\ s.codep \in Nat
  BY <1>2, <1>3, <1>5, <1>6, LenIs DEF Holds, Below
<1>8. a <= s.codep
  <2>1. \A x, y, z, k, c \in Nat : y + k <= z /\ x + z <= c => x + y <= c
    OBVIOUS
  <2>2. b + p <= s.codep
    BY <1>4, <1>5, <1>6, <1>7, <2>1
  <2> QED BY <1>7, <2>2
<1>9. ASSUME NEW i \in 1 .. n PROVE Emitted(s, a + (i - 1), ws[i])
  <2>1. q[p + i] = ws[i]
    BY <1>5, <1>6 DEF Holds
  <2>2. PICK k : k = p + i
    OBVIOUS
  <2>3. k \in 1 .. m
    <3>1. \A e, l, z \in Nat : \A x \in 1 .. l : e + l <= z => e + x \in 1 .. z
      OBVIOUS
    <3> QED BY <1>5, <1>7, <2>2, <3>1
  <2>4. (a + (i - 1)) - b + 1 = k
    <3>1. \A x, e \in Nat : \A l \in Int : ((x + e) + (l - 1)) - x + 1 = e + l
      OBVIOUS
    <3>2. i \in Int
      OBVIOUS
    <3>3. ((b + p) + (i - 1)) - b + 1 = p + i
      BY <1>4, <1>5, <3>1, <3>2
    <3> QED BY <1>7, <2>2, <3>3
  <2> QED BY <1>3, <1>6, <2>1, <2>2, <2>3, <2>4 DEF Emitted
<1> QED BY <1>6, <1>8, <1>9 DEF At

LEMMA GoodNoted ==
  ASSUME NEW s, StOK(s), Good(s), NEW h, Right(s, h), NEW t, t.hit = s.hit \cup {h},
         t.litpool = s.litpool, t.frefs = s.frefs, t.prevpools = s.prevpools,
         NEW n \in Nat, t.codep = s.codep + n
  PROVE  Good(t)
<1>1. PICK x : x = [s EXCEPT !.codep = s.codep + n]
  OBVIOUS
<1>2. /\ x.litpool = s.litpool /\ x.frefs = s.frefs /\ x.prevpools = s.prevpools
      /\ x.hit = s.hit /\ x.codep = s.codep + n
  BY <1>1 DEF StOK, St
<1>3. Good(x)
  BY <1>2, GoodAlike
<1>4. Below(t) /\ Waits(t)
  BY <1>2, <1>3 DEF Good, Below, Waits
<1>5. Hits(t)
  BY KeptSame, RightKept DEF Good, Hits
<1> QED BY <1>4, <1>5 DEF Good

\* With an offset the address falls short of the words by two.
LEMMA GoodBackward ==
  ASSUME NEW s, StOK(s), Good(s), NEW ws \in Seq(Lit), NEW reach \in {Near, Far},
         NEW a \in Nat, NEW off \in Nat, a >= s.codep + 2 - (reach - 1) + off, InPool(s, a, ws),
         NEW d, d = s.codep + 2 - a + off,
         NEW t, NEW want, At(s, a + off, want), Back(s, t, d, off, reach, want)
  PROVE  Good(t)
<1>1. s.codep \in Nat /\ reach \in Nat /\ reach > 5
  BY LenIs, Reaches
<1>2. a <= s.codep
  BY InPoolAt DEF Good
<1>3. d \in Nat /\ d < reach /\ s.codep + 2 - d = a - off
  <2>1. PICK c \in Nat : c = s.codep
    BY <1>1
  <2>2. a >= c + 2 - (reach - 1) + off /\ d = c + 2 - a + off /\ a <= c
    BY <1>2, <2>1
  <2>4. d \in Int
    BY <2>1, <2>2
  <2>5. PICK e \in Int : e = d
    BY <2>4
  <2>6. PICK n \in Nat : n = reach
    BY <1>1
  <2>7. a >= c + 2 - (n - 1) + off /\ e = c + 2 - a + off /\ a <= c
    BY <2>2, <2>5, <2>6
  <2>8. e \in Nat /\ e < n /\ c + 2 - e = a - off
    BY <2>7
  <2>3. d \in Nat /\ d < reach /\ c + 2 - d = a - off
    BY <2>5, <2>6, <2>8
  <2> QED BY <2>1, <2>3
<1>4. d % reach = d
  <2>1. reach > 0 /\ reach \in Nat
    BY <1>1
  <2>2. d \in Int /\ 0 <= d /\ d < reach
    BY <1>3
  <2> QED BY <2>1, <2>2, LowBits
<1>5. PICK h : h = Reads(s, d, off, reach, want)
  OBVIOUS
<1>6. h.target = a - off /\ h.want = want /\ h.sure = (off = 0) /\ h.short = 2 * off
  <2>1. PICK e : e = d % reach
    OBVIOUS
  <2>2. s.codep + 2 - e = a - off
    BY <1>3, <1>4, <2>1
  <2>3. Reads(s, d, off, reach, want) =
          [target |-> s.codep + 2 - e, want |-> want, sure |-> off = 0, short |-> 2 * off]
    BY <2>1, Zenon DEF Reads
  <2> QED BY <1>5, <2>2, <2>3
<1>7. h.target + h.short = a + off
  BY <1>6
<1>8. h.sure => h.short = 0
  <2>1. CASE off = 0
    BY <1>6, <2>1
  <2>2. CASE off # 0
    BY <1>6, <2>2, Zenon
  <2> QED BY <2>1, <2>2
<1>9. Right(s, h)
  BY <1>6, <1>7, <1>8 DEF Right
<1>10. t.hit = s.hit \cup {h} /\ 1 \in Nat
  BY <1>5 DEF Back
<1> QED BY <1>9, <1>10, GoodNoted DEF Back

\* A literal in the pool is within reach of the next instruction.
LEMMA HereNear ==
  ASSUME NEW s, StOK(s), Fits(s), NEW ws \in Seq(Lit), NEW reach \in {Near, Far},
         Literal(ws, reach), NEW p \in Places(s.litpool, ws)
  PROVE  p \in Nat /\ p < reach /\ Holds(s.litpool, p, ws)
<1>1. PICK n \in {1, 2} : n = Len(ws)
  BY DEF Literal
<1>2. Len(ws) # 0
  <2>1. \A k \in {1, 2} : k # 0
    OBVIOUS
  <2> QED BY <1>1, <2>1
<1>3. p \in Nat /\ p + n <= Size(s) /\ Holds(s.litpool, p, ws)
  BY <1>1, <1>2, PlaceUsed
<1>4. s.litpool[p + 1] = ws[1]
  <2>1. 1 \in 1 .. n
    OBVIOUS
  <2> QED BY <1>1, <1>3, <2>1 DEF Holds
<1>5. p + 1 \in 1 .. Size(s)
  BY <1>3, LenIs
<1>6. Within(s, p + 1, reach)
  BY <1>4, <1>5 DEF Literal, Fits, Placed
<1>7. reach \in Nat
  BY Reaches
<1>8. p < reach
  BY <1>3, <1>6, <1>7 DEF Within
<1> QED BY <1>3, <1>8

LEMMA GoodEntered ==
  ASSUME NEW s, StOK(s), Tidy(s), Good(s), s.codep + 2 * PoolMax < Infinity + 4,
         NEW ws \in Seq(Lit), NEW reach \in {Near, Far}, Literal(ws, reach),
         NEW t, StOK(t), EnteredOf(s, t, ws, reach)
  PROVE  Good(t)
<1>1. PICK u, v : /\ StOK(u) /\ AddrOf(s, u, reach) /\ StOK(v) /\ OutlitsOf(u, v, ws)
                  /\ Fwd(v, t, Size(v) - Len(ws), reach, ws, TRUE)
  BY DEF EnteredOf
<1>2. reach \in Nat /\ reach > 5 /\ reach <= PoolMax /\ PoolMax \in Nat
  BY Reaches
<1>3. Good(u) /\ Size(u) \in Nat /\ Size(u) < reach - 5
  <2>1. Ready(u) /\ Size(u) < reach - 5
    BY <1>1, <1>2, ReadyAddr
  <2> QED BY <1>1, <2>1, GoodAddr, LenIs
<1>4. PICK n \in {1, 2} : n = Len(ws)
  BY DEF Literal
<1>5. Size(u) + n <= PoolMax /\ n \in Nat
  BY <1>2, <1>3
<1>6. Longer(u, v, ws, n)
  BY <1>1, <1>2, <1>3, <1>4, <1>5 DEF OutlitsOf
<1>7. Good(v)
  BY <1>1, <1>3, <1>5, <1>6, GoodLonger
<1>8. Holds(v.litpool, Size(u), ws)
  BY <1>1, <1>4, <1>6, HoldsNew
<1>9. PICK d : d = Size(u)
  OBVIOUS
<1>10. Size(v) = Size(u) + n
  BY <1>6 DEF Longer
<1>11. Size(v) - n = d /\ d \in Nat /\ d < reach
  BY <1>2, <1>3, <1>5, <1>9, <1>10
<1>13. PICK b \in BOOLEAN : b = TRUE
  OBVIOUS
<1>12. Fwd(v, t, d, reach, ws, b)
  BY <1>1, <1>4, <1>11, <1>13
<1> QED BY <1>1, <1>7, <1>8, <1>9, <1>11, <1>12, GoodForward

LEMMA GoodRefer ==
  ASSUME NEW s, StOK(s), Tidy(s), Fits(s), Good(s), s.codep + 2 * PoolMax < Infinity + 4,
         NEW ws \in Seq(Lit), NEW reach \in {Near, Far}, Literal(ws, reach),
         NEW t, StOK(t), ReferOf(s, t, ws, reach)
  PROVE  Good(t)
<1>1. CASE \E p \in Places(s.litpool, ws) : Fwd(s, t, p, reach, ws, TRUE)
  <2>1. PICK p \in Places(s.litpool, ws) : Fwd(s, t, p, reach, ws, TRUE)
    BY <1>1
  <2>2. p \in Nat /\ p < reach /\ Holds(s.litpool, p, ws)
    BY HereNear
  <2>3. PICK b \in BOOLEAN : b = TRUE
    OBVIOUS
  <2>4. Fwd(s, t, p, reach, ws, b)
    BY <2>1, <2>3
  <2> QED BY <2>2, <2>4, GoodForward
<1>2. CASE \E a \in Nat : /\ a >= s.codep + 2 - (reach - 1) /\ InPool(s, a, ws)
                          /\ Back(s, t, s.codep + 2 - a, 0, reach, ws)
  <2>1. PICK a \in Nat : /\ a >= s.codep + 2 - (reach - 1) /\ InPool(s, a, ws)
                         /\ Back(s, t, s.codep + 2 - a, 0, reach, ws)
    BY <1>2
  <2>2. At(s, a, ws)
    BY <2>1, InPoolAt DEF Good
  <2>3. PICK d : d = s.codep + 2 - a
    OBVIOUS
  <2>4. PICK z \in Nat : z = 0
    OBVIOUS
  <2>5. s.codep \in Nat /\ reach \in Nat
    BY LenIs, Reaches
  <2>6. a + z = a /\ d = s.codep + 2 - a + z /\ a >= s.codep + 2 - (reach - 1) + z
    BY <2>1, <2>3, <2>4, <2>5
  <2>7. At(s, a + z, ws) /\ InPool(s, a, ws) /\ Back(s, t, d, z, reach, ws)
    BY <2>1, <2>2, <2>3, <2>4, <2>6
  <2> QED BY <2>6, <2>7, GoodBackward
<1>3. CASE EnteredOf(s, t, ws, reach)
  BY <1>3, GoodEntered
<1> QED BY <1>1, <1>2, <1>3 DEF ReferOf

\* What is wanted of a string, from an offset on.
Rest(ws, off, want) ==
  Len(want) = Len(ws) - off /\ \A k \in 1 .. Len(ws) - off : want[k] = ws[off + k]

LEMMA HoldsRest ==
  ASSUME NEW pool \in Seq(Lit), NEW p \in Nat, NEW ws \in Seq(Lit), NEW off \in Nat,
         off < Len(ws), NEW want, Rest(ws, off, want), Holds(pool, p, ws)
  PROVE  Holds(pool, p + off, want)
<1>1. PICK n, l \in Nat : n = Len(ws) /\ l = Len(pool)
  BY LenProperties
<1>2. PICK m \in Nat : m = n - off
  <2>1. n \in Nat /\ off < n
    BY <1>1
  <2>2. n - off \in Nat
    BY <2>1
  <2> QED BY <2>2
<1>3. Len(want) = m /\ \A k \in 1 .. m : want[k] = ws[off + k]
  BY <1>1, <1>2 DEF Rest
<1>4. p + n <= l /\ \A k \in 1 .. n : pool[p + k] = ws[k]
  BY <1>1 DEF Holds
<1>5. (p + off) + m <= l
  BY <1>1, <1>2, <1>4
<1>6. ASSUME NEW k \in 1 .. m PROVE pool[(p + off) + k] = want[k]
  <2>1. PICK i : i = off + k
    OBVIOUS
  <2>2. i \in 1 .. n /\ p + i = (p + off) + k
    BY <1>1, <1>2, <2>1
  <2>3. pool[p + i] = ws[i]
    BY <1>4, <2>2
  <2> QED BY <1>3, <2>1, <2>2, <2>3
<1> QED BY <1>1, <1>3, <1>5, <1>6 DEF Holds

LEMMA AtRest ==
  ASSUME NEW s, NEW a \in Int, NEW ws \in Seq(Lit), NEW off \in Nat, off < Len(ws),
         NEW want, Rest(ws, off, want), At(s, a, ws)
  PROVE  At(s, a + off, want)
<1>1. PICK n \in Nat : n = Len(ws)
  BY LenProperties
<1>2. PICK m \in Nat : m = n - off
  <2>1. n \in Nat /\ off < n
    BY <1>1
  <2>2. n - off \in Nat
    BY <2>1
  <2> QED BY <2>2
<1>3. Len(want) = m /\ \A k \in 1 .. m : want[k] = ws[off + k]
  BY <1>1, <1>2 DEF Rest
<1>4. ASSUME NEW k \in 1 .. m PROVE Emitted(s, (a + off) + (k - 1), want[k])
  <2>1. PICK i : i = off + k
    OBVIOUS
  <2>2. i \in 1 .. n /\ a + (i - 1) = (a + off) + (k - 1)
    BY <1>1, <1>2, <2>1
  <2>3. Emitted(s, a + (i - 1), ws[i])
    BY <1>1, <2>2 DEF At
  <2> QED BY <1>3, <2>1, <2>2, <2>3
<1> QED BY <1>3, <1>4 DEF At

LEMMA GoodNewString ==
  ASSUME NEW s, StOK(s), Tidy(s), Good(s), s.codep + 2 * PoolMax < Infinity + 4,
         NEW ws \in Seq(Lit), NEW off \in Nat, off < Len(ws), off < Near - 5,
         NEW want \in Seq(Lit), Rest(ws, off, want), NEW add \in Nat,
         NEW t, StOK(t), NewStringOf(s, t, ws, off, want, add)
  PROVE  Good(t)
<1>1. PICK u, v, w : /\ StOK(u) /\ AddrOf(s, u, Near - off)
                     /\ StOK(v) /\ Fwd(u, v, Size(u) + off, Near, want, TRUE)
                     /\ StOK(w) /\ OutlitsOf(v, w, ws) /\ Moved(w, t, add)
  BY DEF NewStringOf
<1>2. PICK reach : reach = Near - off
  OBVIOUS
<1>13. /\ Near \in Nat /\ reach \in Nat /\ reach > 5 /\ reach <= PoolMax /\ PoolMax \in Nat
       /\ Size(u) \in Nat /\ u.codep \in Nat /\ Size(v) \in Nat
  BY <1>1, <1>2, LenIs, Reaches
<1>3. PICK d : d = Size(u)
  OBVIOUS
<1>14. PICK e : e = d + off
  OBVIOUS
<1>4. Good(u) /\ d \in Nat /\ e \in Nat /\ e < Near
  <2>1. AddrOf(s, u, reach)
    BY <1>1, <1>2
  <2>2. Ready(u) /\ Size(u) < reach - 5
    BY <1>1, <1>13, <2>1, ReadyAddr
  <2>3. d \in Nat /\ e \in Nat /\ e < Near
    BY <1>2, <1>3, <1>13, <1>14, <2>2
  <2> QED BY <1>1, <2>1, <2>3, GoodAddr
<1>5. PICK n \in Nat : n = Len(ws)
  BY LenProperties
<1>15. PICK b \in BOOLEAN : b = TRUE
  OBVIOUS
<1>6. PICK r : r = [at |-> u.codep, place |-> e, reach |-> Near, want |-> want, sure |-> b]
  OBVIOUS
<1>7. /\ v.frefs = u.frefs \cup {r} /\ r.place = e /\ r.want = want /\ r.reach = Near
      /\ v.litpool = u.litpool /\ v.prevpools = u.prevpools /\ v.hit = u.hit
      /\ v.codep = u.codep + 1 /\ Size(v) = d
  <2>1. Fwd(u, v, e, Near, want, b)
    BY <1>1, <1>3, <1>14, <1>15
  <2> QED BY <1>3, <1>6, <2>1 DEF Fwd, Size
<1>8. PICK x : x = [v EXCEPT !.frefs = u.frefs]
  OBVIOUS
<1>9. /\ StOK(x) /\ x.frefs = u.frefs /\ x.litpool = v.litpool /\ x.prevpools = v.prevpools
      /\ x.hit = v.hit /\ x.codep = v.codep
  <2>1. v \in St /\ u.frefs \in SUBSET Ref
    BY <1>1, LenIs
  <2>2. /\ x \in St /\ x.frefs = u.frefs /\ x.litpool = v.litpool /\ x.prevpools = v.prevpools
        /\ x.hit = v.hit /\ x.codep = v.codep /\ x.mustlitby = v.mustlitby
    BY <1>8, <2>1 DEF St
  <2> QED BY <1>1, <2>2 DEF StOK, Size
<1>10. Good(x)
  <2>1. 1 \in Nat
    OBVIOUS
  <2> QED BY <1>1, <1>4, <1>7, <1>9, <2>1, GoodAlike
<1>16. ASSUME NEW q \in v.frefs
       PROVE  /\ q.place \in Nat /\ (q.sure => q.place < q.reach)
              /\ q \in u.frefs \/ (q.place = e /\ q.want = want)
  BY <1>4, <1>7 DEF Good, Waits
<1>11. CASE Longer(v, w, ws, n)
  <2>1. Holds(w.litpool, e, want)
    <3>1. Holds(w.litpool, d, ws)
      BY <1>1, <1>5, <1>7, <1>11, HoldsNew
    <3>2. w.litpool \in Seq(Lit)
      BY <1>1, LenIs
    <3> QED BY <1>4, <1>14, <3>1, <3>2, HoldsRest
  <2>2. /\ w.codep = v.codep /\ w.frefs = v.frefs /\ w.prevpools = v.prevpools /\ w.hit = v.hit
    BY <1>11 DEF Longer
  <2>3. Below(w)
    BY <1>9, <1>10, <2>2 DEF Good, Below
  <2>4. Hits(w)
    BY <1>1, <1>9, <1>10, <2>2, KeptSame, RightKept DEF Good, Hits
  <2>5. ASSUME NEW q \in u.frefs PROVE Holds(w.litpool, q.place, q.want)
    <3>1. q.want \in Seq(Lit)
      BY <1>1, LenIs, LowPlaceIs
    <3>2. q.place \in Nat /\ Holds(v.litpool, q.place, q.want)
      BY <1>4, <1>7 DEF Good, Waits
    <3> QED BY <1>1, <1>11, <3>1, <3>2, HoldsLonger
  <2>6. Waits(w)
    BY <1>16, <2>1, <2>2, <2>5 DEF Waits
  <2>7. Good(w)
    BY <2>3, <2>4, <2>6 DEF Good
  <2> QED BY <1>1, <2>7, GoodMoved
<1>12. CASE Spilt(v, w, ws, n) /\ w.litpool = <<>>
  <2>1. /\ Kept(v, w) /\ Below(w) /\ w.frefs = {} /\ w.hit = v.hit \cup Found(v, 1)
    BY <1>9, <1>10, <1>12 DEF Spilt, Good, Below
  <2>2. Waits(w)
    BY <2>1 DEF Waits
  <2>3. PICK a : a = v.codep + 1
    OBVIOUS
  <2>4. a \in Nat /\ v.codep \in Nat
    <3>1. v.codep \in Nat
      BY <1>1, LenIs
    <3> QED BY <2>3, <3>1
  <2>5. ASSUME NEW k \in 1 .. Size(v) PROVE Written(w, a + (k - 1), v.litpool[k])
    <3>1. Written(w, v.codep + k, v.litpool[k])
      BY <1>12 DEF Spilt
    <3>2. v.codep + k = a + (k - 1)
      BY <1>13, <2>3, <2>4
    <3> QED BY <3>1, <3>2
  <2>6. ASSUME NEW q \in u.frefs PROVE At(w, a + q.place, q.want)
    <3>1. q.want \in Seq(Lit)
      BY <1>1, LenIs, LowPlaceIs
    <3>2. q.place \in Nat /\ Holds(v.litpool, q.place, q.want)
      BY <1>4, <1>7 DEF Good, Waits
    <3> QED BY <1>1, <1>12, <2>4, <2>5, <3>1, <3>2, HoldsAt
  <2>7. At(w, a + e, want)
    <3>1. ASSUME NEW k \in 1 .. n PROVE Emitted(w, (a + d) + (k - 1), ws[k])
      <4>1. Written(w, v.codep + Size(v) + k, ws[k])
        BY <1>12 DEF Spilt
      <4>2. v.codep + Size(v) + k = (a + d) + (k - 1)
        <5>1. PICK c \in Nat : c = v.codep
          BY <2>4
        <5>2. a = c + 1 /\ Size(v) = d /\ d \in Nat
          BY <1>4, <1>7, <2>3, <5>1
        <5>3. c + d + k = (a + d) + (k - 1)
          <6>1. k \in Int /\ a \in Int
            BY <5>1, <5>2
          <6>2. PICK i \in Nat : i = d
            BY <5>2
          <6>3. PICK j \in Int : j = k
            BY <6>1
          <6>4. PICK g \in Int : g = a /\ g = c + 1
            BY <5>2, <6>1
          <6>5. c + i + j = (g + i) + (j - 1)
            BY <6>4
          <6> QED BY <6>2, <6>3, <6>4, <6>5
        <5> QED BY <5>1, <5>2, <5>3
      <4> QED BY <1>12, <4>1, <4>2, WrittenEmitted
    <3>2. At(w, a + d, ws)
      BY <1>5, <3>1 DEF At
    <3>3. PICK c \in Int : c = a + d /\ c + off = a + e
      BY <1>4, <1>14, <2>4
    <3>4. At(w, c + off, want)
      BY <3>2, <3>3, AtRest
    <3> QED BY <3>3, <3>4
  <2>8. ASSUME NEW h \in Found(v, 1) PROVE Right(w, h)
    <3>1. PICK q \in v.frefs : h = Loads(v, 1, q)
      BY DEF Found
    <3>2. At(w, a + q.place, q.want)
      BY <1>16, <2>6, <2>7
    <3>3. 1 \in Nat
      OBVIOUS
    <3> QED BY <1>1, <1>16, <2>3, <3>1, <3>2, <3>3, LoadsRight
  <2>9. Hits(w)
    <3>1. ASSUME NEW h \in v.hit PROVE Right(w, h)
      <4>1. Right(x, h)
        BY <1>9, <1>10 DEF Good, Hits
      <4>2. Kept(x, w)
        BY <1>9, <2>1 DEF Kept
      <4> QED BY <4>1, <4>2, RightKept
    <3> QED BY <2>1, <2>8, <3>1 DEF Hits
  <2>10. Good(w)
    BY <2>1, <2>2, <2>9 DEF Good
  <2> QED BY <1>1, <2>10, GoodMoved
<1> QED BY <1>1, <1>5, <1>11, <1>12 DEF OutlitsOf

LEMMA GoodReferString ==
  ASSUME NEW s, StOK(s), Tidy(s), Fits(s), Before(s, -1), Good(s),
         s.codep + 2 * PoolMax < Infinity + 4,
         NEW str \in Strings, NEW off \in Nat, off < Near - 5, NEW add \in {0, 1},
         NEW ws \in Seq(Lit), ws = Words(str), off < Len(ws),
         NEW want \in Seq(Lit), Rest(ws, off, want),
         NEW t, StOK(t), ReferStringOf(s, t, Words(str), off, want, add)
  PROVE  Good(t)
<1>2. add \in Nat /\ s.codep \in Nat /\ s.litpool \in Seq(Lit) /\ Near \in Nat
  BY LenIs, Reaches
<1>3. ReferStringOf(s, t, ws, off, want, add)
  OBVIOUS
<1>4. CASE \E p \in Places(s.litpool, ws) : \E v :
             StOK(v) /\ Fwd(s, v, p + off, Near, want, NoFurther(s, p + off)) /\ Moved(v, t, add)
  <2>1. PICK p \in Places(s.litpool, ws) : \E v :
             StOK(v) /\ Fwd(s, v, p + off, Near, want, NoFurther(s, p + off)) /\ Moved(v, t, add)
    BY <1>4
  <2>2. PICK v : StOK(v) /\ Fwd(s, v, p + off, Near, want, NoFurther(s, p + off)) /\ Moved(v, t, add)
    BY <2>1
  <2>3. p \in Nat /\ Holds(s.litpool, p, ws)
    BY <1>2, PlacesAre
  <2>4. PICK q \in Nat : q = p + off
    BY <2>3
  <2>5. Holds(s.litpool, q, want)
    BY <1>2, <2>3, <2>4, HoldsRest
  <2>6. NoFurther(s, q) \in BOOLEAN
    BY DEF NoFurther
  <2>7. PICK b \in BOOLEAN : b = NoFurther(s, q)
    BY <2>6
  <2>8. ASSUME b PROVE q < Near
    <3>1. NoFurther(s, q)
      BY <2>7, <2>8, Zenon
    <3>2. q \in Int
      OBVIOUS
    <3> QED BY <3>1, <3>2, NoFurtherReaches
  <2>9. Fwd(s, v, q, Near, want, b)
    BY <2>2, <2>4, <2>7
  <2>10. Good(v)
    BY <2>5, <2>8, <2>9, GoodForward
  <2> QED BY <1>2, <2>2, <2>10, GoodMoved
<1>5. CASE \E a \in Nat : \E v :
             /\ a >= s.codep + 2 - (Near - 1) + off /\ InPool(s, a, ws)
             /\ StOK(v) /\ Back(s, v, s.codep + 2 - a + off, off, Near, want) /\ Moved(v, t, add)
  <2>1. PICK a \in Nat : \E v :
             /\ a >= s.codep + 2 - (Near - 1) + off /\ InPool(s, a, ws)
             /\ StOK(v) /\ Back(s, v, s.codep + 2 - a + off, off, Near, want) /\ Moved(v, t, add)
    BY <1>5
  <2>2. PICK v : StOK(v) /\ Back(s, v, s.codep + 2 - a + off, off, Near, want) /\ Moved(v, t, add)
    BY <2>1
  <2>3. PICK d : d = s.codep + 2 - a + off
    OBVIOUS
  <2>4. a >= s.codep + 2 - (Near - 1) + off /\ InPool(s, a, ws) /\ Back(s, v, d, off, Near, want)
    BY <2>1, <2>2, <2>3
  <2>5. At(s, a + off, want)
    <3>1. At(s, a, ws) /\ a \in Int
      BY <2>4, InPoolAt DEF Good
    <3> QED BY <3>1, AtRest
  <2>6. Good(v)
    BY <2>3, <2>4, <2>5, GoodBackward
  <2> QED BY <1>2, <2>2, <2>6, GoodMoved
<1>6. CASE \E a \in Nat : \E v :
             /\ InPool(s, a, ws) /\ StOK(v) /\ v.incode /\ Noted(s, v, a + off, want)
             /\ ReferOf(v, t, Adcon("code", 4 * (a + off) + add), Far)
  <2>1. PICK a \in Nat : \E v :
             /\ InPool(s, a, ws) /\ StOK(v) /\ v.incode /\ Noted(s, v, a + off, want)
             /\ ReferOf(v, t, Adcon("code", 4 * (a + off) + add), Far)
    BY <1>6
  <2>2. PICK v : /\ StOK(v) /\ v.incode /\ Noted(s, v, a + off, want)
                 /\ ReferOf(v, t, Adcon("code", 4 * (a + off) + add), Far)
    BY <2>1
  <2>3. /\ v.codep = s.codep /\ v.litpool = s.litpool /\ v.mustlitby = s.mustlitby
        /\ v.frefs = s.frefs /\ v.err = s.err /\ v.prevpools = s.prevpools
        /\ v.hit = s.hit \cup {AtOnce(a + off, want)}
    BY <2>2 DEF Noted
  <2>4. a + off \in Int /\ (a + off) + 0 = a + off /\ 0 \in Nat /\ s.codep + 0 = s.codep
    BY <1>2
  <2>5. At(s, a + off, want)
    <3>1. At(s, a, ws) /\ a \in Int
      BY <2>1, InPoolAt DEF Good
    <3> QED BY <3>1, AtRest
  <2>15. PICK h : h = AtOnce(a + off, want)
    OBVIOUS
  <2>16. Right(s, h)
    <3>1. h.target = a + off /\ h.want = want /\ h.short = 0
      BY <2>15 DEF AtOnce
    <3> QED BY <2>4, <2>5, <3>1 DEF Right
  <2>6. Good(v)
    BY <2>3, <2>4, <2>15, <2>16, GoodNoted
  <2>7. Tidy(v) /\ Fits(v)
    <3>1. v.codep >= s.codep
      BY <1>2, <2>3
    <3> QED BY <2>2, <2>3, <3>1, TidyAlike, FitsAlike
  <2>8. PICK k : k = 4 * (a + off) + add
    OBVIOUS
  <2>9. k \in Int
    BY <1>2, <2>8
  <2>10. "code" \in Symbols
    BY DEF Symbols
  <2>11. PICK xs : xs = Adcon("code", k)
    OBVIOUS
  <2>12. xs \in Seq(Lit) /\ Literal(xs, Far)
    BY <2>9, <2>10, <2>11, AdconIs, LiteralsAre
  <2>13. ReferOf(v, t, xs, Far)
    BY <2>2, <2>8, <2>11
  <2>14. v.codep + 2 * PoolMax < Infinity + 4
    BY <2>3
  <2> QED BY <2>2, <2>6, <2>7, <2>12, <2>13, <2>14, GoodRefer
<1>7. CASE NewStringOf(s, t, ws, off, want, add)
  BY <1>2, <1>7, GoodNewString
<1> QED BY <1>3, <1>4, <1>5, <1>6, <1>7 DEF ReferStringOf

LEMMA GoodStep ==
  ASSUME OffsetsShort, NEW s, StOK(s), s.codep <= MaxCode, Tidy(s), Fits(s), Good(s),
         NEW t, StOK(t), StepOf(s, t)
  PROVE  Good(t)
<1>1. ASSUME NEW u, Begun(s, u)
      PROVE  /\ StOK(u) /\ Tidy(u) /\ Fits(u) /\ Before(u, -1) /\ Good(u)
             /\ u.codep \in Nat /\ u.codep + 2 * PoolMax < Infinity + 4
  <2>1. u.codep + 0 + 2 * PoolMax < Infinity + 4
    BY <1>1, BegunNear
  <2>2. StOK(u) /\ Tidy(u) /\ Fits(u) /\ Before(u, -1) /\ Good(u)
    BY <1>1, TidyBegun, FitsBegun, GoodBegun DEF Begun
  <2>3. u.codep \in Nat /\ PoolMax \in Nat /\ Infinity \in Nat
    BY <2>2, LenIs, Reaches DEF Infinity
  <2>4. u.codep + 2 * PoolMax < Infinity + 4
    BY <2>1, <2>3
  <2> QED BY <2>2, <2>3, <2>4
<1>2. ASSUME NEW x, PlainOf(s, x) PROVE Good(x)
  <2>1. PICK u : \E n \in Sizes : Begun(s, u) /\ Moved(u, x, n)
    BY <1>2 DEF PlainOf
  <2>2. PICK n \in Sizes : Begun(s, u) /\ Moved(u, x, n)
    BY <2>1
  <2>3. n \in Nat
    BY SizesAre
  <2> QED BY <1>1, <2>2, <2>3, GoodMoved
<1>3. ASSUME HoldOf(s, t) PROVE Good(t)
  <2>1. PICK u : StOK(u) /\ (RoomOf(s, u, 0) \/ PlainOf(s, u)) /\ Held(u, t)
    BY <1>3 DEF HoldOf
  <2>2. Good(u)
    BY <1>2, <2>1, GoodRoom
  <2>3. 0 \in Nat /\ t.codep = u.codep + 0
    BY <2>1, LenIs DEF Held
  <2> QED BY <2>1, <2>2, <2>3, GoodAlike DEF Held
<1>4. ASSUME NumberOf(s, t) PROVE Good(t)
  <2>1. PICK u, v, w : \E b \in Sizes, a \in Sizes, n \in Numbers :
          /\ Begun(s, u) /\ StOK(v) /\ v.incode /\ Moved(u, v, b)
          /\ StOK(w) /\ ReferOf(v, w, Number(n), Far) /\ Moved(w, t, a)
    BY <1>4 DEF NumberOf
  <2>2. PICK b \in Sizes, a \in Sizes, n \in Numbers :
          /\ Begun(s, u) /\ StOK(v) /\ v.incode /\ Moved(u, v, b)
          /\ StOK(w) /\ ReferOf(v, w, Number(n), Far) /\ Moved(w, t, a)
    BY <2>1
  <2>3. a \in Nat /\ b \in Nat
    BY SizesAre
  <2>4. Tidy(v) /\ Fits(v) /\ Good(v)
    BY <1>1, <2>2, <2>3, TidyMoved, FitsMoved, GoodMoved
  <2>5. v.codep + 2 * PoolMax < Infinity + 4
    BY <2>2, BegunNear DEF Moved
  <2>6. PICK xs : xs = Number(n)
    OBVIOUS
  <2>7. xs \in Seq(Lit) /\ Literal(xs, Far) /\ ReferOf(v, w, xs, Far)
    BY <2>2, <2>6, NumberIs, LiteralsAre
  <2>8. Good(w)
    BY <2>2, <2>4, <2>5, <2>7, GoodRefer
  <2> QED BY <2>2, <2>3, <2>8, GoodMoved
<1>5. ASSUME NEW xs \in Seq(Lit), NEW reach \in {Near, Far}, Literal(xs, reach),
             NEW u, Begun(s, u), ReferOf(u, t, xs, reach)
      PROVE  Good(t)
  BY <1>1, <1>5, GoodRefer
<1>6. ASSUME AdconOf(s, t) PROVE Good(t)
  <2>1. PICK u : \E x \in Adcons : Begun(s, u) /\ ReferOf(u, t, Adcon(x, 0), Far)
    BY <1>6 DEF AdconOf
  <2>2. PICK x \in Adcons : Begun(s, u) /\ ReferOf(u, t, Adcon(x, 0), Far)
    BY <2>1
  <2>3. x \in Symbols /\ 0 \in Int
    <3>1. 0 \in Int
      OBVIOUS
    <3> QED BY <3>1 DEF Symbols
  <2>4. PICK xs : xs = Adcon(x, 0)
    OBVIOUS
  <2>5. xs \in Seq(Lit) /\ Literal(xs, Far) /\ ReferOf(u, t, xs, Far)
    BY <2>2, <2>3, <2>4, AdconIs, LiteralsAre
  <2> QED BY <1>5, <2>2, <2>5
<1>7. ASSUME DoubleOf(s, t) PROVE Good(t)
  <2>1. PICK u : \E p \in Pairs : Begun(s, u) /\ ReferOf(u, t, Double(p), Near)
    BY <1>7 DEF DoubleOf
  <2>2. PICK p \in Pairs : Begun(s, u) /\ ReferOf(u, t, Double(p), Near)
    BY <2>1
  <2>3. PICK xs : xs = Double(p)
    OBVIOUS
  <2>4. xs \in Seq(Lit) /\ Literal(xs, Near) /\ ReferOf(u, t, xs, Near)
    BY <2>2, <2>3, DoubleIs, LiteralsAre
  <2> QED BY <1>5, <2>2, <2>4
<1>8. ASSUME StringOf(s, t) PROVE Good(t)
  <2>1. PICK u : \E str \in Strings, off \in Offsets, add \in {0, 1} :
          /\ off < Len(str) /\ Begun(s, u)
          /\ ReferStringOf(u, t, Words(str), off, SubSeq(Words(str), off + 1, Len(str)), add)
    BY <1>8 DEF StringOf
  <2>2. PICK str \in Strings, off \in Offsets, add \in {0, 1} :
          /\ off < Len(str) /\ Begun(s, u)
          /\ ReferStringOf(u, t, Words(str), off, SubSeq(Words(str), off + 1, Len(str)), add)
    BY <2>1
  <2>3. off \in Nat /\ off < Near - 5
    BY SizesAre DEF OffsetsShort
  <2>4. PICK ws : ws = Words(str)
    OBVIOUS
  <2>5. PICK want : want = SubSeq(ws, off + 1, Len(ws))
    OBVIOUS
  <2>6. ws \in Seq(Lit) /\ off < Len(ws) /\ Len(ws) = Len(str)
    BY <2>2, <2>4, WordsIs
  <2>7. want \in Seq(Lit) /\ Rest(ws, off, want)
    BY <2>3, <2>5, <2>6, TailIs DEF Rest
  <2>8. ReferStringOf(u, t, Words(str), off, want, add)
    BY <2>2, <2>4, <2>5, <2>6
  <2> QED BY <1>1, <2>2, <2>3, <2>4, <2>6, <2>7, <2>8, GoodReferString
<1>9. ASSUME MultiplyOf(s, t) PROVE Good(t)
  <2>1. PICK u, v : \E n \in MulSizes :
          Begun(s, u) /\ StOK(v) /\ RoomOf(u, v, 0) /\ Moved(v, t, n)
    BY <1>9 DEF MultiplyOf
  <2>2. PICK n \in MulSizes : Begun(s, u) /\ StOK(v) /\ RoomOf(u, v, 0) /\ Moved(v, t, n)
    BY <2>1
  <2>3. n \in Nat
    BY SizesAre
  <2> QED BY <1>1, <2>2, <2>3, GoodRoom, GoodMoved
<1>10. ASSUME BlockOf(s, t) PROVE Good(t)
  <2>1. PICK u, v : \E n \in Blocks :
          Begun(s, u) /\ StOK(v) /\ RoomOf(u, v, n) /\ Moved(v, t, n)
    BY <1>10 DEF BlockOf
  <2>2. PICK n \in Blocks : Begun(s, u) /\ StOK(v) /\ RoomOf(u, v, n) /\ Moved(v, t, n)
    BY <2>1
  <2>3. n \in Nat
    BY SizesAre
  <2> QED BY <1>1, <2>2, <2>3, GoodRoom, GoodMoved
<1>11. ASSUME NEW u, NEW v, NEW n \in Nat, Begun(s, u), StOK(v), Moved(u, v, n), DumpAfterOf(v, t)
       PROVE  Good(t)
  <2>1. Good(v)
    BY <1>1, <1>11, GoodMoved
  <2>2. CASE Dumped(v, t, 0)
    <3>1. 0 \in Nat
      OBVIOUS
    <3> QED BY <1>11, <2>1, <2>2, <3>1, GoodDumped
  <2>3. CASE Alike(v, t)
    <3>1. 0 \in Nat /\ v.codep = v.codep + 0
      BY <1>11, LenIs
    <3> QED BY <1>11, <2>1, <2>3, <3>1, GoodAlike DEF Alike, SamePool
  <2>4. CASE Stopped(v, t, "dumplits2")
    BY <2>3, <2>4 DEF Stopped
  <2> QED BY <1>11, <2>2, <2>3, <2>4 DEF DumpAfterOf
<1>12. ASSUME JumpOf(s, t) PROVE Good(t)
  <2>1. PICK u, v : \E n \in Sizes \ {0} :
          Begun(s, u) /\ StOK(v) /\ Moved(u, v, n) /\ DumpAfterOf(v, t)
    BY <1>12 DEF JumpOf
  <2>2. PICK n \in Sizes : Begun(s, u) /\ StOK(v) /\ Moved(u, v, n) /\ DumpAfterOf(v, t)
    BY <2>1
  <2>3. n \in Nat
    BY SizesAre
  <2> QED BY <1>11, <2>2, <2>3
<1>13. ASSUME EndOf(s, t) PROVE Good(t)
  <2>1. PICK u, v : \E n \in {0, 1} :
          /\ Begun(s, u) /\ StOK(v) /\ Moved(u, v, n) /\ DumpAfterOf(v, t)
    BY <1>13 DEF EndOf
  <2>2. PICK n \in {0, 1} : Begun(s, u) /\ StOK(v) /\ Moved(u, v, n) /\ DumpAfterOf(v, t)
    BY <2>1
  <2>3. n \in Nat
    OBVIOUS
  <2> QED BY <1>11, <2>2, <2>3
<1> QED BY <1>2, <1>3, <1>4, <1>6, <1>7, <1>8, <1>9, <1>10, <1>12, <1>13 DEF StepOf

LEMMA GoodTable ==
  ASSUME NEW s, StOK(s), Good(s), NEW r3, NEW t, CaseOf(s, t, r3)
  PROVE  Good(t)
<1>1. PICK u, v, w : /\ Begun(s, u) /\ StOK(v) /\ Moved(u, v, 1)
                     /\ StOK(w) /\ RoomOf(v, w, r3) /\ Moved(w, t, 1)
  BY DEF CaseOf
<1>2. 1 \in Nat
  OBVIOUS
<1>3. Good(v)
  BY <1>1, <1>2, GoodBegun, GoodMoved DEF Begun
<1> QED BY <1>1, <1>2, <1>3, GoodRoom, GoodMoved

LEMMA GoodEntry ==
  ASSUME NEW s, StOK(s), s.incode, Good(s), NEW t, BxxOf(s, t)
  PROVE  Good(t)
<1>1. PICK u : StOK(u) /\ BeginOf(s, u, 0) /\ Moved(u, t, 1)
  BY DEF BxxOf
<1>2. 0 \in 0 .. LdmMax /\ 1 \in Nat
  BY SizesAre
<1>3. u.incode
  <2>1. PICK x : RoomOf(s, x, 0) /\ FlushOf(x, u, 0)
    BY <1>1 DEF BeginOf
  <2>2. x.incode
    BY <2>1, RoomRuns
  <2> QED BY <2>1, <2>2, RoomRuns DEF FlushOf, Sent
<1>4. Begun(s, u)
  BY <1>1, <1>2, <1>3 DEF Begun
<1> QED BY <1>1, <1>2, <1>4, GoodBegun, GoodMoved

GoodInv == Below(Now) /\ Waits(Now) /\ FindsLiteralOrKnown

LEMMA GoodInit == Init => GoodInv
<1> SUFFICES ASSUME Init PROVE GoodInv
  OBVIOUS
<1>1. Now.prevpools = <<>> /\ Now.frefs = {} /\ hit = {}
  BY NowIs DEF Init
<1>2. Len(Now.prevpools) = 0 /\ \A j : ~(j \in 1 .. 0)
  BY <1>1
<1> QED BY <1>1, <1>2 DEF GoodInv, Below, Waits, FindsLiteralOrKnown

\* The words ws are in the pools P from address a on.
InPools(P, a, ws) ==
  \A i \in DOMAIN ws : \E j \in DOMAIN P :
    /\ a + i - 1 \in P[j].base .. P[j].base + Len(P[j].words) - 1
    /\ P[j].words[a + i - P[j].base] = ws[i]

LEMMA AtInPools ==
  ASSUME NEW s, StOK(s), NEW P, s.prevpools = P, NEW a \in Int, NEW ws \in Seq(Lit), At(s, a, ws)
  PROVE  InPools(P, a, ws)
<1>1. PICK n \in Nat : n = Len(ws) /\ DOMAIN ws = 1 .. n
  BY LenProperties
<1>2. PICK m \in Nat : m = Len(P) /\ DOMAIN P = 1 .. m
  BY LenIs, LenProperties
<1>3. ASSUME NEW i \in 1 .. n
      PROVE  \E j \in 1 .. m :
               /\ a + i - 1 \in P[j].base .. P[j].base + Len(P[j].words) - 1
               /\ P[j].words[a + i - P[j].base] = ws[i]
  <2>1. PICK j \in 1 .. m :
          /\ (a + (i - 1)) - P[j].base + 1 \in 1 .. Len(P[j].words)
          /\ P[j].words[(a + (i - 1)) - P[j].base + 1] = ws[i]
    BY <1>1, <1>2 DEF At, Emitted
  <2>2. PICK b, l : b = P[j].base /\ l = Len(P[j].words)
    OBVIOUS
  <2>3. b \in Nat /\ l \in Nat
    BY <1>2, <2>2, PoolIs, LenProperties
  <2>4. /\ \A x, y, k \in Int : (x + (k - 1)) - y + 1 = x + k - y
        /\ \A x, y, k \in Int : \A z \in Nat :
             (x + (k - 1)) - y + 1 \in 1 .. z => x + k - 1 \in y .. y + z - 1
    OBVIOUS
  <2>5. i \in Int /\ b \in Int
    BY <2>3
  <2>6. (a + (i - 1)) - b + 1 = a + i - b
    BY <2>4, <2>5
  <2>7. a + i - 1 \in b .. b + l - 1
    BY <2>1, <2>2, <2>3, <2>4, <2>5
  <2> QED BY <2>1, <2>2, <2>6, <2>7
<1> QED BY <1>1, <1>2, <1>3 DEF InPools

LEMMA GoodNext ==
  TypeInv /\ TidyInv /\ FitInv /\ GoodInv /\ [Next]_vars => GoodInv'
<1> SUFFICES ASSUME TypeInv, TidyInv, FitInv, GoodInv, [Next]_vars PROVE GoodInv'
  OBVIOUS
<1>1. CASE Next
  <2>1. PICK t : /\ StOK(t) /\ Become(t)
                 /\ \/ StepOf(Now, t)
                    \/ \E r3 \in Tables : CaseOf(Now, t, r3)
                    \/ BxxOf(Now, t)
    BY <1>1, NextIs
  <2>2. /\ StOK(Now) /\ Now.codep <= MaxCode /\ Tidy(Now) /\ OffsetsShort /\ Fits(Now)
        /\ Now.incode
    BY <1>1, NextIs, NowIs DEF TypeInv, TidyInv, FitInv
  <2>3. Good(Now)
    BY NowIs DEF GoodInv, Good, Hits
  <2>4. Good(t)
    BY <2>1, <2>2, <2>3, GoodStep, GoodTable, GoodEntry
  <2>5. PICK n : n = Now'
    OBVIOUS
  <2>6. /\ StOK(n) /\ n.codep = t.codep /\ n.litpool = t.litpool /\ n.frefs = t.frefs
        /\ n.prevpools = t.prevpools
    BY <2>1, <2>5, NextNow
  <2>7. Below(n) /\ Waits(n)
    BY <2>4, <2>6 DEF Good, Below, Waits
  <2>8. hit' = t.hit /\ prevpools' = t.prevpools
    BY <2>1 DEF Become
  <2>9. ASSUME NEW h \in hit'
        PROVE  InCode(h.target + h.short, h.want)' /\ (h.sure => h.short = 0)
    <3>1. At(t, h.target + h.short, h.want) /\ (h.sure => h.short = 0)
      BY <2>4, <2>8 DEF Good, Hits, Right
    <3>2. h \in Hit
      BY <2>1, <2>8, LenIs
    <3>3. h.target \in Int /\ h.short \in Int /\ h.want \in Seq(Lit)
      BY <3>2 DEF Hit
    <3>4. PICK a \in Int : a = h.target + h.short
      BY <3>3
    <3>5. InPools(prevpools', a, h.want)
      BY <2>1, <2>8, <3>1, <3>3, <3>4, AtInPools
    <3> QED BY <3>1, <3>4, <3>5 DEF InPools, InCode
  <2> QED BY <2>5, <2>7, <2>9 DEF GoodInv, FindsLiteralOrKnown
<1>2. CASE UNCHANGED vars
  BY <1>2 DEF GoodInv, vars, Now, FindsLiteralOrKnown, InCode
<1> QED BY <1>1, <1>2

\* What an instruction addresses is its literal, whole, wherever the pool was
\* emitted and however its words were shared, split or found in earlier pools,
\* but for an offset counted back into an earlier pool, which is two offsets
\* off, and a string shared further from it than any reference the limit allows
\* for, which is off by what the instruction has no room for.
THEOREM LiteralsFound == OffsetsShort /\ Spec => []FindsLiteralOrKnown
<1>1. OffsetsShort /\ Init => TidyInv /\ FitInv /\ GoodInv
  BY TidyInit, FitInit, GoodInit
<1>2. TypeInv /\ (TidyInv /\ FitInv /\ GoodInv) /\ [Next]_vars => (TidyInv /\ FitInv /\ GoodInv)'
  BY TidyNext, FitNext, GoodNext
<1>3. GoodInv => FindsLiteralOrKnown
  BY DEF GoodInv
<1> QED BY <1>1, <1>2, <1>3, TypesHold, PTL DEF Spec

============================================================================
