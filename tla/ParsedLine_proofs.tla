-------------------------- MODULE ParsedLine_proofs --------------------------
(***************************************************************************)
(* For every register file and every line that the parser may make, the    *)
(* propagation over one line is exactly its data flow, in either direction. *)
(***************************************************************************)
EXTENDS ParsedLine, SequenceTheorems, TLAPS

LEMMA NormalType ==
  ASSUME NEW rs, rs \subseteq Regs
  PROVE  Normal(rs) \subseteq Regs
  BY LocAssumption DEF Normal

LEMMA RegsOfType ==
  ASSUME NEW s \in Seq(Regs)
  PROVE  RegsOf(s) \subseteq Regs
  <1>1. Range(s) \subseteq Regs
    BY DEF Range
  <1> QED BY <1>1, NormalType DEF RegsOf

LEMMA EmptyRegs == RegsOf(<<>>) = {}
  BY DEF RegsOf, Normal, Range

(* What a line's parts are, whatever its category. *)
LEMMA LineParts ==
  ASSUME NEW l \in LineType, WellFormed(l)
  PROVE  /\ l \in LineType
         /\ RegsOf(l.dst) \subseteq Regs
         /\ RegsOf(l.src) \subseteq Regs
         /\ FirstSrc(l) \subseteq Regs
         /\ FlagsOf(l) \subseteq {REG_NZCV}
         /\ {l.mem_read, l.mem_read2, l.mem_write, l.mem_write2} \subseteq Addrs \cup {None}
  <1>1. l \in LineType
    OBVIOUS
  <1>2. l.dst \in Seq(Regs) /\ l.src \in Seq(Regs)
    BY <1>1 DEF LineType
  <1>3. l.src # <<>> => l.src[1] \in Regs
    BY <1>2
  <1>4. FirstSrc(l) \subseteq Regs
    BY <1>3, NormalType DEF FirstSrc
  <1> QED BY <1>1, <1>2, <1>4, RegsOfType DEF FlagsOf, LineType

(* The two halves of a pair. *)
LEMMA PairLoadParts ==
  ASSUME NEW l \in LineType, WellFormed(l), IsPairLoad(l)
  PROVE  /\ Normal({l.dst[1]}) \subseteq Regs
         /\ Normal({l.dst[2]}) \subseteq Regs
         /\ RegsOf(l.dst) = Normal({l.dst[1]}) \cup Normal({l.dst[2]})
         /\ Normal({l.dst[1]}) \cap Normal({l.dst[2]}) = {}
         /\ l.mem_read2 \in Addrs
  <1>1. l.dst \in Seq(Regs) /\ Len(l.dst) = 2
    BY LineParts DEF LineType, WellFormed
  <1>2. l.dst[1] \in Regs /\ l.dst[2] \in Regs /\ Range(l.dst) = {l.dst[1], l.dst[2]}
    BY <1>1 DEF Range
  <1>3. RegsOf(l.dst) = Normal({l.dst[1]}) \cup Normal({l.dst[2]})
    BY <1>2 DEF RegsOf, Normal
  <1>4. l.mem_read2 \in Addrs
    BY LineParts DEF IsPairLoad
  <1> QED BY <1>2, <1>3, <1>4, NormalType DEF WellFormed

LEMMA PairStoreParts ==
  ASSUME NEW l \in LineType, WellFormed(l), IsPairStore(l)
  PROVE  /\ Normal({l.src[1]}) \subseteq Regs
         /\ Normal({l.src[2]}) \subseteq Regs
         /\ l.mem_write \in Addrs
         /\ l.mem_write2 \in Addrs
         /\ l.mem_write # l.mem_write2
  <1>1. l.src \in Seq(Regs) /\ Len(l.src) >= 2 /\ l.mem_write2 # None
    BY LineParts DEF LineType, IsPairStore
  <1>2. l.src[1] \in Regs /\ l.src[2] \in Regs
    BY <1>1
  <1>3. l.mem_write \notin {None, l.mem_write2}
    BY <1>1 DEF WellFormed
  <1> QED BY <1>1, <1>2, <1>3, NormalType, LineParts

(* What a line of each category writes. *)
LEMMA WritesParts ==
  ASSUME NEW l \in LineType, WellFormed(l)
  PROVE  /\ Writes(l) \subseteq Locs
         /\ l.category \in {"IMM_LOAD", "LOAD"} => Writes(l) = RegsOf(l.dst)
         /\ l.category \in Computed => Writes(l) = RegsOf(l.dst) \cup FlagsOf(l)
         /\ l.category = "COMPARE" => Writes(l) = {REG_NZCV}
         /\ l.category = "STORE" => Writes(l) = AddrsOf({l.mem_write, l.mem_write2})
         /\ l.category = "OTHER" => Writes(l) = RegsOf(l.dst) \cup AddrsOf({l.mem_write})
  <1>1. /\ l.category \notin {"STORE", "OTHER"} => l.mem_write = None
        /\ l.category # "STORE" => l.mem_write2 = None
        /\ l.category \notin Computed \cup {"COMPARE"} => FlagsOf(l) = {}
        /\ l.category = "COMPARE" => FlagsOf(l) = {REG_NZCV}
        /\ l.category \in {"STORE", "COMPARE"} => RegsOf(l.dst) = {}
    BY EmptyRegs DEF FlagsOf, WellFormed
  <1> QED BY <1>1, LineParts, LocAssumption DEF Writes, DstsOf, AddrsOf, Locs, Computed

(* The locations whose value comes from T, or, of a backward flow, into T. *)
Image(f, T) == {y \in Locs : f[y] \cap T # {}}

(* Overwriting W with values that come from S, and, in a pair, V with        *)
(* values that come from R before that.                                     *)
Over(T, W, S) == SetTo(T, W, S \cap T # {})
OverPair(T, V, R, W, S) == SetTo(Over(T, V, R), W, S \cap T # {})

LEMMA SetToImage ==
  ASSUME NEW T, T \subseteq Locs, NEW W, W \subseteq Locs, NEW S, NEW f,
         \A y \in W : f[y] = S, \A y \in Locs \ W : f[y] = {y}
  PROVE  Over(T, W, S) = Image(f, T)
  <1>1. CASE S \cap T # {}
    <2>1. Over(T, W, S) = T \cup W
      BY <1>1 DEF SetTo, Over
    <2>2. \A y \in Locs : f[y] \cap T # {} <=> y \in T \cup W
      BY <1>1
    <2> QED BY <2>1, <2>2 DEF Image
  <1>2. CASE S \cap T = {}
    <2>1. Over(T, W, S) = T \ W
      BY <1>2 DEF SetTo, Over
    <2>2. \A y \in Locs : f[y] \cap T # {} <=> y \in T \ W
      BY <1>2
    <2> QED BY <2>1, <2>2 DEF Image
  <1> QED BY <1>1, <1>2

LEMMA SetTwiceImage ==
  ASSUME NEW T, T \subseteq Locs, NEW V, V \subseteq Locs, NEW W, W \subseteq Locs,
         V \cap W = {}, NEW R, NEW S, NEW f,
         \A y \in V : f[y] = R, \A y \in W : f[y] = S,
         \A y \in Locs \ (V \cup W) : f[y] = {y}
  PROVE  OverPair(T, V, R, W, S) = Image(f, T)
  <1> DEFINE U == Over(T, V, R)
  <1>1. \A y \in Locs : y \in U <=> IF y \in V THEN R \cap T # {} ELSE y \in T
    BY DEF SetTo, Over
  <1>2. U \subseteq Locs
    BY DEF SetTo, Over
  <1> HIDE DEF U
  <1>3. \A y \in Locs : y \in SetTo(U, W, S \cap T # {}) <=>
          IF y \in W THEN S \cap T # {} ELSE y \in U
    BY <1>2 DEF SetTo
  <1>4. SetTo(U, W, S \cap T # {}) \subseteq Locs
    BY <1>2 DEF SetTo
  <1>5. \A y \in Locs : f[y] \cap T # {} <=>
          IF y \in V THEN R \cap T # {} ELSE IF y \in W THEN S \cap T # {} ELSE y \in T
    OBVIOUS
  <1>6. SetTo(U, W, S \cap T # {}) = Image(f, T)
    BY <1>1, <1>3, <1>4, <1>5 DEF Image
  <1> QED BY <1>6 DEF U, OverPair

(* Forward, one line taints exactly the locations whose value comes from a  *)
(* tainted one.                                                             *)
THEOREM ForwardExact ==
  ASSUME NEW l \in LineType, WellFormed(l), NEW T, T \subseteq Locs
  PROVE  propagate_forward(l, T) = Image(From(l), T)
  <1>0. /\ l.category \in Categories
        /\ \A y \in Writes(l) : From(l)[y] = WrittenFrom(l, y)
        /\ \A y \in Locs \ Writes(l) : From(l)[y] = {y}
        /\ Writes(l) \subseteq Locs
    BY LineParts, WritesParts DEF LineType, From
  <1>a. \A a : a \in T <=> AddrsOf({a}) \cap T # {}
    BY LocAssumption DEF AddrsOf
  <1>1. CASE l.category = "IMM_LOAD"
    <2>1. propagate_forward(l, T) = T \ RegsOf(l.dst)
      BY <1>1 DEF propagate_forward, IsPairLoad, IsPairStore, Computed
    <2>2. \A y : WrittenFrom(l, y) = {}
      BY <1>1 DEF WrittenFrom, IsPairLoad, IsPairStore
    <2>3. Writes(l) = RegsOf(l.dst)
      BY <1>1, WritesParts
    <2>4. \A y \in Writes(l) : From(l)[y] = {}
      BY <1>0, <2>2
    <2> QED BY <1>0, <2>1, <2>3, <2>4 DEF Image
  <1>2. CASE l.category \in {"PARTIAL_MODIFY", "BRANCH"}
    <2>1. propagate_forward(l, T) = T
      BY <1>2 DEF propagate_forward, IsPairLoad, IsPairStore, Computed
    <2>2. Writes(l) = {}
      BY <1>2 DEF Writes
    <2> QED BY <1>0, <2>1, <2>2 DEF Image
  <1>3. CASE l.category \in Computed \cup {"COMPARE", "OTHER"}
    <2>1. propagate_forward(l, T) = Over(T, Writes(l), SrcsOf(l))
      BY <1>3, WritesParts DEF propagate_forward, Computed, IsPairLoad, IsPairStore,
                               any_src_tainted, Over
    <2>2. \A y : WrittenFrom(l, y) = SrcsOf(l)
      BY <1>3 DEF WrittenFrom, Computed, IsPairLoad, IsPairStore
    <2>3. \A y \in Writes(l) : From(l)[y] = SrcsOf(l)
      BY <1>0, <2>2
    <2> QED BY <1>0, <2>1, <2>3, SetToImage
  <1>4. CASE l.category = "LOAD" /\ ~IsPairLoad(l)
    <2>1. propagate_forward(l, T) =
            Over(T, Writes(l), AddrsOf({l.mem_read}))
      <3>1. propagate_forward(l, T) = SetTo(T, RegsOf(l.dst), l.mem_read \in T)
        BY <1>4 DEF propagate_forward, Computed, IsPairLoad, IsPairStore
      <3>2. Writes(l) = RegsOf(l.dst)
        BY <1>4, WritesParts
      <3> QED BY <1>a, <3>1, <3>2 DEF SetTo, Over
    <2>2. \A y : WrittenFrom(l, y) = AddrsOf({l.mem_read})
      BY <1>4 DEF WrittenFrom, IsPairLoad, IsPairStore
    <2>3. \A y \in Writes(l) : From(l)[y] = AddrsOf({l.mem_read})
      BY <1>0, <2>2
    <2> QED BY <1>0, <2>1, <2>3, SetToImage
  <1>5. CASE IsPairLoad(l)
    <2> DEFINE d1 == Normal({l.dst[1]})
               d2 == Normal({l.dst[2]})
               m1 == AddrsOf({l.mem_read})
               m2 == AddrsOf({l.mem_read2})
    <2>0. l.category = "LOAD"
      BY <1>5 DEF IsPairLoad
    <2>1. propagate_forward(l, T) =
            OverPair(T, d1, m1, d2, m2)
      <3>1. propagate_forward(l, T) =
              SetTo(SetTo(T, d1, l.mem_read \in T), d2, l.mem_read2 \in T)
        BY <1>5, <2>0 DEF propagate_forward, Computed, IsPairLoad, IsPairStore
      <3> QED BY <1>a, <3>1 DEF SetTo, Over, OverPair
    <2>2. \A y : WrittenFrom(l, y) = IF y \in d1 THEN m1 ELSE m2
      BY <1>5, <2>0 DEF WrittenFrom, IsPairLoad, IsPairStore
    <2>3. /\ Writes(l) = d1 \cup d2
          /\ d1 \cap d2 = {}
          /\ d1 \subseteq Locs /\ d2 \subseteq Locs
      BY <1>5, <2>0, PairLoadParts, WritesParts DEF Locs
    <2> HIDE DEF d1, d2, m1, m2
    <2>4. /\ \A y \in d1 : From(l)[y] = m1
          /\ \A y \in d2 : From(l)[y] = m2
          /\ \A y \in Locs \ (d1 \cup d2) : From(l)[y] = {y}
      BY <1>0, <2>2, <2>3
    <2> QED BY <2>1, <2>3, <2>4, SetTwiceImage
  <1>6. CASE l.category = "STORE" /\ ~IsPairStore(l)
    <2>1. propagate_forward(l, T) = Over(T, Writes(l), FirstSrc(l))
      <3>1. propagate_forward(l, T) =
              SetTo(T, AddrsOf({l.mem_write}), FirstSrc(l) \cap T # {})
        BY <1>6 DEF propagate_forward, Computed, IsPairLoad, IsPairStore
      <3>2. l.mem_write2 = None
        BY <1>6 DEF IsPairStore, WellFormed
      <3>3. Writes(l) = AddrsOf({l.mem_write})
        BY <1>6, <3>2, WritesParts DEF AddrsOf
      <3> QED BY <3>1, <3>3 DEF Over
    <2>2. \A y : WrittenFrom(l, y) = FirstSrc(l)
      BY <1>6 DEF WrittenFrom, IsPairLoad, IsPairStore
    <2>3. \A y \in Writes(l) : From(l)[y] = FirstSrc(l)
      BY <1>0, <2>2
    <2> QED BY <1>0, <2>1, <2>3, SetToImage
  <1>7. CASE IsPairStore(l)
    <2> DEFINE s1 == Normal({l.src[1]})
               s2 == Normal({l.src[2]})
               a1 == {l.mem_write}
               a2 == {l.mem_write2}
    <2>0. l.category = "STORE"
      BY <1>7 DEF IsPairStore
    <2>1. propagate_forward(l, T) =
            OverPair(T, a1, s1, a2, s2)
      <3>1. propagate_forward(l, T) =
              SetTo(SetTo(T, AddrsOf(a1), s1 \cap T # {}), a2, s2 \cap T # {})
        BY <1>7, <2>0 DEF propagate_forward, Computed, IsPairLoad, IsPairStore
      <3>2. AddrsOf(a1) = a1
        BY <1>7, PairStoreParts, LocAssumption DEF AddrsOf, Locs
      <3> QED BY <3>1, <3>2 DEF Over, OverPair
    <2>2. \A y : y \in a1 \cup a2 => WrittenFrom(l, y) = IF y \in a1 THEN s1 ELSE s2
      BY <1>7, <2>0, PairStoreParts DEF WrittenFrom, IsPairLoad, IsPairStore
    <2>3. /\ Writes(l) = a1 \cup a2
          /\ a1 \cap a2 = {}
          /\ a1 \subseteq Locs /\ a2 \subseteq Locs
      <3>1. Writes(l) = AddrsOf({l.mem_write, l.mem_write2})
        BY <2>0, WritesParts
      <3> QED BY <1>7, <3>1, PairStoreParts, LocAssumption DEF Locs, AddrsOf
    <2> HIDE DEF s1, s2, a1, a2
    <2>4. /\ \A y \in a1 : From(l)[y] = s1
          /\ \A y \in a2 : From(l)[y] = s2
          /\ \A y \in Locs \ (a1 \cup a2) : From(l)[y] = {y}
      BY <1>0, <2>2, <2>3
    <2> QED BY <2>1, <2>3, <2>4, SetTwiceImage
  <1> QED BY <1>0, <1>1, <1>2, <1>3, <1>4, <1>5, <1>6, <1>7 DEF Categories

(* What the backward flow of a line is, location by location. *)
LEMMA IntoPoints ==
  ASSUME NEW l \in LineType, WellFormed(l), l.category # "OTHER"
  PROVE  /\ \A x \in Locs, y \in Writes(l) : y \in Into(l)[x] <=> x \in WrittenFrom(l, y)
         /\ \A x \in Locs, y \in Locs \ Writes(l) : y \in Into(l)[x] <=> x = y
  BY WritesParts DEF Into, From

LEMMA BackImage ==
  ASSUME NEW T, T \subseteq Locs, NEW W, W \subseteq Locs, NEW S, S \subseteq Locs, NEW g,
         \A x \in Locs, y \in W : y \in g[x] <=> x \in S,
         \A x \in Locs, y \in Locs \ W : y \in g[x] <=> x = y
  PROVE  Back(T, W, S) = Image(g, T)
  <1>1. \A x \in Locs : g[x] \cap T # {} <=> x \in T \ W \/ (x \in S /\ W \cap T # {})
    <2> TAKE x \in Locs
    <2>1. g[x] \cap T # {} <=> \E y \in T : y \in g[x]
      OBVIOUS
    <2>2. (\E y \in T : y \in g[x]) <=>
            (\E y \in T \cap W : x \in S) \/ (\E y \in T \ W : x = y)
      OBVIOUS
    <2> QED BY <2>1, <2>2
  <1>2. \A x : x \in Back(T, W, S) <=> x \in T \ W \/ (x \in S /\ W \cap T # {})
    BY DEF Back
  <1> QED BY <1>1, <1>2 DEF Image

LEMMA BackTwiceImage ==
  ASSUME NEW T, T \subseteq Locs, NEW V, V \subseteq Locs, NEW W, W \subseteq Locs,
         NEW R, R \subseteq Locs, NEW S, S \subseteq Locs, NEW g,
         V \cap W = {}, R \cap W = {},
         \A x \in Locs, y \in V : y \in g[x] <=> x \in R,
         \A x \in Locs, y \in W : y \in g[x] <=> x \in S,
         \A x \in Locs, y \in Locs \ (V \cup W) : y \in g[x] <=> x = y
  PROVE  Back(Back(T, V, R), W, S) = Image(g, T)
  <1> DEFINE U == Back(T, V, R)
  <1>1. \A x \in Locs : g[x] \cap T # {} <=>
          \/ x \in T \ (V \cup W)
          \/ x \in R /\ V \cap T # {}
          \/ x \in S /\ W \cap T # {}
    <2> TAKE x \in Locs
    <2>1. g[x] \cap T # {} <=> \E y \in T : y \in g[x]
      OBVIOUS
    <2>2. (\E y \in T : y \in g[x]) <=>
            \/ \E y \in T \cap V : x \in R
            \/ \E y \in T \cap W : x \in S
            \/ \E y \in T \ (V \cup W) : x = y
      OBVIOUS
    <2> QED BY <2>1, <2>2
  <1>2. \A x : x \in U <=> x \in T \ V \/ (x \in R /\ V \cap T # {})
    BY DEF Back
  <1>3. U \cap W = T \cap W
    BY <1>2
  <1> HIDE DEF U
  <1>4. \A x : x \in Back(U, W, S) <=> x \in U \ W \/ (x \in S /\ W \cap U # {})
    BY DEF Back
  <1>5. Back(U, W, S) \subseteq Locs
    BY <1>2, <1>4
  <1>6. \A x \in Locs : x \in Back(U, W, S) <=> g[x] \cap T # {}
    BY <1>1, <1>2, <1>3, <1>4
  <1>7. Back(U, W, S) = Image(g, T)
    BY <1>5, <1>6 DEF Image
  <1> QED BY <1>7 DEF U

(* Backward, one line taints exactly the locations from which the value of  *)
(* a tainted one comes; memory that an unknown instruction writes stays.    *)
THEOREM BackwardExact ==
  ASSUME NEW l \in LineType, WellFormed(l), NEW T, T \subseteq Locs
  PROVE  propagate_backward(l, T) = Image(Into(l), T)
  <1>0. l.category \in Categories /\ Writes(l) \subseteq Locs
    BY LineParts, WritesParts DEF LineType
  <1>1. CASE l.category = "IMM_LOAD"
    <2>1. propagate_backward(l, T) = T \ Writes(l)
      BY <1>1, WritesParts DEF propagate_backward, IsPairLoad, IsPairStore, Computed
    <2>2. /\ \A x \in Locs, y \in Writes(l) : y \notin Into(l)[x]
          /\ \A x \in Locs, y \in Locs \ Writes(l) : y \in Into(l)[x] <=> x = y
      <3>1. \A y : WrittenFrom(l, y) = {}
        BY <1>1 DEF WrittenFrom, IsPairLoad, IsPairStore
      <3> QED BY <1>1, <3>1, IntoPoints
    <2>3. \A x \in Locs : Into(l)[x] \cap T # {} <=> x \in T \ Writes(l)
      BY <2>2
    <2> QED BY <2>1, <2>3 DEF Image
  <1>2. CASE l.category \in {"PARTIAL_MODIFY", "BRANCH"}
    <2>1. propagate_backward(l, T) = T
      BY <1>2 DEF propagate_backward, IsPairLoad, IsPairStore, Computed
    <2>2. Writes(l) = {}
      BY <1>2 DEF Writes
    <2>3. \A x \in Locs, y \in Locs : y \in Into(l)[x] <=> x = y
      BY <1>2, <2>2, IntoPoints
    <2> QED BY <2>1, <2>3 DEF Image
  <1>3. CASE l.category \in Computed \cup {"COMPARE"}
    <2>1. propagate_backward(l, T) = Back(T, Writes(l), RegsOf(l.src))
      BY <1>3, WritesParts DEF propagate_backward, Computed, IsPairLoad, IsPairStore
    <2>2. \A y : WrittenFrom(l, y) = RegsOf(l.src)
      <3>1. l.mem_read = None /\ l.mem_read2 = None
        BY <1>3 DEF Computed, WellFormed
      <3>2. SrcsOf(l) = RegsOf(l.src)
        BY <3>1 DEF SrcsOf, AddrsOf
      <3> QED BY <1>3, <3>2 DEF WrittenFrom, Computed, IsPairLoad, IsPairStore
    <2>3. RegsOf(l.src) \subseteq Locs
      BY LineParts DEF Locs
    <2>4. /\ \A x \in Locs, y \in Writes(l) : y \in Into(l)[x] <=> x \in RegsOf(l.src)
          /\ \A x \in Locs, y \in Locs \ Writes(l) : y \in Into(l)[x] <=> x = y
      BY <1>3, <2>2, IntoPoints DEF Computed
    <2> QED BY <1>0, <2>1, <2>3, <2>4, BackImage
  <1>4. CASE l.category = "LOAD" /\ ~IsPairLoad(l)
    <2> DEFINE m == AddrsOf({l.mem_read})
    <2>1. propagate_backward(l, T) = Back(T, Writes(l), m)
      BY <1>4, WritesParts DEF propagate_backward, Computed, IsPairLoad, IsPairStore
    <2>2. \A y : WrittenFrom(l, y) = m
      BY <1>4 DEF WrittenFrom, IsPairLoad, IsPairStore
    <2>3. m \subseteq Locs
      BY LineParts DEF Locs, AddrsOf
    <2> HIDE DEF m
    <2>4. /\ \A x \in Locs, y \in Writes(l) : y \in Into(l)[x] <=> x \in m
          /\ \A x \in Locs, y \in Locs \ Writes(l) : y \in Into(l)[x] <=> x = y
      BY <1>4, <2>2, IntoPoints
    <2> QED BY <1>0, <2>1, <2>3, <2>4, BackImage
  <1>5. CASE IsPairLoad(l)
    <2> DEFINE d1 == Normal({l.dst[1]})
               d2 == Normal({l.dst[2]})
               m1 == AddrsOf({l.mem_read})
               m2 == AddrsOf({l.mem_read2})
    <2>0. l.category = "LOAD"
      BY <1>5 DEF IsPairLoad
    <2>1. propagate_backward(l, T) = Back(Back(T, d1, m1), d2, m2)
      <3>1. m2 = {l.mem_read2}
        BY <1>5 DEF IsPairLoad, AddrsOf
      <3>2. propagate_backward(l, T) = Back(Back(T, d1, m1), d2, {l.mem_read2})
        BY <1>5, <2>0 DEF propagate_backward, Computed, IsPairLoad, IsPairStore
      <3> QED BY <3>1, <3>2
    <2>2. \A y : WrittenFrom(l, y) = IF y \in d1 THEN m1 ELSE m2
      BY <1>5, <2>0 DEF WrittenFrom, IsPairLoad, IsPairStore
    <2>3. /\ Writes(l) = d1 \cup d2
          /\ d1 \cap d2 = {} /\ m1 \cap d2 = {}
          /\ d1 \subseteq Locs /\ d2 \subseteq Locs
          /\ m1 \subseteq Locs /\ m2 \subseteq Locs
      <3>1. /\ d1 \subseteq Regs /\ d2 \subseteq Regs
            /\ Writes(l) = d1 \cup d2 /\ d1 \cap d2 = {}
        BY <1>5, <2>0, PairLoadParts, WritesParts
      <3>2. m1 \subseteq Addrs /\ m2 \subseteq Addrs
        BY LineParts DEF AddrsOf
      <3> QED BY <3>1, <3>2, LocAssumption DEF Locs
    <2> HIDE DEF d1, d2, m1, m2
    <2>4. /\ \A x \in Locs, y \in d1 : y \in Into(l)[x] <=> x \in m1
          /\ \A x \in Locs, y \in d2 : y \in Into(l)[x] <=> x \in m2
          /\ \A x \in Locs, y \in Locs \ (d1 \cup d2) : y \in Into(l)[x] <=> x = y
      BY <2>0, <2>2, <2>3, IntoPoints
    <2> QED BY <2>1, <2>3, <2>4, BackTwiceImage
  <1>6. CASE l.category = "STORE" /\ ~IsPairStore(l)
    <2>1. propagate_backward(l, T) = Back(T, Writes(l), FirstSrc(l))
      <3>1. propagate_backward(l, T) = Back(T, AddrsOf({l.mem_write}), FirstSrc(l))
        BY <1>6 DEF propagate_backward, Computed, IsPairLoad, IsPairStore
      <3>2. l.mem_write2 = None
        BY <1>6 DEF IsPairStore, WellFormed
      <3>3. Writes(l) = AddrsOf({l.mem_write})
        BY <1>6, <3>2, WritesParts DEF AddrsOf
      <3> QED BY <3>1, <3>3
    <2>2. \A y : WrittenFrom(l, y) = FirstSrc(l)
      BY <1>6 DEF WrittenFrom, IsPairLoad, IsPairStore
    <2>3. FirstSrc(l) \subseteq Locs
      BY LineParts DEF Locs
    <2>4. /\ \A x \in Locs, y \in Writes(l) : y \in Into(l)[x] <=> x \in FirstSrc(l)
          /\ \A x \in Locs, y \in Locs \ Writes(l) : y \in Into(l)[x] <=> x = y
      BY <1>6, <2>2, IntoPoints
    <2> QED BY <1>0, <2>1, <2>3, <2>4, BackImage
  <1>7. CASE IsPairStore(l)
    <2> DEFINE s1 == Normal({l.src[1]})
               s2 == Normal({l.src[2]})
               a1 == {l.mem_write}
               a2 == {l.mem_write2}
    <2>0. l.category = "STORE"
      BY <1>7 DEF IsPairStore
    <2>1. propagate_backward(l, T) = Back(Back(T, a1, s1), a2, s2)
      BY <1>7, <2>0 DEF propagate_backward, Computed, IsPairLoad, IsPairStore
    <2>2. \A y : y \in a1 \cup a2 => WrittenFrom(l, y) = IF y \in a1 THEN s1 ELSE s2
      BY <1>7, <2>0, PairStoreParts DEF WrittenFrom, IsPairLoad, IsPairStore
    <2>3. /\ Writes(l) = a1 \cup a2
          /\ a1 \cap a2 = {} /\ s1 \cap a2 = {}
          /\ a1 \subseteq Locs /\ a2 \subseteq Locs
          /\ s1 \subseteq Locs /\ s2 \subseteq Locs
      <3>1. Writes(l) = AddrsOf({l.mem_write, l.mem_write2})
        BY <2>0, WritesParts
      <3>2. /\ a1 \subseteq Addrs /\ a2 \subseteq Addrs /\ a1 \cap a2 = {}
            /\ s1 \subseteq Regs /\ s2 \subseteq Regs
        BY <1>7, PairStoreParts
      <3> QED BY <1>7, <3>1, <3>2, PairStoreParts, LocAssumption DEF Locs, AddrsOf
    <2> HIDE DEF s1, s2, a1, a2
    <2>4. /\ \A x \in Locs, y \in a1 : y \in Into(l)[x] <=> x \in s1
          /\ \A x \in Locs, y \in a2 : y \in Into(l)[x] <=> x \in s2
          /\ \A x \in Locs, y \in Locs \ (a1 \cup a2) : y \in Into(l)[x] <=> x = y
      BY <2>0, <2>2, <2>3, IntoPoints
    <2> QED BY <2>1, <2>3, <2>4, BackTwiceImage
  <1>8. CASE l.category = "OTHER"
    <2> DEFINE D == RegsOf(l.dst)
               M == AddrsOf({l.mem_write})
               S == SrcsOf(l)
    <2>1. Writes(l) = D \cup M /\ DstsOf(l) = D \cup M
      BY <1>8, WritesParts DEF DstsOf, AddrsOf, WellFormed
    <2>2. S = RegsOf(l.src) \cup AddrsOf({l.mem_read}) /\ S \subseteq Locs
      BY <1>8, LineParts DEF SrcsOf, AddrsOf, Locs, WellFormed
    <2>3. propagate_backward(l, T) = IF (D \cup M) \cap T # {} THEN (T \ D) \cup S ELSE T
      BY <1>8, <2>1, <2>2 DEF propagate_backward, Computed, IsPairLoad, IsPairStore,
                              any_dst_tainted
    <2>4. \A y : WrittenFrom(l, y) = S
      BY <1>8 DEF WrittenFrom, IsPairLoad, IsPairStore
    <2>5. D \cap M = {}
      BY LineParts, LocAssumption DEF AddrsOf
    <2> HIDE DEF D, M, S
    <2>6. /\ \A x \in Locs, y \in D : y \in Into(l)[x] <=> x \in S
          /\ \A x \in Locs, y \in M : y \in Into(l)[x] <=> x \in S \/ x = y
          /\ \A x \in Locs, y \in Locs \ (D \cup M) : y \in Into(l)[x] <=> x = y
      <3>1. \A x \in Locs, y \in Locs : y \in Into(l)[x] <=>
              x \in From(l)[y] \/ (x = y /\ x = l.mem_write)
        BY <1>8 DEF Into
      <3>2. /\ \A y \in Writes(l) : From(l)[y] = S
            /\ \A y \in Locs \ Writes(l) : From(l)[y] = {y}
        BY <1>0, <2>4 DEF From
      <3>3. \A y \in Locs : y \in M <=> y = l.mem_write
        BY LocAssumption DEF M, AddrsOf
      <3>4. D \subseteq Locs /\ M \subseteq Locs
        BY <1>0, <2>1
      <3> QED BY <2>1, <2>5, <3>1, <3>2, <3>3, <3>4
    <2>7. \A x \in Locs : Into(l)[x] \cap T # {} <=>
            x \in T \ D \/ (x \in S /\ (D \cup M) \cap T # {})
      <3> TAKE x \in Locs
      <3>1. Into(l)[x] \cap T # {} <=> \E y \in T : y \in Into(l)[x]
        OBVIOUS
      <3>2. (\E y \in T : y \in Into(l)[x]) <=>
              \/ \E y \in T \cap (D \cup M) : x \in S
              \/ \E y \in T \ D : x = y
        BY <2>5, <2>6
      <3> QED BY <3>1, <3>2
    <2>8. propagate_backward(l, T) \subseteq Locs
      BY <2>2, <2>3
    <2>9. \A x \in Locs : x \in propagate_backward(l, T) <=> Into(l)[x] \cap T # {}
      BY <2>3, <2>7
    <2> QED BY <2>8, <2>9 DEF Image
  <1> QED BY <1>0, <1>1, <1>2, <1>3, <1>4, <1>5, <1>6, <1>7, <1>8 DEF Categories

(* A backward scan loses nothing by leaving uninvolved lines alone. *)
LEMMA UninvolvedUnchanged ==
  ASSUME NEW l \in LineType, WellFormed(l), NEW T, T \subseteq Locs, ~InvolvedBackward(l, T)
  PROVE  T = Image(Into(l), T)
  <1>1. (DstsOf(l) \cup FlagsOf(l)) \cap T = {}
    BY DEF InvolvedBackward, any_dst_tainted
  <1>2. Writes(l) \cap T = {}
    BY <1>1 DEF Writes
  <1>3. \A x \in Locs, y \in T : y \in Into(l)[x] <=> x = y
    BY <1>2 DEF Into, From
  <1> QED BY <1>3 DEF Image
=============================================================================
