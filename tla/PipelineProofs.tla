--------------------------- MODULE PipelineProofs ---------------------------
(***************************************************************************)
(* What the processors do to data, for every chain, every set of fields    *)
(* and values and every configuration of the processors.                   *)
(***************************************************************************)
EXTENDS Pipeline, TLAPS

\* Processors as the factories make them.
Made == {p \in Processors : p.type = "field_redact" =>
            \A f \in Fields : p.map[f] \in Texts \cup {Absent}}

Adds(p, f) == p.type = "field_add" /\ p.map[f] # Absent

-----------------------------------------------------------------------------
(* Processors *)

LEMMA CreateMakes == ASSUME NEW ref \in Refs PROVE Create(ref) \in Made
<1>1. Entries(ref) \in Maps
  BY PipelineAssumption DEF Refs, Entries, Maps
<1>2. Create(ref) \in Processors
  BY <1>1 DEF Refs, Create, Processors
<1>3. ASSUME Create(ref).type = "field_redact", NEW f \in Fields
      PROVE  Create(ref).map[f] \in Texts \cup {Absent}
  BY <1>3 DEF Create, Entries
<1> QED
  BY <1>2, <1>3 DEF Made

LEMMA ChainMakes ==
    ASSUME NEW refs \in Seq(Refs) PROVE buildPipelineChain(refs) \in Seq(Made)
BY CreateMakes DEF buildPipelineChain

LEMMA DecodeType ==
    ASSUME NEW v \in Decodable \cup {Absent}
    PROVE  /\ Decode(v) \in Decodable \cup {Absent} /\ Decode(v) \in Encodable \cup {Absent}
           /\ v \in Texts \cup {Absent} => Decode(v) = v
BY PipelineAssumption DEF Decode, Encodable, Decodable

\* The map that a processor works on has values that json.Unmarshal has made.
LEMMA BaseType ==
    ASSUME NEW d \in Results
    PROVE  /\ Base(d) \in [Fields -> Decodable \cup {Absent}]
           /\ Decodes(d) => Base(d) = d.of /\ d.kind = "object"
           /\ ~Decodes(d) => Base(d) = NoFields /\ \A f \in Fields : Base(d)[f] = Absent
<1>1. d.of \in Objects
  BY DEF Results
<1> QED
  BY <1>1 DEF Base, Decodes, NoFields, Objects, Decodable

LEMMA NoFieldsType == NoFields \in Objects
BY DEF NoFields, Objects

\* Every processor turns data into data, or ends the chain.
LEMMA ProcessType ==
    ASSUME NEW p \in Made, NEW d \in Results PROVE Process(p, d) \in Results
<1>1. d.of \in Objects /\ d.kind \in Kinds /\ p.map \in Maps /\ p.type \in Types
  BY DEF Results, Made, Processors
<1>2. ASSUME NEW o \in Objects PROVE Object(o) \in Results
  BY DEF Object, Results, Kinds
<1>3. Bare("panic") \in Results /\ Bare("error") \in Results
  BY NoFieldsType DEF Bare, Results, Kinds
<1>4. CASE p.type = "field_filter"
  <2>1. Filtered(p, Base(d)) \in Objects
    BY BaseType, DecodeType DEF Filtered, Objects
  <2> QED BY <1>2, <1>4, <2>1, NoFieldsType, BaseType DEF Process, FieldFilter
<1>5. CASE p.type = "field_add"
  <2>1. ASSUME \A f \in Fields : p.map[f] \notin Unencodable
        PROVE  Added(p, Base(d)) \in Objects
    BY <1>1, <2>1, BaseType, DecodeType DEF Added, Objects, Maps, Encodable
  <2> QED BY <1>2, <1>3, <1>5, <2>1 DEF Process, FieldAdd
<1>6. CASE p.type = "field_redact"
  <2>1. Masked(p, Base(d)) \in Objects
    <3>1. ASSUME NEW f \in Fields
          PROVE  p.map[f] \in Texts \cup {Absent} /\ Base(d)[f] \in Decodable \cup {Absent}
      BY <1>6, BaseType DEF Made
    <3> QED BY <3>1, DecodeType, PipelineAssumption DEF Masked, Objects, Encodable
  <2> QED BY <1>2, <1>6, <2>1, BaseType DEF Process, FieldRedact
<1>7. CASE p.type = "unknown"
  BY <1>7 DEF Process
<1> QED
  BY <1>1, <1>4, <1>5, <1>6, <1>7 DEF Types

\* The processors that want a map pass the data as it is.
Passes(d) == d.kind = "object" /\ ~Decodes(d)

\* A field that is hidden stays hidden unless the processor adds it, and the
\* redaction of a field hides it, except in an object that does not decode: that
\* passes as it is, or field_add replaces it.
LEMMA ProcessHides ==
    ASSUME NEW p \in Made, NEW d \in Results, NEW f \in Fields, ~Adds(p, f),
           Masks(p, f) \/ Hides(d, f) \/ Passes(d)
    PROVE  Hides(Process(p, d), f) \/ (Passes(d) /\ Process(p, d) = d)
<1>1. p.type \in Types /\ Base(d)[f] \in Decodable \cup {Absent}
  BY BaseType DEF Made, Processors
<1>2. Hides(d, f) => Base(d)[f] \in Texts \cup {Absent}
  BY BaseType DEF Hides
<1>3. ASSUME ~Decodes(d), Process(p, d) = d, p.type # "field_add"
      PROVE  Hides(Process(p, d), f) \/ (Passes(d) /\ Process(p, d) = d)
  BY <1>3 DEF Passes, Hides
<1>4. CASE p.type = "field_filter"
  <2>1. CASE Decodes(d)
    <3>1. Process(p, d) = Object(Filtered(p, Base(d))) /\ Hides(d, f)
      BY <1>4, <2>1, BaseType DEF Process, FieldFilter, Masks, Passes
    <3>2. Filtered(p, Base(d))[f] \in Texts \cup {Absent}
      BY <1>1, <1>2, <3>1, DecodeType DEF Filtered
    <3> QED BY <3>1, <3>2 DEF Hides, Object
  <2>2. CASE ~Decodes(d)
    <3>1. Process(p, d) = d \/ Process(p, d) = Object(NoFields)
      BY <1>4, <2>2 DEF Process, FieldFilter
    <3> QED BY <1>3, <1>4, <2>2, <3>1 DEF Hides, Object, NoFields
  <2> QED BY <2>1, <2>2
<1>5. CASE p.type = "field_add"
  <2>1. p.map[f] = Absent /\ (Hides(d, f) \/ Passes(d))
    BY <1>5 DEF Adds, Masks
  <2>2. Base(d)[f] \in Texts \cup {Absent}
    BY <1>2, <2>1, BaseType DEF Passes
  <2>3. Added(p, Base(d))[f] \in Texts \cup {Absent}
    BY <1>1, <2>1, <2>2, DecodeType DEF Added
  <2>4. \/ Process(p, d) = d /\ d.kind = "null"
        \/ Process(p, d) \in {Bare("panic"), Bare("error"), Object(Added(p, Base(d)))}
    BY <1>5 DEF Process, FieldAdd
  <2> QED BY <2>3, <2>4 DEF Hides, Object, Bare
<1>6. CASE p.type = "field_redact"
  <2>1. CASE Decodes(d)
    <3>1. Process(p, d) = Object(Masked(p, Base(d))) /\ (Masks(p, f) \/ Hides(d, f))
      BY <1>6, <2>1, BaseType DEF Process, FieldRedact, Passes
    <3>2. Masked(p, Base(d))[f] \in Texts \cup {Absent}
      BY <1>1, <1>2, <1>6, <3>1, DecodeType DEF Masked, Made, Masks
    <3> QED BY <3>1, <3>2 DEF Hides, Object
  <2>2. CASE ~Decodes(d)
    BY <1>3, <1>6, <2>2 DEF Process, FieldRedact
  <2> QED BY <2>1, <2>2
<1>7. CASE p.type = "unknown"
  BY <1>7 DEF Process, Masks
<1> QED
  BY <1>1, <1>4, <1>5, <1>6, <1>7 DEF Types

\* What one more processor redacts.
LEMMA RedactsOneMore ==
    ASSUME NEW c \in Seq(Made), NEW n \in Nat, NEW f, Redacts(c, n + 1, f)
    PROVE  ~Adds(c[n + 1], f) /\ (Masks(c[n + 1], f) \/ Redacts(c, n, f))
<1>1. PICK i \in 1 .. n + 1 :
          Masks(c[i], f) /\ \A j \in i + 1 .. n + 1 : ~(c[j].type = "field_add" /\ c[j].map[f] # Absent)
  BY DEF Redacts
<1>2. CASE i = n + 1
  BY <1>1, <1>2 DEF Masks, Adds
<1>3. CASE i # n + 1
  <2>1. i \in 1 .. n /\ n + 1 \in i + 1 .. n + 1 /\ \A j \in i + 1 .. n : j \in i + 1 .. n + 1
    BY <1>3
  <2> QED BY <1>1, <2>1 DEF Redacts, Adds
<1> QED
  BY <1>2, <1>3

-----------------------------------------------------------------------------
(* Running the processors in turn makes what is expected of the chain *)

LEMMA DataType ==
    ASSUME NEW d \in Data
    PROVE  /\ d \in Results /\ d.of \in Objects /\ d.kind \in {"none", "null", "other", "object"}
           /\ d.kind = "object" => d = Object(d.of)
<1>1. ASSUME NEW k \in {"none", "null", "other"}, d = Bare(k)
      PROVE  d \in Results /\ d.of = NoFields /\ d.kind = k
  BY <1>1, NoFieldsType DEF Bare, Results, Kinds
<1>2. ASSUME NEW o \in Objects, d = Object(o)
      PROVE  d \in Results /\ d.of = o /\ d.kind = "object"
  BY <1>2 DEF Object, Results, Kinds
<1>3. CASE \E k \in {"none", "null", "other"} : d = Bare(k)
  BY <1>1, <1>3, NoFieldsType DEF NoFields
<1>4. CASE \E o \in Objects : d = Object(o)
  BY <1>2, <1>4
<1> QED
  BY <1>3, <1>4 DEF Data

LEMMA LastOfTop ==
    ASSUME NEW S \in SUBSET Nat, NEW n \in S, \A k \in S : k <= n PROVE LastOf(S) = n
<1>1. \A i \in S : (\A j \in S : j <= i) => i = n
  OBVIOUS
<1>2. LastOf(S) = CHOOSE i \in S : \A j \in S : j <= i
  BY DEF LastOf
<1> QED
  BY <1>1, <1>2

LEMMA LastOfNone == LastOf({}) = 0
BY DEF LastOf

\* One more processor: it is the last to decide, or the last to mask, or
\* neither changes.
LEMMA LastStep ==
    ASSUME NEW c, NEW n \in Nat, NEW f, LastDecision(c, n, f) \in 0 .. n
    PROVE  /\ Decides(c[n + 1], f) =>
                 LastDecision(c, n + 1, f) = n + 1 /\ LastMask(c, n + 1, f) = 0
           /\ ~Decides(c[n + 1], f) =>
                 /\ LastDecision(c, n + 1, f) = LastDecision(c, n, f)
                 /\ LastMask(c, n + 1, f) = IF Masks(c[n + 1], f) THEN n + 1 ELSE LastMask(c, n, f)
<1> DEFINE S(m) == {k \in 1 .. m : Decides(c[k], f)}
           T(l, m) == {k \in l + 1 .. m : Masks(c[k], f)}
<1>1. /\ \A m : LastDecision(c, m, f) = LastOf(S(m))
      /\ \A m : LastMask(c, m, f) = LastOf(T(LastDecision(c, m, f), m))
  BY DEF LastDecision, LastMask
<1>2. CASE Decides(c[n + 1], f)
  <2>1. S(n + 1) \in SUBSET Nat /\ n + 1 \in S(n + 1) /\ \A k \in S(n + 1) : k <= n + 1
    BY <1>2
  <2>2. LastOf(S(n + 1)) = n + 1
    <3> HIDE DEF S
    <3> QED BY <2>1, LastOfTop
  <2>3. T(n + 1, n + 1) = {}
    OBVIOUS
  <2> QED BY <1>1, <1>2, <2>2, <2>3, LastOfNone
<1>3. CASE ~Decides(c[n + 1], f)
  <2>1. S(n + 1) = S(n)
    BY <1>3
  <2> DEFINE i == LastDecision(c, n, f)
  <2>2. LastDecision(c, n + 1, f) = i /\ i \in 0 .. n
    BY <1>1, <2>1
  <2> HIDE DEF i
  <2>3. CASE Masks(c[n + 1], f)
    <3>1. T(i, n + 1) \in SUBSET Nat /\ n + 1 \in T(i, n + 1) /\ \A k \in T(i, n + 1) : k <= n + 1
      BY <2>2, <2>3
    <3>2. LastOf(T(i, n + 1)) = n + 1
      <4> HIDE DEF T
      <4> QED BY <3>1, LastOfTop
    <3>3. LastMask(c, n + 1, f) = n + 1
      BY <1>1, <2>2, <3>2
    <3> QED BY <1>3, <2>2, <2>3, <3>3 DEF i
  <2>4. CASE ~Masks(c[n + 1], f)
    <3>1. T(i, n + 1) = T(i, n)
      BY <2>2, <2>4
    <3>2. LastMask(c, n + 1, f) = LastOf(T(i, n))
      BY <1>1, <2>2, <3>1
    <3>3. LastMask(c, n, f) = LastOf(T(i, n))
      BY <1>1 DEF i
    <3> QED BY <1>3, <2>2, <2>4, <3>2, <3>3 DEF i
  <2> QED BY <2>3, <2>4
<1> QED
  BY <1>2, <1>3

\* What is known of field f after n processors that did not fail.
Known(c, n, d, f) ==
    /\ LastDecision(c, n, f) \in 0 .. n
    /\ Decided(c, n, Base(d), f) \in Decodable \cup {Absent}
    /\ ~Objectifies(c, n, d) => Decided(c, n, Base(d), f) = Absent
    /\ LastMask(c, n, f) # 0 => c[LastMask(c, n, f)].map[f] \in Texts

\* Nothing has run.
LEMMA ExpectedNone ==
    ASSUME NEW c, NEW d \in Data
    PROVE  Expected(c, 0, d) = d /\ \A f \in Fields : Known(c, 0, d, f)
<1>1. 1 .. 0 = {} /\ 0 + 1 = 1
  OBVIOUS
<1>2. ASSUME NEW f \in Fields
      PROVE  /\ LastDecision(c, 0, f) = 0 /\ LastMask(c, 0, f) = 0
             /\ Decided(c, 0, Base(d), f) = Base(d)[f] /\ ExpectedField(c, 0, Base(d), f) = Base(d)[f]
  <2>1. LastDecision(c, 0, f) = 0
    BY <1>1, LastOfNone DEF LastDecision
  <2>2. LastMask(c, 0, f) = 0
    BY <1>1, <2>1, LastOfNone DEF LastMask
  <2> QED BY <1>1, <2>1, <2>2 DEF Decided, ExpectedField
<1>3. Objectifies(c, 0, d) <=> Decodes(d)
  BY <1>1 DEF Objectifies
<1>4. Expected(c, 0, d) = d
  <2>1. CASE Decodes(d)
    <3>1. [f \in Fields |-> ExpectedField(c, 0, Base(d), f)] = Base(d)
      BY <1>2, DataType, BaseType
    <3> QED BY <1>3, <2>1, <3>1, DataType, BaseType DEF Expected
  <2>2. CASE ~Decodes(d)
    BY <1>3, <2>2 DEF Expected
  <2> QED BY <2>1, <2>2
<1>5. ASSUME NEW f \in Fields PROVE Known(c, 0, d, f)
  <2>1. Base(d)[f] \in Decodable \cup {Absent} /\ (~Decodes(d) => Base(d)[f] = Absent)
    BY DataType, BaseType
  <2> QED BY <1>2, <1>3, <2>1 DEF Known
<1> QED
  BY <1>4, <1>5

\* What processor n + 1 does to what is decided about a field and to the mask.
LEMMA DecidedStep ==
    ASSUME NEW c, NEW n \in Nat, NEW o, NEW f, LastDecision(c, n, f) \in 0 .. n
    PROVE  Decided(c, n + 1, o, f) =
               IF ~Decides(c[n + 1], f) THEN Decided(c, n, o, f)
               ELSE IF c[n + 1].type = "field_add" THEN c[n + 1].map[f] ELSE Absent
<1>1. CASE Decides(c[n + 1], f)
  <2>1. LastDecision(c, n + 1, f) = n + 1 /\ n + 1 # 0
    BY <1>1, LastStep
  <2> QED BY <1>1, <2>1 DEF Decided
<1>2. CASE ~Decides(c[n + 1], f)
  BY <1>2, LastStep DEF Decided
<1> QED
  BY <1>1, <1>2

\* What it makes of the field that is expected after n processors.
LEMMA FieldStep ==
    ASSUME NEW c, NEW n \in Nat, NEW d, NEW f, Known(c, n, d, f), c[n + 1] \in Made, f \in Fields
    PROVE  LET p == c[n + 1]
               w == ExpectedField(c, n, Base(d), f)
           IN  /\ w \in Decodable \cup {Absent}
               /\ w = Absent <=> Decided(c, n, Base(d), f) = Absent
               /\ ExpectedField(c, n + 1, Base(d), f) =
                     IF Decides(p, f) THEN IF p.type = "field_add" THEN p.map[f] ELSE Absent
                     ELSE IF Masks(p, f) /\ w # Absent THEN p.map[f]
                     ELSE IF p.type = "unknown" THEN w ELSE Decode(w)
<1> DEFINE p == c[n + 1]
           w == ExpectedField(c, n, Base(d), f)
           v == Decided(c, n, Base(d), f)
           i == LastDecision(c, n, f)
           m == LastMask(c, n, f)
           U(l, k) == \E j \in l + 1 .. k : c[j].type # "unknown"
<1>1. /\ i \in 0 .. n /\ v \in Decodable \cup {Absent} /\ (m # 0 => c[m].map[f] \in Texts)
      /\ w = IF v # Absent /\ m # 0 THEN c[m].map[f] ELSE IF U(i, n) THEN Decode(v) ELSE v
  BY DEF Known, ExpectedField
<1>2. /\ Texts \subseteq Decodable /\ Absent \notin Decodable
      /\ \A x \in Decodable : Decode(x) \in Decodable /\ Decode(Decode(x)) = Decode(x)
      /\ \A x \in Texts : Decode(x) = x
      /\ Decode(Absent) = Absent
  BY PipelineAssumption DEF Decode, Encodable, Decodable
<1> HIDE DEF w, v, i, m, U
<1>3. w \in Decodable \cup {Absent} /\ (w = Absent <=> v = Absent)
  BY <1>1, <1>2
<1>4. CASE Decides(p, f)
  <2>1. /\ LastDecision(c, n + 1, f) = n + 1 /\ LastMask(c, n + 1, f) = 0
        /\ (n + 1) + 1 .. n + 1 = {}
    BY <1>1, <1>4, LastStep DEF i
  <2>2. Decided(c, n + 1, Base(d), f) = IF p.type = "field_add" THEN p.map[f] ELSE Absent
    BY <1>1, <1>4, DecidedStep DEF i
  <2>3. ExpectedField(c, n + 1, Base(d), f) = Decided(c, n + 1, Base(d), f)
    BY <2>1 DEF ExpectedField
  <2> QED BY <1>3, <1>4, <2>2, <2>3 DEF w, v
<1>5. CASE ~Decides(p, f)
  <2>1. /\ LastDecision(c, n + 1, f) = i
        /\ LastMask(c, n + 1, f) = IF Masks(p, f) THEN n + 1 ELSE m
        /\ Decided(c, n + 1, Base(d), f) = v
    BY <1>1, <1>5, LastStep, DecidedStep DEF i, m, v
  <2>2. U(i, n + 1) <=> U(i, n) \/ p.type # "unknown"
    BY <1>1 DEF U
  <2>3. CASE Masks(p, f)
    <3>1. LastMask(c, n + 1, f) # 0 /\ c[LastMask(c, n + 1, f)].map[f] = p.map[f]
      BY <2>1, <2>3
    <3>2. p.type = "field_redact"
      BY <2>3 DEF Masks
    <3>3. ExpectedField(c, n + 1, Base(d), f) =
              IF v # Absent THEN p.map[f] ELSE IF U(i, n + 1) THEN Decode(v) ELSE v
      BY <2>1, <3>1 DEF ExpectedField, U
    <3>4. ExpectedField(c, n + 1, Base(d), f) = IF w # Absent THEN p.map[f] ELSE Decode(w)
      BY <1>2, <1>3, <2>2, <3>2, <3>3
    <3> QED BY <1>3, <1>5, <2>3, <3>2, <3>4 DEF w, v
  <2>4. CASE ~Masks(p, f)
    <3>1. ExpectedField(c, n + 1, Base(d), f) =
              IF v # Absent /\ m # 0 THEN c[m].map[f]
              ELSE IF U(i, n + 1) THEN Decode(v) ELSE v
      BY <2>1, <2>4 DEF ExpectedField, U
    <3>2. ExpectedField(c, n + 1, Base(d), f) = IF p.type = "unknown" THEN w ELSE Decode(w)
      BY <1>1, <1>2, <2>2, <3>1
    <3> QED BY <1>3, <1>5, <2>4, <3>2 DEF w, v
  <2> QED BY <2>3, <2>4
<1> QED
  BY <1>4, <1>5

\* What is known goes on being known.
LEMMA KnownStep ==
    ASSUME NEW c, NEW n \in Nat, NEW d \in Data, NEW f \in Fields, Known(c, n, d, f),
           c[n + 1] \in Made, c[n + 1].type = "field_add" =>
               /\ c[n + 1].map[f] \notin Unencodable
               /\ c[n + 1].map[f] = Absent \/ Objectifies(c, n + 1, d)
    PROVE  Known(c, n + 1, d, f)
<1> DEFINE p == c[n + 1]
<1>1. /\ LastDecision(c, n, f) \in 0 .. n /\ Decided(c, n, Base(d), f) \in Decodable \cup {Absent}
      /\ p.type = "field_redact" => p.map[f] \in Texts \cup {Absent}
      /\ p.map[f] \in (Values \ Undecodable) \cup {Absent}
  BY DEF Known, Made, Processors, Maps
<1>2. LastDecision(c, n + 1, f) \in 0 .. n + 1
  BY <1>1, LastStep
<1>3. Decided(c, n + 1, Base(d), f) =
          IF ~Decides(p, f) THEN Decided(c, n, Base(d), f)
          ELSE IF p.type = "field_add" THEN p.map[f] ELSE Absent
  BY <1>1, DecidedStep
<1>4. Decided(c, n + 1, Base(d), f) \in Decodable \cup {Absent}
  BY <1>1, <1>3 DEF Encodable, Decodable
<1>5. Objectifies(c, n, d) => Objectifies(c, n + 1, d)
  BY DEF Objectifies
<1>6. ASSUME ~Objectifies(c, n + 1, d) PROVE Decided(c, n + 1, Base(d), f) = Absent
  <2>1. Decided(c, n, Base(d), f) = Absent
    BY <1>5, <1>6 DEF Known
  <2> QED BY <1>3, <1>6, <2>1
<1>7. ASSUME LastMask(c, n + 1, f) # 0 PROVE c[LastMask(c, n + 1, f)].map[f] \in Texts
  <2>1. ~Decides(p, f) /\ LastMask(c, n + 1, f) = IF Masks(p, f) THEN n + 1 ELSE LastMask(c, n, f)
    BY <1>1, <1>7, LastStep
  <2>2. Masks(p, f) => p.map[f] \in Texts
    BY <1>1 DEF Masks
  <2> QED BY <1>7, <2>1, <2>2 DEF Known
<1> QED
  BY <1>2, <1>4, <1>6, <1>7 DEF Known

\* A processor that does not fail makes, of what is expected after n processors,
\* what is expected after n + 1.
LEMMA ExpectedOneMore ==
    ASSUME NEW c, NEW n \in Nat, NEW d \in Data, c[n + 1] \in Made,
           \A f \in Fields : Known(c, n, d, f),
           Process(c[n + 1], Expected(c, n, d)).kind \notin {"error", "panic"}
    PROVE  /\ Process(c[n + 1], Expected(c, n, d)) = Expected(c, n + 1, d)
           /\ \A f \in Fields : Known(c, n + 1, d, f)
<1> DEFINE p == c[n + 1]
           e == Expected(c, n, d)
           W == [f \in Fields |-> ExpectedField(c, n, Base(d), f)]
           X == [f \in Fields |-> ExpectedField(c, n + 1, Base(d), f)]
           ob == Objectifies(c, n, d)
           obs == Objectifies(c, n + 1, d)
<1>1. /\ p.type \in Types /\ p.map \in Maps /\ p.mode \in {"include", "exclude"}
      /\ d.kind \in {"none", "null", "other", "object"}
  BY DataType DEF Made, Processors
<1>2. ASSUME NEW f \in Fields
      PROVE  /\ X[f] = IF Decides(p, f) THEN IF p.type = "field_add" THEN p.map[f] ELSE Absent
                       ELSE IF Masks(p, f) /\ W[f] # Absent THEN p.map[f]
                       ELSE IF p.type = "unknown" THEN W[f] ELSE Decode(W[f])
             /\ ~ob => W[f] = Absent
             /\ W[f] \in Decodable \cup {Absent}
  <2>1. Known(c, n, d, f)
    OBVIOUS
  <2>2. ~ob => Decided(c, n, Base(d), f) = Absent
    BY <2>1 DEF Known
  <2> QED BY <2>1, <2>2, FieldStep
<1>3. /\ e = IF ob THEN Object(W) ELSE d
      /\ Expected(c, n + 1, d) = IF obs THEN Object(X) ELSE d
  BY DEF Expected
<1>4. /\ ob => obs
      /\ obs <=> \/ ob
                 \/ d.kind # "null" /\ p.type = "field_add"
                 \/ d.kind = "null" /\ p.type = "field_filter" /\ p.mode = "include"
  <2>1. 1 .. n + 1 = (1 .. n) \cup {n + 1}
    OBVIOUS
  <2> QED BY <2>1 DEF Objectifies
<1>5. ~ob => ~Decodes(d) /\ Base(d) = NoFields
  BY DEF Objectifies, Base
<1>6. Object(W).kind = "object" /\ Object(W).of = W /\ Decodes(Object(W)) /\ Base(Object(W)) = W
  <2>1. \A f \in Fields : W[f] \notin Undecodable
    BY <1>2, PipelineAssumption DEF Encodable, Decodable
  <2> QED BY <2>1 DEF Object, Decodes, Base
<1>7. Process(p, e).kind \notin {"error", "panic"}
  OBVIOUS
<1>8. p.type = "field_add" => \/ \A f \in Fields : p.map[f] \notin Unencodable
                              \/ d.kind = "null" /\ ~ob
  BY <1>3, <1>6, <1>7 DEF Process, FieldAdd, Bare
<1>9. p.type = "field_add" /\ d.kind = "null" /\ ~ob => p.map = NoFields
  BY <1>3, <1>7 DEF Process, FieldAdd, Bare
<1>10. Decode(Absent) = Absent
  BY DEF Decode
<1> HIDE DEF e, W, X, ob, obs
<1>11. Process(p, e) = Expected(c, n + 1, d)
  <2>1. CASE p.type = "field_filter"
    <3>1. ASSUME NEW f \in Fields
          PROVE  X[f] = IF (f \in p.names) = (p.mode = "include") THEN Decode(W[f]) ELSE Absent
      BY <1>2, <2>1 DEF Decides, Masks
    <3>2. CASE ob
      <4>1. Process(p, e) = Object(Filtered(p, W))
        BY <1>3, <1>6, <2>1, <3>2 DEF Process, FieldFilter
      <4>2. Filtered(p, W) = X
        BY <3>1 DEF Filtered, X
      <4> QED BY <1>3, <1>4, <3>2, <4>1, <4>2
    <3>3. CASE ~ob /\ d.kind = "null" /\ p.mode = "include"
      <4>1. Process(p, e) = Object(NoFields)
        BY <1>3, <2>1, <3>3 DEF Process, FieldFilter
      <4>2. X = NoFields
        BY <1>2, <1>10, <3>1, <3>3 DEF X, NoFields
      <4> QED BY <1>3, <1>4, <2>1, <3>3, <4>1, <4>2
    <3>4. CASE ~ob /\ ~(d.kind = "null" /\ p.mode = "include")
      BY <1>3, <1>4, <1>5, <2>1, <3>4 DEF Process, FieldFilter
    <3> QED BY <3>2, <3>3, <3>4
  <2>2. CASE p.type = "field_add"
    <3>1. ASSUME NEW f \in Fields
          PROVE  X[f] = IF p.map[f] # Absent THEN p.map[f] ELSE Decode(W[f])
      BY <1>2, <2>2 DEF Decides, Masks
    <3>2. CASE ob
      <4>1. Process(p, e) = Object(Added(p, W))
        BY <1>3, <1>6, <1>8, <2>2, <3>2 DEF Process, FieldAdd
      <4>2. Added(p, W) = X
        BY <3>1 DEF Added, X
      <4> QED BY <1>3, <1>4, <3>2, <4>1, <4>2
    <3>3. CASE ~ob /\ d.kind = "null"
      BY <1>3, <1>4, <1>9, <2>2, <3>3 DEF Process, FieldAdd
    <3>4. CASE ~ob /\ d.kind # "null"
      <4>1. Process(p, e) = Object(Added(p, NoFields))
        BY <1>3, <1>5, <1>8, <2>2, <3>4 DEF Process, FieldAdd
      <4>2. ASSUME NEW f \in Fields PROVE NoFields[f] = W[f]
        BY <1>2, <3>4 DEF NoFields
      <4>3. Added(p, NoFields) = X
        BY <3>1, <4>2 DEF Added, X
      <4> QED BY <1>1, <1>3, <1>4, <1>5, <2>2, <3>4, <4>1, <4>3
    <3> QED BY <3>2, <3>3, <3>4
  <2>3. CASE p.type = "field_redact"
    <3>1. ASSUME NEW f \in Fields
          PROVE  X[f] = IF p.map[f] # Absent /\ W[f] # Absent THEN p.map[f] ELSE Decode(W[f])
      BY <1>2, <2>3 DEF Decides, Masks
    <3>2. CASE ob
      <4>1. Process(p, e) = Object(Masked(p, W))
        BY <1>3, <1>6, <2>3, <3>2 DEF Process, FieldRedact
      <4>2. Masked(p, W) = X
        BY <3>1 DEF Masked, X
      <4> QED BY <1>3, <1>4, <3>2, <4>1, <4>2
    <3>3. CASE ~ob
      BY <1>3, <1>4, <1>5, <2>3, <3>3 DEF Process, FieldRedact
    <3> QED BY <3>2, <3>3
  <2>4. CASE p.type = "unknown"
    <3>1. ASSUME NEW f \in Fields PROVE X[f] = W[f]
      BY <1>2, <2>4 DEF Decides, Masks
    <3>2. X = W
      BY <3>1 DEF X, W
    <3>3. Process(p, e) = e
      BY <2>4 DEF Process
    <3> QED BY <1>3, <1>4, <2>4, <3>2, <3>3
  <2> QED BY <1>1, <2>1, <2>2, <2>3, <2>4 DEF Types
<1>12. ASSUME NEW f \in Fields PROVE Known(c, n + 1, d, f)
  <2>1. ASSUME p.type = "field_add"
        PROVE  p.map[f] \notin Unencodable /\ (p.map[f] = Absent \/ obs)
    <3>1. CASE ~ob /\ d.kind = "null"
      BY <1>9, <2>1, <3>1, PipelineAssumption DEF NoFields
    <3>2. CASE ob \/ d.kind # "null"
      BY <1>1, <1>4, <1>5, <1>8, <2>1, <3>2
    <3> QED BY <3>1, <3>2
  <2> QED BY <2>1, KnownStep DEF obs
<1> QED
  BY <1>11, <1>12 DEF e

\* What the processors so far have made of the data decodes: data that does not
\* is the data as it came.
LEMMA ExpectedPasses ==
    ASSUME NEW c, NEW n \in Nat, NEW d, c[n + 1] \in Made, \A f \in Fields : Known(c, n, d, f),
           Passes(Expected(c, n, d))
    PROVE  Expected(c, n, d) = d
<1> DEFINE W == [f \in Fields |-> ExpectedField(c, n, Base(d), f)]
<1>1. \A f \in Fields : ExpectedField(c, n, Base(d), f) \in Decodable \cup {Absent}
  BY FieldStep
<1>2. \A f \in Fields : W[f] \notin Undecodable
  BY <1>1, PipelineAssumption DEF Encodable, Decodable
<1> HIDE DEF W
<1>3. ~Passes(Object(W))
  BY <1>2 DEF Passes, Decodes, Object
<1> QED
  BY <1>3 DEF Expected, W

=============================================================================
