------------------------------ MODULE Pipeline ------------------------------
(***************************************************************************)
(* The processors of internal/pipeline and the chain of a project.         *)
(*                                                                         *)
(* The Data of a message is JSON.  What the processors tell apart is       *)
(* whether there is data at all, whether it is null, an object or          *)
(* something else, and the value of each field of an object.  An object is *)
(* a function on Fields; a field it does not have is Absent.               *)
(***************************************************************************)
EXTENDS Integers, Sequences

CONSTANTS
    Fields,       \* field names
    Values,       \* field values
    Texts,        \* the values that are strings
    Unencodable,  \* values of the YAML file that json.Marshal refuses
    Undecodable,  \* values of a request that json.Unmarshal refuses: numbers
                  \* outside float64
    Absent,       \* not a value
    Reencode      \* what Unmarshal and Marshal make of a value: a number
                  \* passes through float64

Encodable == Values \ Unencodable
Decodable == Encodable \ Undecodable

\* Entries of a configuration map, and fields of a JSON object.
Maps    == [Fields -> (Values \ Undecodable) \cup {Absent}]
Objects == [Fields -> Encodable \cup {Absent}]

Kinds == {"none", "null", "other", "object", "error", "panic"}

\* Data, or the outcome of a processor that does not return a message.
Results == [kind : Kinds, of : Objects]

ASSUME PipelineAssumption ==
    /\ Texts \subseteq Values /\ Unencodable \subseteq Values \ Texts
    /\ Undecodable \subseteq Encodable \ Texts
    /\ Absent \notin Values
    /\ Reencode \in [Decodable -> Decodable]
    /\ \A v \in Decodable : Reencode[Reencode[v]] = Reencode[v]
    /\ \A v \in Texts : Reencode[v] = v

NoFields == [f \in Fields |-> Absent]

Bare(kind) == [kind |-> kind, of |-> NoFields]

Object(o) == [kind |-> "object", of |-> o]

\* The Data of a message.
Data == {Bare(kind) : kind \in {"none", "null", "other"}} \cup {Object(o) : o \in Objects}

\* json.Unmarshal makes a map of the data; it returns an error for no data, for
\* what is not an object and for an object with a number it cannot represent.
Decodes(d) == d.kind = "object" /\ \A f \in Fields : d.of[f] \notin Undecodable

\* A JSON value decoded into an interface{} and encoded again.
Decode(v) == IF v = Absent THEN Absent ELSE Reencode[v]

-----------------------------------------------------------------------------
(* Processors.  A processor has a type, a mode, the names of a filter and  *)
(* the entries of the map of the two others.                               *)

Types == {"field_filter", "field_add", "field_redact", "unknown"}

Processors == [type : Types, mode : {"include", "exclude"},
               names : SUBSET Fields, map : Maps]

\* An entry of "pipelines" in the configuration file.
Refs == [type : Types, mode : {"include", "exclude", "unset"},
         names : SUBSET Fields, map : Maps]

\* A mask that is not a string is ignored.
Entries(ref) ==
    [f \in Fields |-> IF ref.type = "field_redact" /\ ref.map[f] \notin Texts
                      THEN Absent ELSE ref.map[f]]

\* Variant: the mode is taken as it is.
RawModeVariant(ref) ==
    [type |-> ref.type, mode |-> ref.mode, names |-> ref.names, map |-> Entries(ref)]

\* The factories: a mode that is not a known one means exclude.
Create(ref) ==
    [type |-> ref.type,
     mode |-> IF ref.mode = "include" THEN "include" ELSE "exclude",
     names |-> ref.names, map |-> Entries(ref)]

\* buildPipelineChain: an entry of an unknown type is skipped with a warning; a
\* processor without effect stands for it.
buildPipelineChain(refs) == [i \in 1 .. Len(refs) |-> Create(refs[i])]

\* FieldFilter.Process: data that does not decode passes; null is a nil map,
\* which include replaces by an empty one.
Filtered(p, o) ==
    [f \in Fields |-> IF (f \in p.names) = (p.mode = "include")
                      THEN Decode(o[f]) ELSE Absent]

FieldFilter(p, d) ==
    CASE Decodes(d)                                -> Object(Filtered(p, d.of))
      [] d.kind = "null" /\ p.mode = "include"     -> Object(NoFields)
      [] OTHER                                     -> d

Added(p, o) == [f \in Fields |-> IF p.map[f] # Absent THEN p.map[f] ELSE Decode(o[f])]

\* The map that FieldAdd starts from: an empty one for data that does not decode.
Base(d) == IF Decodes(d) THEN d.of ELSE NoFields

\* FieldAdd.Process: null becomes a nil map, and an assignment to it panics.
FieldAdd(p, d) ==
    CASE d.kind = "null" ->
            IF p.map = NoFields THEN d ELSE Bare("panic")
      [] d.kind # "null" /\ \E f \in Fields : p.map[f] \in Unencodable ->
            Bare("error")
      [] OTHER ->
            Object(Added(p, Base(d)))

\* Variant: the mask is used only when the value is a string.
MaskTextsVariant(p, o) ==
    [f \in Fields |-> IF p.map[f] # Absent /\ o[f] \in Texts THEN p.map[f] ELSE Decode(o[f])]

Masked(p, o) ==
    [f \in Fields |-> IF p.map[f] # Absent /\ o[f] # Absent THEN p.map[f] ELSE Decode(o[f])]

\* FieldRedact.Process: data that does not decode passes as it is.
FieldRedact(p, d) == IF Decodes(d) THEN Object(Masked(p, d.of)) ELSE d

Process(p, d) ==
    CASE p.type = "field_filter" -> FieldFilter(p, d)
      [] p.type = "field_add"    -> FieldAdd(p, d)
      [] p.type = "field_redact" -> FieldRedact(p, d)
      [] p.type = "unknown"      -> d

-----------------------------------------------------------------------------
(* What a chain is meant to make of data: a definition to compare the      *)
(* processors with, by field and without running them in turn.             *)

\* The processor p decides about field f whatever its value is.
Decides(p, f) ==
    \/ p.type = "field_add" /\ p.map[f] # Absent
    \/ p.type = "field_filter" /\ (f \in p.names) # (p.mode = "include")

Masks(p, f) == p.type = "field_redact" /\ p.map[f] # Absent

LastOf(S) == IF S = {} THEN 0 ELSE CHOOSE i \in S : \A j \in S : j <= i

\* Of the first n processors of a chain, the last one that decides about f, the
\* last one after it that masks f, and what the former leaves in f.
LastDecision(c, n, f) == LastOf({k \in 1 .. n : Decides(c[k], f)})
LastMask(c, n, f) == LastOf({k \in LastDecision(c, n, f) + 1 .. n : Masks(c[k], f)})

Decided(c, n, o, f) ==
    LET i == LastDecision(c, n, f)
    IN  IF i = 0 THEN o[f] ELSE IF c[i].type = "field_add" THEN c[i].map[f] ELSE Absent

\* What they make of one field of an object, told from these two alone.
ExpectedField(c, n, o, f) ==
    IF Decided(c, n, o, f) # Absent /\ LastMask(c, n, f) # 0
    THEN c[LastMask(c, n, f)].map[f]
    ELSE IF \E k \in LastDecision(c, n, f) + 1 .. n : c[k].type # "unknown"
    THEN Decode(Decided(c, n, o, f)) ELSE Decided(c, n, o, f)

\* They make an object of the data.
Objectifies(c, n, d) ==
    \/ Decodes(d)
    \/ d.kind # "null" /\ \E i \in 1 .. n : c[i].type = "field_add"
    \/ d.kind = "null" /\ \E i \in 1 .. n : c[i].type = "field_filter" /\ c[i].mode = "include"

Expected(c, n, d) ==
    IF Objectifies(c, n, d) THEN Object([f \in Fields |-> ExpectedField(c, n, Base(d), f)]) ELSE d

\* Of the first n processors one redacts f, and none adds it afterwards.
Redacts(c, n, f) ==
    \E i \in 1 .. n :
        /\ Masks(c[i], f)
        /\ \A j \in i + 1 .. n : ~(c[j].type = "field_add" /\ c[j].map[f] # Absent)

\* The data shows nothing but a mask in f.
Hides(d, f) == d.kind = "object" => d.of[f] \in Texts \cup {Absent}

=============================================================================
