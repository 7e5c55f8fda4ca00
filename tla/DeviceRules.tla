----------------------------- MODULE DeviceRules -----------------------------
(***************************************************************************)
(* What a device's published specification lets a caller set or call:      *)
(* the parsing of DeviceSpecRepositoryImpl, then the validation of         *)
(* DeviceService and of the models, as operators.  The specification has   *)
(* one service; the properties that have no iid are not in it.  A value is *)
(* its Python type and a number; numbers count halves, so that an int is   *)
(* even and a float any.  "nan" is a float that is not finite.             *)
(***************************************************************************)
EXTENDS Integers, Sequences

Numbers == {"int", "float"}
Value(kind, n) == [kind |-> kind, n |-> n]

-----------------------------------------------------------------------------
(* Parsing *)

(* _parse_property_type: by the words in the format's name, in this order. *)
TypeOf(format) ==
  IF format = "bool" THEN "bool"
  ELSE IF format = "int32" THEN "int"
  ELSE IF format = "uint8" THEN "uint"
  ELSE IF format \in {"float", "double"} THEN "float"
  ELSE "string"

AccessOf(flags) ==
  IF "write" \in flags THEN (IF "read" \in flags THEN "read_write" ELSE "write") ELSE "read"

(* A dictionary that lacks an end gives a None, which no value passes.     *)
BoundsOf(range) ==
  IF ~({"min", "max"} \subseteq range.has) THEN <<>>
  ELSE IF "step" \in range.has THEN <<range.min, range.max, range.step>>
                               ELSE <<range.min, range.max>>

ParsedProperty(raw) ==
  [name |-> raw.name, type |-> TypeOf(raw.format), access |-> AccessOf(raw.access),
   ranged |-> raw.ranged, bounds |-> BoundsOf(raw.range),
   listed |-> raw.listed, choices |-> raw.choices]

(* A property that cannot be read is left out, and so is an action whose   *)
(* inputs repeat or name a property that is not there or cannot be read.   *)
Readable(spec) == {i \in DOMAIN spec.props : spec.props[i].sane}

Callable(spec) ==
  {a \in DOMAIN spec.acts :
     LET inputs == spec.acts[a] IN
     /\ \A i, j \in DOMAIN inputs : inputs[i] = inputs[j] => i = j
     /\ \A i \in DOMAIN inputs : inputs[i] \in Readable(spec)}

Parsed(spec) ==
  [props |-> [i \in Readable(spec) |-> ParsedProperty(spec.props[i])],
   acts |-> [a \in Callable(spec) |->
              [i \in DOMAIN spec.acts[a] |->
                [piid |-> spec.acts[a][i], rule |-> ParsedProperty(spec.props[spec.acts[a][i]])]]]]

(* The schema of before device_spec:v2, which discarded the inputs.        *)
ParsedV1(spec) == [Parsed(spec) EXCEPT !.acts = [a \in DOMAIN Parsed(spec).acts |-> <<>>]]

-----------------------------------------------------------------------------
(* Validation *)

TypeMatches(type, v) ==
  \/ type = "bool" /\ v.kind = "bool"
  \/ type = "int" /\ v.kind = "int"
  \/ type = "uint" /\ v.kind = "int" /\ v.n >= 0
  \/ type = "float" /\ v.kind \in Numbers
  \/ type = "string" /\ v.kind = "string"

StepMatches(bounds, v) ==
  Len(bounds) = 3 => bounds[3] > 0 /\ (v.n - bounds[1]) % bounds[3] = 0

RangeMatches(rule, v) ==
  rule.ranged => /\ Len(rule.bounds) \in {2, 3} /\ v.kind \in Numbers
                 /\ rule.bounds[1] <= v.n /\ v.n <= rule.bounds[2]
                 /\ StepMatches(rule.bounds, v)

ChoiceMatches(rule, v) ==
  rule.listed => \/ v \in rule.choices
                 \/ /\ rule.type = "float"
                    /\ \E c \in rule.choices : c.kind \in Numbers /\ c.n = v.n

Valid(rule, v) == TypeMatches(rule.type, v) /\ RangeMatches(rule, v) /\ ChoiceMatches(rule, v)

(* _validate_property *)
MaySet(parsed, piid, v) ==
  /\ piid \in DOMAIN parsed.props
  /\ parsed.props[piid].access \in {"write", "read_write"}
  /\ Valid(parsed.props[piid], v)

(* _ordered_action_params: every input is given once, by its name or by    *)
(* its id, no two by the same name, and nothing else is given.             *)
KeysFor(input, given) == {k \in DOMAIN given : k \in {<<"id", input.piid>>, <<"name", input.rule.name>>}}

MayCall(parsed, aiid, given) ==
  /\ aiid \in DOMAIN parsed.acts
  /\ LET inputs == parsed.acts[aiid] IN
     /\ \A i \in DOMAIN inputs :
          \E k \in DOMAIN given : /\ KeysFor(inputs[i], given) = {k}
                                  /\ Valid(inputs[i].rule, given[k])
     /\ \A i, j \in DOMAIN inputs :
          KeysFor(inputs[i], given) = KeysFor(inputs[j], given) => i = j
     /\ \A k \in DOMAIN given : \E i \in DOMAIN inputs : k \in KeysFor(inputs[i], given)

(* The arguments of an action go by position.                              *)
Arguments(parsed, aiid, given) ==
  [i \in DOMAIN parsed.acts[aiid] |->
     given[CHOOSE k \in DOMAIN given : k \in KeysFor(parsed.acts[aiid][i], given)]]

-----------------------------------------------------------------------------
(* What the published specification declares, in its own terms: the        *)
(* reference that parsing and validation together are held against.        *)
KindDeclared(format, v) ==
  \/ format = "bool" /\ v.kind = "bool"
  \/ format = "int32" /\ v.kind = "int"
  \/ format = "uint8" /\ v.kind = "int" /\ v.n \in Nat
  \/ format \in {"float", "double"} /\ v.kind \in Numbers
  \/ format \notin {"bool", "int32", "uint8", "float", "double"} /\ v.kind = "string"

RangeDeclared(range, v) ==
  /\ {"min", "max"} \subseteq range.has
  /\ v.n \in range.min .. range.max
  /\ "step" \in range.has => \E k \in 0 .. v.n - range.min : v.n = range.min + k * range.step

Declared(raw, v) ==
  /\ KindDeclared(raw.format, v)
  /\ raw.ranged => RangeDeclared(raw.range, v)
  /\ raw.listed => \E c \in raw.choices : c.n = v.n

SettingDeclared(spec, piid, v) ==
  /\ piid \in DOMAIN spec.props
  /\ "write" \in spec.props[piid].access
  /\ Declared(spec.props[piid], v)

CallDeclared(spec, aiid, arguments) ==
  /\ aiid \in DOMAIN spec.acts
  /\ DOMAIN arguments = DOMAIN spec.acts[aiid]
  /\ \A i \in DOMAIN arguments :
       /\ spec.acts[aiid][i] \in DOMAIN spec.props
       /\ Declared(spec.props[spec.acts[aiid][i]], arguments[i])

=============================================================================
