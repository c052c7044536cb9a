--------------------------- MODULE ProfileBuilder ---------------------------
(***************************************************************************)
(* Builder (builder.py): the profile proto, in which strings, functions    *)
(* and locations are stored once and referred to by number.  The builder's *)
(* maps from values to numbers are the inverses of the proto's tables, so  *)
(* only the tables are kept.  A number is a position, except that strings  *)
(* are numbered from 0.                                                    *)
(***************************************************************************)
EXTENDS SequencesExt

\* Find x in a table, or add it.
Added(table, x) == IF x \in ToSet(table) THEN table ELSE Append(table, x)
NumberOf(table, x) == CHOOSE i \in DOMAIN table : table[i] = x

\* __init__: string_table[0] must be the empty string.
EmptyString == ""
NewBuilder == [string_table |-> <<EmptyString>>, function |-> <<>>, location |-> <<>>,
               sample |-> <<>>]

_string_id(b, value) == NumberOf(b.string_table, value) - 1
AddString(b, value) == [b EXCEPT !.string_table = Added(@, value)]

Func(b, frame) == [name |-> _string_id(b, frame.name),
                   filename |-> _string_id(b, frame.filename)]

\* Mutated form: a function is looked up by its file.
FunctionIdByFile(b, frame) ==
  CHOOSE i \in DOMAIN b.function : b.function[i].filename = _string_id(b, frame.filename)

_function_id(b, frame) == NumberOf(b.function, Func(b, frame))
AddFunction(b, frame) ==
  LET s == AddString(AddString(b, frame.name), frame.filename)
  IN  [s EXCEPT !.function = Added(@, Func(s, frame))]

Loc(b, frame) == [func_id |-> _function_id(b, frame), line_number |-> frame.line]
_location_id(b, frame) == NumberOf(b.location, Loc(b, frame))
AddLocation(b, frame) ==
  LET f == AddFunction(b, frame)
  IN  [f EXCEPT !.location = Added(@, Loc(f, frame))]

\* One iteration of populate_profile.
AddSample(b, trace, count, period) ==
  LET l == FoldLeft(AddLocation, b, trace)
  IN  [l EXCEPT !.sample = Append(@,
         [value |-> <<count, period * count>>,
          location_id |-> [i \in DOMAIN trace |-> _location_id(l, trace[i])]])]

\* The strings of period_type and of the two sample types; those of the second
\* sample type are there already.
AddTypes(b, profile_type, period_unit) ==
  AddString(AddString(AddString(AddString(b, profile_type), period_unit), "sample"), "count")

\* The fields themselves: type and unit.
ValueType(b, type, unit) == [type |-> _string_id(b, type), unit |-> _string_id(b, unit)]

\* populate_profile, for the traces in the given order.
populate_profile(traces, order, profile_type, period_unit, period) ==
  LET b == AddTypes(NewBuilder, profile_type, period_unit)
  IN  [period_type |-> ValueType(b, profile_type, period_unit),
       sample_type |-> << ValueType(b, "sample", "count"),
                          ValueType(b, profile_type, period_unit) >>,
       tables |-> FoldLeft(LAMBDA c, trace : AddSample(c, trace, traces[trace], period),
                           b, order)]

-----------------------------------------------------------------------------
\* What a reader of the proto makes of it.
StringAt(b, id) == b.string_table[id + 1]
FrameAt(b, id) ==
  LET loc == b.location[id]
      fun == b.function[loc.func_id]
  IN  [name |-> StringAt(b, fun.name), filename |-> StringAt(b, fun.filename),
       line |-> loc.line_number]
TraceAt(b, i) == [j \in DOMAIN b.sample[i].location_id |->
                    FrameAt(b, b.sample[i].location_id[j])]

TypeIs(b, value_type, type, unit) ==
  StringAt(b, value_type.type) = type /\ StringAt(b, value_type.unit) = unit

\* The tables are of the traces: each is read back with its count and its value,
\* and nothing is stored twice.
HoldsTraces(b, traces, period) ==
  /\ b.string_table[1] = EmptyString
  /\ IsInjective(b.string_table) /\ IsInjective(b.function) /\ IsInjective(b.location)
  /\ Len(b.sample) = Cardinality(DOMAIN traces)
  /\ {TraceAt(b, i) : i \in DOMAIN b.sample} = DOMAIN traces
  /\ \A i \in DOMAIN b.sample :
       LET count == traces[TraceAt(b, i)]
       IN  b.sample[i].value = <<count, period * count>>

\* p is a proto of the traces, of values of the given type.
Represents(p, traces, profile_type, period_unit, period) ==
  /\ TypeIs(p.tables, p.period_type, profile_type, period_unit)
  /\ TypeIs(p.tables, p.sample_type[1], "sample", "count")
  /\ TypeIs(p.tables, p.sample_type[2], profile_type, period_unit)
  /\ HoldsTraces(p.tables, traces, period)
=============================================================================
