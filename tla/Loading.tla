------------------------------ MODULE Loading ------------------------------
(***************************************************************************)
(* The types of expressions, and which comparisons, modifiers and          *)
(* expressions of a configuration can be loaded for them.                  *)
(* Source: Expr.h, Comparison.cc, Modifier.cc, query.cc, Config.cc.        *)
(***************************************************************************)
EXTENDS Expressions

AnyType == Active(ValueType, ValueType)
Of(type) == Active({type}, {})

\* What the elements of a literal tuple are: anything if it has none, the one type that
\* they have, and no type in particular if they have several.
ElementTypes(fs) ==
  CASE fs = <<>> -> ValueType
    [] fs # <<>> /\ \A i \in DOMAIN fs : Type(fs[i]) = Type(Head(fs)) -> {Type(Head(fs))}
    [] OTHER -> {}

\* What a literal is; the extractors "name" and "value" are those of query-filter.
TypeOf(f) == Active({Type(f)}, IF Is(f, "TUPLE") THEN ElementTypes(Val(f)) ELSE {})

ModValidFor(key, type) ==
  CASE key = "filter" -> TRUE
    [] key \in {"hash", "rxp-replace", "query-sort", "query-filter"} -> "STRING" \in type.base
    [] key \in {"else", "concat", "url-encode", "url-decode"} -> type.base \intersect {"NIL", "STRING"} # {}
    [] key = "join" -> type.base \intersect {"NIL", "STRING", "TUPLE"} # {}
    [] key = "as-bool" -> type.base \intersect {"STRING", "INTEGER", "BOOLEAN", "TUPLE", "IP_ADDR", "NIL"} # {}
    [] key = "as-integer" -> type.base \intersect {"STRING", "INTEGER", "BOOLEAN", "NIL"} # {}
    [] key = "as-ip-addr" -> type.base \intersect {"STRING", "IP_ADDR"} # {}
    [] key = "as-duration" -> type.base \intersect {"STRING", "DURATION", "TUPLE", "NIL"} # {}

RECURSIVE ExprType(_, _)
ExprType(e, active) ==
  LET ModResult(m, type) ==
        CASE m.key = "filter" -> type
          [] m.key = "else" -> ExprType(m.arg, active)
          [] m.key \in {"join", "concat"} -> Of("STRING")
          [] m.key = "as-bool" -> Of("BOOLEAN")
          [] m.key \in {"hash", "as-integer"} -> Active({"NIL", "INTEGER"}, {})
          [] m.key = "as-ip-addr" -> Active({"NIL", "IP_ADDR"}, {})
          [] m.key = "as-duration" -> Active({"NIL", "DURATION"}, {})
          [] OTHER -> Active({"NIL", "STRING"}, {})
      raw == CASE e.kind = "lit" -> TypeOf(e.value)
               [] e.kind = "active" -> active
               [] e.kind = "var" -> AnyType
               [] e.kind \in {"name", "value"} -> Active({"NIL", "STRING"}, {})
               [] e.kind = "list" ->
                    Active({"TUPLE"}, UNION {ExprType(e.of[i], active).base : i \in DOMAIN e.of})
               [] OTHER -> Of("STRING")
  IN Carry(LAMBDA type, m : ModResult(m, type), raw, e.mods)

\* Comparison::load: the feature has a type it is for, its argument too, and the
\* comparisons in it load, those of elements for the types of elements.
RECURSIVE LoadsCmp(_, _)
LoadsCmp(c, active) ==
  \/ c.key = "none"
  \/ /\ can_satisfy(active, TypesOf(c.key))
     /\ c.key \in TextKeys \union BinaryKeys => can_satisfy(ExprType(c.arg, active), TypesOf(c.key))
     /\ c.key = "rxp" /\ c.arg.kind = "lit" => Is(c.arg.value, "STRING")
     /\ c.key = "in" => LET min == ExprType(c.min, active)
                        IN /\ min = ExprType(c.max, active)
                           /\ min.base \intersect {"INTEGER", "IP_ADDR"} # {}
                           /\ can_satisfy(active, min)
     /\ c.key \in {"any-of", "all-of", "none-of"} => \A i \in DOMAIN c.of : LoadsCmp(c.of[i], active)
     /\ c.key \in {"for-all", "for-any", "for-none", "as-tuple"} =>
          \A i \in DOMAIN c.of : LoadsCmp(c.of[i], Active(active.tuple, {}))

\* The comparisons in the cases of a filter are for an element of a tuple, those of a
\* query-filter for what the modifier is applied to.
LoadsFilter(m, type) ==
  LET element == IF "TUPLE" \in type.base THEN Active(type.tuple, {}) ELSE type
  IN \A k \in DOMAIN m.cases : LoadsCmp(m.cases[k].cmp, element)

LoadsQueryFilter(m, type) ==
  \A k \in DOMAIN m.cases : LoadsCmp(m.cases[k].cmp, type) /\ LoadsCmp(m.cases[k].valueCmp, type)

LoadsArg(m, type) ==
  LET base == ExprType(m.arg, type).base
  IN /\ m.key = "join" => "STRING" \in base
     /\ m.key = "concat" => base \intersect {"STRING", "TUPLE"} # {}
     /\ m.key = "as-integer" => (m.arg.kind = "lit" /\ is_nil(m.arg.value)) \/ "INTEGER" \in base

\* Modifier::load, in the order of the modifiers.
LoadsExpr(e, active) ==
  \A i \in DOMAIN e.mods :
    LET type == ExprType([e EXCEPT !.mods = SubSeq(@, 1, i - 1)], active)
        m == e.mods[i]
    IN /\ ModValidFor(m.key, type)
       /\ m.key = "filter" => LoadsFilter(m, type)
       /\ m.key = "query-filter" => LoadsQueryFilter(m, type)
       /\ m.key \in {"join", "concat", "as-integer"} => LoadsArg(m, type)
=============================================================================
