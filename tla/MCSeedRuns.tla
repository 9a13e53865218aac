------------------------------ MODULE MCSeedRuns -------------------------------
(* Model checking of SeedRuns with Dataset: three tables, the first with two    *)
(* records on the source instance, specs with a chain of references, with       *)
(* other dependencies, with a cycle, and with a table that is not listed.        *)
EXTENDS SeedRuns

MCTables == 1 .. 3
MCIds == 1 .. 3
MCTableOf == <<1, 1, 2>>
MCKeys == {11, 12}

Refs(refs, after) == [refs |-> refs, after |-> after]
MCShapes ==
  {Refs({<<2, 1>>}, {<<1, 3>>}), Refs({<<2, 1>>}, {<<1, 2>>}), Refs({<<2, Missing>>}, {})}

To(i) == [t \in MCTables |-> IF t = 1 THEN i ELSE None]
At1(key) == [here |-> TRUE, key |-> key, to |-> To(None)]
MCSources ==
  {<<At1(11), At1(k), [here |-> TRUE, key |-> 11, to |-> To(2)]>> : k \in {12, None}}

MCSchemas ==
  {[source |-> Fields \ {"system"}, target |-> t, required |-> {"key"}] :
     t \in {Fields \ {"system"}, {"key"}}}

MCSeedShapes == {Refs({<<2, 1>>, <<3, 2>>}, {}), Refs({<<1, 2>>}, {}), Refs({<<1, 2>>, <<2, 1>>}, {})}
MCCounts == {<<1, 2, 1>>}

(* The orders of the tables against the algorithms that the code runs, and      *)
(* against a reference definition: every table after what it depends on.        *)

\* topo_sort_dependencies, with its queue.
RECURSIVE TopoSort(_, _, _, _)
TopoSort(deps, waiting, ready, order) ==
  IF ready = <<>> THEN order
  ELSE LET table == Head(ready)
           rest == [t \in DOMAIN waiting \ {table} |-> waiting[t] \ {table}]
           freed == {t \in DOMAIN rest : <<t, table>> \in deps /\ rest[t] = {}}
       IN  TopoSort(deps, rest, Tail(ready) \o Ascending(freed), Append(order, table))
Sorted(deps) ==
  LET waiting == [t \in Tables |-> {d \in Tables : <<t, d>> \in deps}]
  IN  TopoSort(deps, waiting, Ascending({t \in Tables : waiting[t] = {}}), <<>>)

\* topological_order, one table at a time.
RECURSIVE Place(_, _, _)
Place(shape, left, order) ==
  LET ready == {t \in left : \A d \in Targets(shape, t) : d \in ToSet(order)}
  IN  IF ready = {} THEN order
      ELSE LET first == Head(Ascending(ready)) IN Place(shape, left \ {first}, Append(order, first))

IsOrderOf(order, deps) ==
  /\ Len(order) = Cardinality(Tables) /\ ToSet(order) = Tables
  /\ \A i, j \in DOMAIN order : <<order[i], order[j]>> \in deps => j < i

Relations == SUBSET (MCTables \X MCTables)
ASSUME ImportOrderIsRight ==
  \A deps \in Relations :
    LET shape == Refs({}, deps)
    IN  IF \E p \in Orders : IsOrderOf(p, deps)
        THEN /\ IsAcceptable(shape) /\ OrderOf(shape) = Sorted(deps)
             /\ IsOrderOf(OrderOf(shape), deps)
        ELSE ~IsAcceptable(shape) /\ Len(Sorted(deps)) < Cardinality(Tables)
ASSUME SeedOrderIsRight ==
  \A refs \in Relations :
    LET shape == Refs(refs, {})
        placed == Place(shape, Tables, <<>>)
    IN  IF \E p \in Orders : IsOrderOf(p, refs)
        THEN IsPlannable(shape) /\ PlaceAll(shape) = placed /\ IsOrderOf(placed, refs)
        ELSE ~IsPlannable(shape) /\ Len(placed) < Cardinality(Tables)
=============================================================================
