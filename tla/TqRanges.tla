------------------------------ MODULE TqRanges ------------------------------
(***************************************************************************)
(* tquic's RangeSet: a set of u64 values kept as disjoint, non-adjacent    *)
(* half-open ranges in a BTreeMap from start to end.  A range is           *)
(* <<start, end>>, a RangeSet is a finite set of ranges.                   *)
(***************************************************************************)
EXTENDS Integers, FiniteSets, FiniteSetsExt

Start(r) == r[1]
End(r) == r[2]
NoRange == <<-1, -1>>      \* Option::None of a range

(* The values of a RangeSet.                                               *)
RsElems(s) == UNION {Start(r)..(End(r) - 1) : r \in s}

(* The RangeSet of a set of values.                                        *)
RsOf(points) ==
  {<<a, b>> \in points \X {n + 1 : n \in points} :
     a < b /\ (a..(b - 1)) \subseteq points /\ a - 1 \notin points /\ b \notin points}

(* peek_min, the first entry of the map, and the extremes of a set.        *)
RsFirst(s) == CHOOSE r \in s : \A q \in s : Start(r) <= Start(q)
RsLast(s) == CHOOSE r \in s : \A q \in s : Start(r) >= Start(q)
RsMin(s) == Start(RsFirst(s))
RsMax(s) == End(RsLast(s)) - 1

(* prev_to(elem), next_after(elem)                                         *)
RsPrevTo(s, elem) ==
  LET before == {r \in s : Start(r) <= elem} IN
  IF before = {} THEN NoRange ELSE RsLast(before)
RsNextAfter(s, elem) ==
  LET after == {r \in s : Start(r) > elem} IN
  IF after = {} THEN NoRange ELSE RsFirst(after)

(* insert(range): every range that overlaps or abuts the new one is merged *)
(* into it; at the capacity the lowest range of the others gives way.      *)
RsInsertInto(s, range, capacity) ==
  LET touch == {r \in s : Start(r) <= End(range) /\ End(r) >= Start(range)}
      covered == \E r \in s : Start(r) <= Start(range) /\ End(r) >= End(range)
      merged == <<Min({Start(r) : r \in touch \cup {range}}),
                  Max({End(r) : r \in touch \cup {range}})>>
      rest == s \ touch
      kept == IF Cardinality(rest) >= capacity /\ rest # {}
              THEN rest \ {RsFirst(rest)} ELSE rest
  IN IF Start(range) >= End(range) \/ covered THEN s ELSE kept \cup {merged}

(* Mutant: ranges that only abut the new one are not merged with it.       *)
RsInsertOverlapping(s, range) ==
  LET touch == {r \in s : Start(r) < End(range) /\ End(r) > Start(range)}
      merged == <<Min({Start(r) : r \in touch \cup {range}}),
                  Max({End(r) : r \in touch \cup {range}})>>
  IN IF Start(range) >= End(range) THEN s ELSE (s \ touch) \cup {merged}

(* insert of the default RangeSet, whose capacity is usize::MAX.           *)
RsInsert(s, range) == RsInsertInto(s, range, Cardinality(s) + 1)

(* remove(range): what sticks out on either side of the range is kept.     *)
RsRemove(s, range) ==
  LET hit == {r \in s : Start(r) < End(range) /\ End(r) > Start(range)}
      left == {<<Start(r), Start(range)>> : r \in {q \in hit : Start(q) < Start(range)}}
      right == {<<End(range), End(r)>> : r \in {q \in hit : End(q) > End(range)}}
  IN IF Start(range) >= End(range) THEN s ELSE (s \ hit) \cup left \cup right

(* remove_until(elem)                                                      *)
RsRemoveUntil(s, elem) ==
  LET hit == {r \in s : Start(r) <= elem} IN
  (s \ hit) \cup {<<elem + 1, End(r)>> : r \in {q \in hit : End(q) > elem + 1}}

(* filter(range): the first subrange of the range outside the set.         *)
RsFilter(s, range) ==
  LET prev == RsPrevTo(s, Start(range))
      next == RsNextAfter(s, Start(range))
      start == IF prev # NoRange /\ End(prev) > Start(range) THEN End(prev) ELSE Start(range)
      end == IF next # NoRange /\ Start(next) < End(range) THEN Start(next) ELSE End(range)
  IN IF prev # NoRange /\ End(prev) >= End(range) THEN NoRange ELSE <<start, end>>

(* contains(elem)                                                          *)
RsContains(s, elem) ==
  LET prev == RsPrevTo(s, elem) IN prev # NoRange /\ elem < End(prev)

(* eq with a range: the set is exactly that one range.                     *)
RsIs(s, range) == s = {range}
=============================================================================
