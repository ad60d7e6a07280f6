------------------------------ MODULE LruCache ------------------------------
(***************************************************************************)
(* The cache of pkgs/cache: a map from keys to elements of a list that is  *)
(* kept in the order of use, with a cost and a time of expiry per element. *)
(* All functions hold the cache's mutex, except that Get lets go of it     *)
(* between finding an expired element and removing it.                     *)
(***************************************************************************)
EXTENDS Integers, SequencesExt

CONSTANTS
  Keys, Values, Nil,
  Getters,    \* goroutines that call Get
  Elements,   \* bound of the model: elements that exist at a time
  Costs,      \* costs of items
  Durations,  \* ticks until an item expires; 0 keeps it forever
  MaxCost,
  MaxTime     \* bound of the model: the clock stops here

ASSUME LruAssumption ==
  /\ MaxCost \in Nat \ {0} /\ MaxTime \in Nat
  /\ Costs \subseteq Nat /\ Durations \subseteq Nat

VARIABLES
  now,          \* the clock
  items,        \* the element of every key
  evictionList, \* elements, the most recently used first
  element,      \* the item in every element that is in use
  currentCost,
  getter,       \* the expired element every Get is about to remove
  latest        \* history: what was set last for a key and not deleted

vars == <<now, items, evictionList, element, currentCost, getter, latest>>

Item ==
  [key : Keys, data : Values, expires : Nat \cup {Nil}, cost : Costs]

ASSUME NilAssumption == Nil \notin Elements \cup Values \cup Item

TypeOK ==
  /\ now \in 0 .. MaxTime
  /\ items \in [Keys -> Elements \cup {Nil}]
  /\ evictionList \in Seq(Elements) /\ IsInjective(evictionList)
  /\ element \in [Elements -> Item \cup {Nil}]
  /\ \A e \in (ToSet(evictionList) \cup Range(getter)) \ {Nil} : element[e] # Nil
  /\ currentCost \in Int
  /\ getter \in [Getters -> Elements \cup {Nil}]
  /\ latest \in [Keys -> Values \cup {Nil}]

Init ==
  /\ now = 0
  /\ items = [k \in Keys |-> Nil]
  /\ evictionList = <<>>
  /\ element = [e \in Elements |-> Nil]
  /\ currentCost = 0
  /\ getter = [g \in Getters |-> Nil]
  /\ latest = [k \in Keys |-> Nil]

Expired(e) == element[e].expires # Nil /\ now > element[e].expires

\* The elements still in use: all others are garbage.
Used == ToSet(evictionList) \cup Range(getter)
Collected(elements, list, gets) ==
  [e \in Elements |->
     IF e \in ToSet(list) \cup Range(gets) THEN elements[e] ELSE Nil]

-----------------------------------------------------------------------------
(***************************************************************************)
(* The list and the sums of costs.                                         *)
(***************************************************************************)
Before(list, d, e) == \E i, j \in DOMAIN list : i < j /\ list[i] = d /\ list[j] = e

\* What a list is without some of its elements: the others in the same order.
Without(some, list) ==
  LET others == ToSet(list) \ some IN
  {rest \in BoundedSeq(others, Len(list)) :
     /\ ToSet(rest) = others
     /\ \A i, j \in DOMAIN rest : i < j => Before(list, rest[i], rest[j])}

MovedToFront(e, list) == {<<e>> \o rest : rest \in Without({e}, list)}

Total(elements, list) ==
  FoldSeq(LAMBDA e, sum : elements[e].cost + sum, 0, list)

\* removeElement for every element of some: it leaves the list if it is in
\* it, its key leaves the map whatever element the map has for it, and its
\* cost is subtracted.
RemoveElements(some, elements, list, map, cost) ==
  LET keys == {elements[e].key : e \in ToSet(some)}
  IN  /\ evictionList' \in Without(ToSet(some), list)
      /\ items' = [k \in Keys |-> IF k \in keys THEN Nil ELSE map[k]]
      /\ currentCost' = cost - Total(elements, some)
      /\ element' = Collected(elements, evictionList', getter')

-----------------------------------------------------------------------------
(***************************************************************************)
(* Get.                                                                    *)
(***************************************************************************)
Hit(g, key) ==
  LET e == items[key] IN
  /\ getter[g] = Nil /\ e # Nil /\ ~Expired(e)
  /\ evictionList' \in MovedToFront(e, evictionList)
  /\ UNCHANGED <<now, items, element, currentCost, getter, latest>>

\* The element has expired: Get unlocks to take the lock for writing.
FindExpired(g, key) ==
  LET e == items[key] IN
  /\ getter[g] = Nil /\ e # Nil /\ Expired(e)
  /\ getter' = [getter EXCEPT ![g] = e]
  /\ UNCHANGED <<now, items, evictionList, element, currentCost, latest>>

RemoveExpired(g) ==
  /\ getter[g] # Nil
  /\ getter' = [getter EXCEPT ![g] = Nil]
  /\ RemoveElements(<<getter[g]>>, element, evictionList, items, currentCost)
  /\ UNCHANGED <<now, latest>>

-----------------------------------------------------------------------------
(***************************************************************************)
(* Set: the element of the key is changed in place or a new one is added;  *)
(* then elements are removed from the back until the cost is small enough. *)
(***************************************************************************)
Backs(list)  == {SubSeq(list, i, Len(list)) : i \in 1 .. Len(list) + 1}
Enough(back, elements, cost) == cost - Total(elements, back) <= MaxCost

\* The loop of Set removes the shortest back that makes the rest cheap enough.
EvictBack(elements, list, map, cost) ==
  \E back \in Backs(list) :
    /\ Enough(back, elements, cost)
    /\ \A b \in Backs(list) : Enough(b, elements, cost) => Len(back) <= Len(b)
    /\ RemoveElements(back, elements, list, map, cost)

Store(e, key, value, duration, cost) ==
  [element EXCEPT ![e] =
    [key |-> key, data |-> value, cost |-> cost,
     expires |-> IF duration = 0 THEN Nil ELSE now + duration]]

\* Mistake: the cost of the replaced item stays in the sum.
SetExistingAddsCost(key, value, duration, cost) ==
  LET e == items[key] IN
  /\ e # Nil
  /\ latest' = [latest EXCEPT ![key] = value]
  /\ UNCHANGED <<now, getter>>
  /\ \E list \in MovedToFront(e, evictionList) :
       EvictBack(Store(e, key, value, duration, cost), list, items,
                 currentCost + cost)

\* Mistake: only the time of expiry and the cost are refreshed.
SetExistingKeepsData(key, value, duration, cost) ==
  LET e == items[key] IN
  /\ e # Nil
  /\ latest' = [latest EXCEPT ![key] = value]
  /\ UNCHANGED <<now, getter>>
  /\ \E list \in MovedToFront(e, evictionList) :
       EvictBack(Store(e, key, element[e].data, duration, cost), list, items,
                 currentCost - element[e].cost + cost)

SetExisting(key, value, duration, cost) ==
  LET e == items[key] IN
  /\ e # Nil
  /\ latest' = [latest EXCEPT ![key] = value]
  /\ UNCHANGED <<now, getter>>
  /\ \E list \in MovedToFront(e, evictionList) :
       EvictBack(Store(e, key, value, duration, cost), list, items,
                 currentCost - element[e].cost + cost)

SetNew(key, value, duration, cost) ==
  /\ items[key] = Nil
  /\ Elements \ Used # {}
  /\ latest' = [latest EXCEPT ![key] = value]
  /\ UNCHANGED <<now, getter>>
  /\ LET e == CHOOSE e \in Elements : e \notin Used
     IN  EvictBack(Store(e, key, value, duration, cost),
                   <<e>> \o evictionList, [items EXCEPT ![key] = e],
                   currentCost + cost)

-----------------------------------------------------------------------------
(***************************************************************************)
(* Delete, Clear, and the removal of expired items once a minute.          *)
(***************************************************************************)
Delete(key) ==
  /\ items[key] # Nil
  /\ latest' = [latest EXCEPT ![key] = Nil]
  /\ UNCHANGED <<now, getter>>
  /\ RemoveElements(<<items[key]>>, element, evictionList, items, currentCost)

Clear ==
  /\ items' = [k \in Keys |-> Nil]
  /\ latest' = [k \in Keys |-> Nil]
  /\ evictionList' = <<>>
  /\ currentCost' = 0
  /\ element' = Collected(element, <<>>, getter)
  /\ UNCHANGED <<now, getter>>

EvictExpiredItems ==
  LET fresh == {e \in ToSet(evictionList) : ~Expired(e)} IN
  /\ UNCHANGED <<now, getter, latest>>
  /\ \E expired \in Without(fresh, evictionList) :
       /\ expired # <<>>
       /\ RemoveElements(expired, element, evictionList, items, currentCost)

Tick ==
  /\ now < MaxTime /\ now' = now + 1
  /\ UNCHANGED <<items, evictionList, element, currentCost, getter, latest>>

Get(g) ==
  \/ \E key \in Keys : Hit(g, key) \/ FindExpired(g, key)
  \/ RemoveExpired(g)

Set ==
  \E key \in Keys, value \in Values, duration \in Durations, cost \in Costs :
    SetExisting(key, value, duration, cost) \/ SetNew(key, value, duration, cost)

Next ==
  \/ \E g \in Getters : Get(g)
  \/ Set \/ (\E key \in Keys : Delete(key)) \/ Clear \/ EvictExpiredItems
  \/ Tick

Spec == Init /\ [][Next]_vars

-----------------------------------------------------------------------------
(***************************************************************************)
(* Properties.                                                             *)
(***************************************************************************)

\* The element the map has for a key holds this key and is in the list.
MappedIsListed ==
  \A k \in Keys :
    items[k] # Nil =>
      items[k] \in ToSet(evictionList) /\ element[items[k]].key = k

CostIsCovered == currentCost <= Total(element, evictionList)

\* Whatever Get removes late, what the map has is in the list (moveToFront would use a nil
\* list head otherwise, and Get answer for another key), and no more cost is accounted for
\* than the list holds: the loop of Set, which asks for the last element until the cost is
\* small enough, ends, and does not empty the cache for costs that are not there.
ListFits == MappedIsListed /\ CostIsCovered

\* Whatever Get removes late, a hit returns what was set last for the key, and
\* nothing is returned after Delete or Clear.
Abstract ==
  INSTANCE LossyCache WITH
    None <- Nil,
    store <- [k \in Keys |->
                IF items[k] = Nil THEN Nil ELSE element[items[k]].data]
ImplementsLossyCache == Abstract!Spec
=============================================================================
