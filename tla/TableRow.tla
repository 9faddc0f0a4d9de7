------------------------------ MODULE TableRow ------------------------------
(***************************************************************************)
(* The expandable metadata table of the console                            *)
(* (components/MetadataListTable/TableRow.tsx).  A TableRow renders one  *)
(* node of a metadata tree; when its value is an array it renders one    *)
(* nested TableRow per element, hidden unless the row is expanded.       *)
(*                                                                         *)
(* Every TableRow instance is mounted whether or not it is hidden and     *)
(* owns its own useState list `expandedList`.  The tree is a constant:   *)
(* Children[r] is the value array of row r in order (<<>> when the value *)
(* is not an array), Type[r] its data type and Key[r] its key.            *)
(*                                                                         *)
(* A click on a toggle delivers an event whose target is the element     *)
(* under the pointer: the toggle button, whose id is the row's key, or   *)
(* the chevron icon inside it, whose id is "".                            *)
(***************************************************************************)
EXTENDS Naturals, Sequences, SequencesExt

CONSTANTS
    Rows,       \* the nodes of the metadata tree
    Root,       \* the node given to the outermost TableRow
    Children,   \* Children[r]: the nodes of r's value array, in order
    Type,       \* Type[r]: "array", "object" or a scalar type name
    Key         \* Key[r]: the row's key, a non-empty string

ASSUME /\ Root \in Rows
       /\ \A r \in Rows : Key[r] # "" /\ ToSet(Children[r]) \subseteq Rows

VARIABLES
    expandedList,   \* expandedList[r]: the useState list of row r
    lastEvent       \* the last click, [row, target id], or NoEvent

vars == <<expandedList, lastEvent>>

NoEvent == [row |-> Root, target |-> "none"]

\* The ids a click on row r's toggle can carry as event.target.id.
Targets(r) == {Key[r], ""}

RECURSIVE Descendants(_)
Descendants(r) == UNION {{c} \cup Descendants(c) : c \in ToSet(Children[r])}

Includes(list, k) == \E i \in 1..Len(list) : list[i] = k

(* shouldDisplayDataListToggle: objects and arrays get a toggle.           *)
ShouldDisplayDataListToggle(t) == t \in {"object", "array"}

(* The DataListItem's isExpanded.                                          *)
IsExpanded(r) ==
    ShouldDisplayDataListToggle(Type[r]) /\ Includes(expandedList[r], Key[r])

(* The rows that are displayed: r itself, then, when r's DataListContent *)
(* is not hidden, each element's rows in array order.                    *)
RECURSIVE Displayed(_)
Displayed(r) ==
    <<r>> \o IF Includes(expandedList[r], Key[r])
             THEN FlattenSeq([i \in 1..Len(Children[r]) |-> Displayed(Children[r][i])])
             ELSE <<>>

Init ==
    /\ expandedList = [r \in Rows |-> <<>>]
    /\ lastEvent = NoEvent

(* `index` is `expandedList && expandedRowId && expandedList.indexOf(..)`.*)
(* With an empty id the chain stops at "", and the code then treats "" as *)
(* a number: `"" >= 0` holds, `slice(0, "")` is slice(0, 0) and          *)
(* `"" + 1` is "1", i.e. slice(1).  So an empty id removes position 0.   *)
(* Indices here are 1-based: 0 stands for indexOf's -1.                   *)
Index(list, id) ==
    IF id = "" THEN 1 ELSE SelectInSeq(list, LAMBDA e : e = id)

\* Mutation: the test written as `index > 0`.
NewExpandedListPositive(list, id) ==
    LET index == Index(list, id)
    IN  IF index > 1 THEN RemoveAt(list, index) ELSE Append(list, id)

(* The new list computed by toggle.                                        *)
NewExpandedList(list, id) ==
    LET index == Index(list, id)
    IN  IF index >= 1 THEN RemoveAt(list, index) ELSE Append(list, id)

(* A click on the toggle of a displayed row r.  setExpandedList always    *)
(* stores a new array, so r re-renders; its content elements get a fresh *)
(* React key from uniqueId() on every render, so every nested TableRow   *)
(* is unmounted and mounted again with an empty expandedList.             *)
Toggle(r, id) ==
    /\ ShouldDisplayDataListToggle(Type[r])
    /\ r \in ToSet(Displayed(Root))
    /\ expandedList' =
         [x \in Rows |-> IF x = r THEN NewExpandedList(expandedList[r], id)
                         ELSE IF x \in Descendants(r) THEN <<>>
                         ELSE expandedList[x]]
    /\ lastEvent' = [row |-> r, target |-> id]

Next == \E r \in Rows : \E id \in Targets(r) : Toggle(r, id)

Spec == Init /\ [][Next]_vars

-----------------------------------------------------------------------------
(* Every list holds at most the row's own key, once.                      *)
TypeOK ==
    /\ \A r \in Rows : expandedList[r] \in {<<>>, <<Key[r]>>}
    /\ lastEvent \in {NoEvent} \cup [row : Rows, target : {Key[r] : r \in Rows} \cup {""}]

(* A click on a row's toggle flips whether the row is expanded, whichever *)
(* element of the toggle button receives it.                              *)
ToggleFlips ==
    [][\A r \in Rows : lastEvent' = [row |-> r, target |-> lastEvent'.target] =>
                        IsExpanded(r)' # IsExpanded(r)]_vars
=============================================================================
