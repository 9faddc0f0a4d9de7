-------------------- MODULE AddressSpaceFilterContainer --------------------
(***************************************************************************)
(* AddressSpaceFilterContainer.tsx: the filter toolbar of the address-    *)
(* space list.  The parent owns the chosen filter (filterValue), the name *)
(* and namespace chips and the type filter, and hands in their setters;  *)
(* the container keeps the typeahead state of the two search fields.     *)
(* Typing in a field with at least TYPEAHEAD_REQUIRED_LENGTH characters   *)
(* (after trim) sends a GraphQL query; the continuation after the await  *)
(* sets the dropdown options whenever its response arrives.  Queries are *)
(* independent requests, so their responses may come back in any order; *)
(* the namespace query may even be answered from the Apollo cache.       *)
(*                                                                         *)
(* React semantics: every handler reads the props and state of the       *)
(* render it belongs to and its setState calls take effect together; the *)
(* component re-renders before the next UI event.  Strings are abstract: *)
(* Trim is trim() given as a table, Short the terms shorter than the     *)
(* required length, and Match what the query's name or namespace filter *)
(* matches.                                                                *)
(***************************************************************************)
EXTENDS Naturals, Sequences, SequencesExt

CONSTANTS
    Texts,            \* strings: what the user may type, names and namespaces
    Typed,            \* the texts the user types into a search field
    Trim,             \* [Texts -> Texts]: String.prototype.trim
    Short,            \* trimmed texts shorter than TYPEAHEAD_REQUIRED_LENGTH
    Match,            \* [Texts -> SUBSET Texts]: the values a query for a term matches
    SpaceNames,       \* metadata.name of the address spaces the server holds
    SpaceNamespaces,  \* metadata.namespace of those address spaces
    Types,            \* the values of typeFilterMenuItems
    Undefined,        \* undefined / null
    MaxPending        \* bound: queries awaiting their response

ASSUME Typed \subseteq Texts /\ "" \in Typed

FilterMenu == {"Name", "Namespace", "Type"}

\* Chips hold trimmed values.
Chip == [value : {Trim[t] : t \in Texts}, isExact : BOOLEAN]

VARIABLES
    \* props: state of the parent, changed through the setters
    filterValue, filterNames, filterNamespaces, filterType,
    \* useState of the container
    isSelectNameExpanded, isSelectNamespaceExpanded,
    nameSelected, namespaceSelected,
    nameOptions, namespaceOptions,
    nameInput, nameSpaceInput,
    \* the queries sent and not yet answered: Seq([kind, term])
    pending

props == <<filterValue, filterNames, filterNamespaces, filterType>>
nameState == <<isSelectNameExpanded, nameSelected, nameOptions, nameInput>>
nsState == <<isSelectNamespaceExpanded, namespaceSelected, namespaceOptions, nameSpaceInput>>
vars == <<props, nameState, nsState, pending>>

Options == {Undefined} \cup SUBSET Texts

TypeOK ==
    /\ filterValue \in FilterMenu \cup {Undefined}
    /\ filterNames \in Seq(Chip) /\ filterNamespaces \in Seq(Chip)
    /\ filterType \in Types \cup {Undefined}
    /\ isSelectNameExpanded \in BOOLEAN /\ isSelectNamespaceExpanded \in BOOLEAN
    /\ nameSelected \in Texts \cup {Undefined} /\ namespaceSelected \in Texts \cup {Undefined}
    /\ nameOptions \in Options /\ namespaceOptions \in Options
    /\ nameInput \in Texts /\ nameSpaceInput \in Texts
    /\ pending \in Seq([kind : {"name", "namespace"}, term : Texts])

Init ==
    /\ filterValue \in FilterMenu \cup {Undefined}
    /\ filterNames = <<>> /\ filterNamespaces = <<>>
    /\ filterType = Undefined
    /\ isSelectNameExpanded = FALSE /\ isSelectNamespaceExpanded = FALSE
    /\ nameSelected = Undefined /\ namespaceSelected = Undefined
    /\ nameOptions = Undefined /\ namespaceOptions = Undefined
    /\ nameInput = "" /\ nameSpaceInput = ""
    /\ pending = <<>>

\* What the GraphQL query for a term returns, as the list of names (or of
\* namespaces) made unique by getSelectOptionList.
Answer(kind, term) ==
    (IF kind = "name" THEN SpaceNames ELSE SpaceNamespaces) \cap Match[term]

\* filters.map(filter => filter.value).indexOf(v): 0-based, -1 if absent.
IndexOf(chips, v) == SelectInSeq(chips, LAMBDA f : f.value = v) - 1

\* A value JavaScript treats as false in a condition.
Falsy(x) == x \in {Undefined, ""}

(***************************************************************************)
(* Mutations used to test the properties.                                 *)
(***************************************************************************)
\* The search click adds a chip without looking for an existing one.
AddChipNoLookup(chips, selected, input) ==
    IF ~Falsy(selected)
      THEN IF Trim[selected] # "" THEN Append(chips, [value |-> Trim[selected], isExact |-> TRUE])
                                  ELSE chips
      ELSE IF ~Falsy(input) /\ Trim[input] # ""
             THEN Append(chips, [value |-> Trim[input], isExact |-> FALSE])
             ELSE chips

\* The typed text is added as it was typed, untrimmed.
AddChipUntrimmed(chips, selected, input) ==
    IF ~Falsy(selected)
      THEN IF Trim[selected] # "" /\ IndexOf(chips, selected) < 0
             THEN Append(chips, [value |-> Trim[selected], isExact |-> TRUE])
             ELSE chips
      ELSE IF ~Falsy(input) /\ Trim[input] # "" /\ IndexOf(chips, Trim[input]) < 0
             THEN Append(chips, [value |-> input, isExact |-> FALSE])
             ELSE chips

\* A namespace response is stored in the name options (the handlers were
\* copied from each other).
ResponseToNameOptions(i) ==
    LET q == pending[i]
        ans == Answer(q.kind, q.term)
    IN  /\ pending' = RemoveAt(pending, i)
        /\ IF ans # {} THEN nameOptions' = ans ELSE UNCHANGED nameOptions
        /\ UNCHANGED <<props, isSelectNameExpanded, nameSelected, nameInput, nsState>>

(***************************************************************************)
(* The handlers (lines 69-274).                                           *)
(***************************************************************************)
\* The chip list after a search click in one field: the selected option
\* as an exact chip unless a chip has its (untrimmed) value; with nothing
\* selected, the trimmed text as a non-exact chip unless a chip has it.
AddChip(chips, selected, input) ==
    IF ~Falsy(selected)
      THEN IF Trim[selected] # "" /\ IndexOf(chips, selected) < 0
             THEN Append(chips, [value |-> Trim[selected], isExact |-> TRUE])
             ELSE chips
      ELSE IF ~Falsy(input) /\ Trim[input] # "" /\ IndexOf(chips, Trim[input]) < 0
             THEN Append(chips, [value |-> Trim[input], isExact |-> FALSE])
             ELSE chips

\* onClickSearchIcon: add a chip to the field of the chosen filter and
\* clear its selection.  (The namespace branch tests filterNames where it
\* means filterNamespaces; an array is always truthy.)  With the Type
\* filter chosen the click does nothing.
OnClickSearchIcon ==
    \/ /\ filterValue = "Name"
       /\ filterNames' = AddChip(filterNames, nameSelected, nameInput)
       /\ nameSelected' = Undefined
       /\ UNCHANGED <<filterValue, filterNamespaces, filterType, isSelectNameExpanded,
                      nameOptions, nameInput, nsState, pending>>
    \/ /\ filterValue = "Namespace"
       /\ filterNamespaces' = AddChip(filterNamespaces, namespaceSelected, nameSpaceInput)
       /\ namespaceSelected' = Undefined
       /\ UNCHANGED <<filterValue, filterNames, filterType, nameState,
                      isSelectNamespaceExpanded, namespaceOptions, nameSpaceInput, pending>>

\* The chip list after deleting a chip: spliced out where indexOf finds it.
RemoveChip(chips, chip) ==
    LET index == IndexOf(chips, chip) IN
    IF index >= 0 THEN RemoveAt(chips, index + 1) ELSE chips

\* onDelete(category, chip): the close button of a rendered chip, or of
\* the type chip.
OnDelete ==
    /\ UNCHANGED <<nameState, nsState, pending>>
    /\ \/ \E i \in 1..Len(filterNames) :
            /\ filterNames' = RemoveChip(filterNames, filterNames[i].value)
            /\ UNCHANGED <<filterValue, filterNamespaces, filterType>>
       \/ \E i \in 1..Len(filterNamespaces) :
            /\ filterNamespaces' = RemoveChip(filterNamespaces, filterNamespaces[i].value)
            /\ UNCHANGED <<filterValue, filterNames, filterType>>
       \/ /\ filterType # Undefined
          /\ filterType' = Undefined
          /\ UNCHANGED <<filterValue, filterNames, filterNamespaces>>

OnFilterSelect(v) ==
    /\ filterValue' = v
    /\ UNCHANGED <<filterNames, filterNamespaces, filterType, nameState, nsState, pending>>

OnTypeFilterSelect(v) ==
    /\ filterType' = v
    /\ UNCHANGED <<filterValue, filterNames, filterNamespaces, nameState, nsState, pending>>

OnNameSelectToggle ==
    /\ isSelectNameExpanded' = ~isSelectNameExpanded
    /\ UNCHANGED <<props, nameSelected, nameOptions, nameInput, nsState, pending>>

OnNamespaceSelectToggle ==
    /\ isSelectNamespaceExpanded' = ~isSelectNamespaceExpanded
    /\ UNCHANGED <<props, nameState, namespaceSelected, namespaceOptions, nameSpaceInput, pending>>

\* The part of onChangeNameData / onChangeNamespaceData before the await:
\* a short term gives the empty list at once, a long one sends its query.
SendQuery(kind, t) ==
    /\ Trim[t] \notin Short
    /\ Len(pending) < MaxPending
    /\ pending' = Append(pending, [kind |-> kind, term |-> Trim[t]])

\* onNameSelectFilterChange(e): store the text, clear the options, and
\* either set them to [] or query.
OnNameSelectFilterChange(t) ==
    /\ nameInput' = t
    /\ \/ /\ Trim[t] \in Short
          /\ nameOptions' = {}
          /\ UNCHANGED pending
       \/ /\ SendQuery("name", t)
          /\ nameOptions' = Undefined
    /\ UNCHANGED <<props, isSelectNameExpanded, nameSelected, nsState>>

\* onNamespaceSelectFilterChange(e): store the text and clear both option
\* lists; a short term sets the name options, not the namespace ones, to [].
OnNamespaceSelectFilterChange(t) ==
    /\ nameSpaceInput' = t
    /\ namespaceOptions' = Undefined
    /\ \/ /\ Trim[t] \in Short
          /\ nameOptions' = {}
          /\ UNCHANGED pending
       \/ /\ SendQuery("namespace", t)
          /\ nameOptions' = Undefined
    /\ UNCHANGED <<props, isSelectNameExpanded, nameSelected, nameInput,
                   isSelectNamespaceExpanded, namespaceSelected>>

\* The continuation after the await of query i: a non-empty answer becomes
\* the options of the query's field, whatever has been typed since.
Response(i) ==
    LET q == pending[i]
        ans == Answer(q.kind, q.term)
    IN  /\ pending' = RemoveAt(pending, i)
        /\ IF ans = {} THEN UNCHANGED <<nameOptions, namespaceOptions>>
           ELSE IF q.kind = "name"
                  THEN nameOptions' = ans /\ UNCHANGED namespaceOptions
                  ELSE namespaceOptions' = ans /\ UNCHANGED nameOptions
        /\ UNCHANGED <<props, isSelectNameExpanded, nameSelected, nameInput,
                       isSelectNamespaceExpanded, namespaceSelected, nameSpaceInput>>

\* onNameSelect / onNamespaceSelect: an option of the open dropdown.
OnNameSelect ==
    /\ isSelectNameExpanded /\ nameOptions # Undefined
    /\ \E s \in nameOptions : nameSelected' = s
    /\ isSelectNameExpanded' = FALSE
    /\ UNCHANGED <<props, nameOptions, nameInput, nsState, pending>>

OnNamespaceSelect ==
    /\ isSelectNamespaceExpanded /\ namespaceOptions # Undefined
    /\ \E s \in namespaceOptions : namespaceSelected' = s
    /\ isSelectNamespaceExpanded' = FALSE
    /\ UNCHANGED <<props, nameState, namespaceOptions, nameSpaceInput, pending>>

Next ==
    \/ OnClickSearchIcon
    \/ OnDelete
    \/ \E v \in FilterMenu : OnFilterSelect(v)
    \/ \E v \in Types : OnTypeFilterSelect(v)
    \/ OnNameSelectToggle \/ OnNamespaceSelectToggle
    \/ \E t \in Typed : OnNameSelectFilterChange(t) \/ OnNamespaceSelectFilterChange(t)
    \/ \E i \in 1..Len(pending) : Response(i)
    \/ OnNameSelect \/ OnNamespaceSelect

\* Safety only: nothing here must eventually happen.
Spec == Init /\ [][Next]_vars

(***************************************************************************)
(* Properties.                                                             *)
(***************************************************************************)

\* The search click looks a value up before it adds it, so however the
\* user types, selects and clicks, no value is a chip twice in either
\* field.
ChipsUnique ==
    \A chips \in {filterNames, filterNamespaces} :
        \A i, j \in 1..Len(chips) : chips[i].value = chips[j].value => i = j

\* An exact chip comes from an option the user picked, and the options of a
\* field are answers to that field's queries: an exact name chip is the
\* name of an address space and an exact namespace chip a namespace, even
\* with responses arriving late and out of order.
ExactChipsAreReal ==
    /\ \A i \in 1..Len(filterNames) :
           filterNames[i].isExact => filterNames[i].value \in SpaceNames
    /\ \A i \in 1..Len(filterNamespaces) :
           filterNamespaces[i].isExact => filterNamespaces[i].value \in SpaceNamespaces

\* Once no namespace query is outstanding, the namespace dropdown lists
\* the matches of the text in the namespace field: options exist only for
\* a text long enough to be queried (a short one clears them), and the
\* query is built from that text, so they are meant to be its matches.
NamespaceOptionsFresh ==
    (/\ namespaceOptions # Undefined
     /\ \A i \in 1..Len(pending) : pending[i].kind # "namespace")
    => /\ Trim[nameSpaceInput] \notin Short
       /\ namespaceOptions = Answer("namespace", Trim[nameSpaceInput])

\* Typing in the namespace field leaves the suggestions of the name field
\* alone: onChangeNamespaceData is the namespace twin of onChangeNameData
\* and should reset namespaceOptions, so a user who goes back to the Name
\* filter still finds the suggestions for the name typed there.
NamespaceTypingKeepsNameOptions ==
    [][nameSpaceInput' # nameSpaceInput => nameOptions' = nameOptions]_vars
=============================================================================
