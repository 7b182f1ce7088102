--------------------------- MODULE ComponentLookup ---------------------------
(***************************************************************************)
(* What the structured-document runtime promises (spec.md 4.3 and the      *)
(* layered lookup of section 7): an element name resolves through an       *)
(* ordered list of override mappings, consulted from the most specific to  *)
(* the least specific, and then falls back to a fixed default table and    *)
(* finally to the element's own type.                                      *)
(*                                                                         *)
(* The layers are kept as they were written: the innermost layer is the   *)
(* element's own override, then the enclosing scopes from the nearest      *)
(* outwards.  A layer given as a function decides the whole table below    *)
(* it, so the layers beyond it are not consulted.  A parent-qualified name *)
(* is looked up through all consulted layers before the plain name.       *)
(***************************************************************************)
EXTENDS Naturals, Sequences, SequencesExt

CONSTANTS
  Props,          \* what a scope or an element may carry as its overrides
  Absent,         \* no overrides given
  Defaults,       \* the built-in table: a function from names to components
  NoElement,      \* nothing created yet
  Unset,          \* a name bound to no component (undefined)
  Qualified(_, _) \* the name of a type under a given parent

VARIABLES
  layers,   \* the enclosing scopes' overrides, outermost first
  rendered  \* the last element created: type, parent, overrides, component

\* The mappings consulted for an element carrying `explicit`, nearest first;
\* a function layer contributes its result and hides what lies beyond it.
Consulted(scopes, explicit) ==
  LET chain == Reverse(SelectSeq(scopes \o <<explicit>>, LAMBDA p : p # Absent))
      cut   == SelectInSeq(chain, LAMBDA p : p.kind = "function")
      kept  == IF cut = 0 THEN chain ELSE SubSeq(chain, 1, cut)
  IN  [i \in DOMAIN kept |-> kept[i].val]

\* A mapping supplies a name when it binds it to a component.
Gives(m, name) == name \in DOMAIN m /\ m[name] # Unset

\* The component of `name` in the nearest consulted mapping that supplies one.
Nearest(maps, name) == maps[SelectInSeq(maps, LAMBDA m : Gives(m, name))][name]

BoundIn(maps, name) == \E i \in DOMAIN maps : Gives(maps[i], name)

Lookup(scopes, explicit, type, parent) ==
  LET maps == Consulted(scopes, explicit)
      q    == Qualified(parent, type)
  IN  IF BoundIn(maps, q) THEN Nearest(maps, q)
      ELSE IF BoundIn(maps, type) THEN Nearest(maps, type)
      ELSE IF type \in DOMAIN Defaults THEN Defaults[type]
      ELSE type

Init ==
  /\ layers = <<>>
  /\ rendered = NoElement

EnterScope ==
  /\ \E p \in Props : layers' = Append(layers, p)
  /\ UNCHANGED rendered

LeaveScope ==
  /\ layers # <<>>
  /\ layers' = Front(layers)
  /\ UNCHANGED rendered

\* Creating an element: whatever its type and parent, it renders what the
\* lookup picks for the overrides it carries in the current scope.
Render ==
  /\ rendered' # NoElement
  /\ rendered'.components \in Props
  /\ rendered'.comp = Lookup(layers, rendered'.components,
                             rendered'.type, rendered'.parent)
  /\ UNCHANGED layers

Next == EnterScope \/ LeaveScope \/ Render

Spec == Init /\ [][Next]_<<layers, rendered>>
=============================================================================
