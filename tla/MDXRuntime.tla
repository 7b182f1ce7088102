----------------------------- MODULE MDXRuntime -----------------------------
(***************************************************************************)
(* The structured-document runtime of the compiled bundle                  *)
(* (src/assets/js/18891827.ba8fe910.js, webpack module 3905) and the way   *)
(* the compiled Overview document (module 9228) calls it.                  *)
(*                                                                         *)
(*   l  the context, created with {}                                       *)
(*   u  useMDXComponents(e): the context, or e(context) when e is a        *)
(*      function, or {...context, ...e} when e is an object                *)
(*   c  MDXProvider: a context Provider whose value is u(props.components) *)
(*   d  the defaults {inlineCode: "code", wrapper: a Fragment}             *)
(*   p  MDXCreateElement: resolves components["parent.type"] ||            *)
(*      components[type] || d[type] || originalType, with components =    *)
(*      u(props.components)                                                *)
(*   m  mdx: a string type is created through p with originalType and      *)
(*      mdxType both set to it (every call in module 9228 has one)         *)
(*                                                                         *)
(* The state is one point of a depth-first render: the MDXProvider         *)
(* elements above it, with the props as written and the context values    *)
(* they provide, the document being rendered, and the last element         *)
(* created.  A components object is a function from names to components.  *)
(***************************************************************************)
EXTENDS Naturals, Sequences, SequencesExt

CONSTANTS
  Objects,     \* components objects written at a provider or a document
  FnResults,   \* components functions, by the object each one returns
  Elements,    \* <<type, parentName>> of the elements a document creates
  NoParent,    \* parentName absent (undefined)
  Absent,      \* components prop absent (undefined)
  NoDoc,       \* no document is being rendered
  NoElement,   \* no element created yet
  Fragment,    \* the default wrapper of d
  Unset,       \* a name bound to undefined, as in {a: props.link} with no link
  MaxDepth     \* bound on nested providers

ASSUME MaxDepth \in Nat

\* A components prop: absent, an object, or a function of the context.
Props ==
  {Absent}
    \cup {[kind |-> "object", val |-> o] : o \in Objects}
    \cup {[kind |-> "function", val |-> o] : o \in FnResults}

VARIABLES
  providers,  \* props.components of the enclosing MDXProviders, outermost first
  ctx,        \* the value each of them provides, outermost first
  doc,        \* props.components of the document being rendered, or NoDoc
  rendered    \* the last element created: type, parent, overrides, component

vars == <<providers, ctx, doc, rendered>>

\* d
Defaults == ("inlineCode" :> "code") @@ ("wrapper" :> Fragment)

\* useContext(l): the nearest Provider's value, or the {} of createContext.
Current == IF ctx = <<>> THEN <<>> ELSE Last(ctx)

\* "".concat(l, ".").concat(m): an absent parent is spelt "undefined".
KeyOf(parent, type) ==
  (IF parent = NoParent THEN "undefined" ELSE parent) \o "." \o type

\* Mutant: the enclosing context spread over the overrides.
MergeEnclosingWins(t, e) == t @@ e

\* o(o({}, t), e): keys of e replace those of t.
Merge(t, e) == e @@ t

\* u(e) with t = useContext(l)
UseMDXComponents(e, t) ==
  IF e = Absent THEN t
  ELSE IF e.kind = "function" THEN e.val
  ELSE Merge(t, e.val)

\* p[k] is truthy: the object has the key and a component under it.
Supplies(comps, k) == k \in DOMAIN comps /\ comps[k] # Unset

\* h = p[l + "." + m] || p[m] || d[m] || i, with i = m for a string type
Resolve(comps, type, parent) ==
  LET q == KeyOf(parent, type) IN
  IF Supplies(comps, q) THEN comps[q]
  ELSE IF Supplies(comps, type) THEN comps[type]
  ELSE IF type \in DOMAIN Defaults THEN Defaults[type]
  ELSE type

\* mdx(type, props) for a string type, rendered through MDXCreateElement.
Created(type, parent, components) ==
  [type |-> type, parent |-> parent, components |-> components,
   comp |-> Resolve(UseMDXComponents(components, Current), type, parent)]

Init ==
  /\ providers = <<>>
  /\ ctx = <<>>
  /\ doc = NoDoc
  /\ rendered = NoElement

\* <MDXProvider components={e}> around the document: c(props).
Provide ==
  /\ doc = NoDoc
  /\ Len(providers) < MaxDepth
  /\ \E e \in Props :
        /\ providers' = Append(providers, e)
        /\ ctx' = Append(ctx, UseMDXComponents(e, Current))
  /\ UNCHANGED <<doc, rendered>>

\* The render leaves the innermost provider's subtree.
Leave ==
  /\ doc = NoDoc
  /\ providers # <<>>
  /\ providers' = Front(providers)
  /\ ctx' = Front(ctx)
  /\ UNCHANGED <<doc, rendered>>

\* The document function m(e) of module 9228 with t = e.components: its
\* first element is kt("wrapper", {..., components: t, mdxType: "MDXLayout"}).
RenderDocument ==
  /\ doc = NoDoc
  /\ \E t \in Props :
        /\ doc' = t
        /\ rendered' = Created("wrapper", NoParent, t)
  /\ UNCHANGED <<providers, ctx>>

\* A body element kt(type, {parentName: ...}) of the document; no body
\* element is given a components prop.
RenderBody ==
  /\ doc # NoDoc
  /\ \E el \in Elements : rendered' = Created(el[1], el[2], Absent)
  /\ UNCHANGED <<providers, ctx, doc>>

EndDocument ==
  /\ doc # NoDoc
  /\ doc' = NoDoc
  /\ UNCHANGED <<providers, ctx, rendered>>

Next == Provide \/ Leave \/ RenderDocument \/ RenderBody \/ EndDocument

Spec == Init /\ [][Next]_vars

-----------------------------------------------------------------------------
(* The runtime against its promise.  The flat context values the code      *)
(* stores are mapped back to the layers written at the providers.          *)

Promise == INSTANCE ComponentLookup
             WITH layers <- providers, Qualified <- KeyOf

(* Every element created, the wrapper with the document's overrides and    *)
(* each body element with none, renders what the layered lookup of the     *)
(* enclosing providers picks: a parent-qualified name bound at any         *)
(* consulted layer, then the nearest plain name, then d, then the type;    *)
(* a function provider hides the providers above it.  Breaking it takes    *)
(* nested providers whose overrides meet, and an element created beneath. *)
ImplementsLookup == Promise!Spec

(* Spec 4.3: a document is "overridable per-document", and an explicitly   *)
(* supplied override comes first.  While a document rendered with         *)
(* components t is being rendered, an element whose name t binds renders   *)
(* t's component.                                                          *)
DocumentOverrideApplies ==
  LET bound == /\ doc \notin {NoDoc, Absent}
               /\ rendered # NoElement
               /\ doc.kind = "object"
               /\ rendered.type \in DOMAIN doc.val
               /\ KeyOf(rendered.parent, rendered.type) \notin DOMAIN doc.val
  IN  bound => rendered.comp = doc.val[rendered.type]
=============================================================================
