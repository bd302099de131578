----------------------------- MODULE Contracts ------------------------------
(***************************************************************************)
(* types/src/types.rs and types/src/transport.rs: what a contract holds    *)
(* and the facts every reader of it derives the same way.                  *)
(*                                                                         *)
(* A contract is a tree: a function from paths (sequences of the names of  *)
(* inline includes, the empty one for the file itself) to scopes.  An      *)
(* optional value is a set of at most one element.  A text is a sequence   *)
(* of tokens, each a word or a reference $(var name); a ref node/endpoint  *)
(* is the text of its two parts, a condition the text of its words.        *)
(***************************************************************************)
EXTENDS Integers, Sequences, FiniteSets, Functions, FiniteSetsExt

CONSTANTS NameOrder,  \* all names of the contract, in the order of a BTreeMap
          Bare(_)     \* the name of a topic without the slash of the root namespace

ASSUME TopicsHaveTwoSpellings ==
  \A i \in DOMAIN NameOrder :
    /\ Bare(Bare(NameOrder[i])) = Bare(NameOrder[i])
    /\ Cardinality({n \in Range(NameOrder) : Bare(n) = Bare(NameOrder[i])}) \in 1..2

Word(w) == [var |-> FALSE, text |-> w]
Var(a) == [var |-> TRUE, text |-> a]

Root == <<>>

\* The first of a non-empty set of names in the order of a BTreeMap.
FirstName(names) ==
  CHOOSE n \in names :
    \A o \in names : \E i \in DOMAIN NameOrder :
      NameOrder[i] = n /\ \A j \in 1..(i - 1) : NameOrder[j] # o

-----------------------------------------------------------------------------
(***************************************************************************)
(* The declarations as they are when the file states nothing.              *)
(***************************************************************************)
Always == [if |-> {}, unless |-> {}]

Unconditional(when) == when = Always

NoQos == [reliability |-> {}, durability |-> {}, depth |-> {}, history |-> {},
          liveliness |-> {}, lease |-> {}]

\* EndpointProps; ingress and on_demand are spellings of earlier releases.
Endpoint ==
  [min_rate |-> {}, max_rate |-> {}, state |-> {}, required |-> {}, qos |-> NoQos,
   transport |-> {}, link |-> {}, buffer |-> {}, aperiodic |-> {}, curve |-> {},
   min_interarrival |-> {}, budget |-> {}, budget_period |-> {},
   call |-> {}, timeout |-> {}, on_timeout |-> {}, on_rejected |-> {},
   on_violation |-> {}, ingress |-> {}, on_demand |-> {}]

\* SrvEndpointProps.
Server == [min_interarrival |-> {}, budget |-> {}, budget_period |-> {}, stale_after |-> {}]

\* BudgetSource, a word or a map with the observations or the derivation.
Source == [kind |-> "requirement", map |-> FALSE, margin |-> {}, max |-> {}, terms |-> {}, by |-> {}]

\* Supervision, of a bound or of a settle.
Supervision ==
  [reaction |-> {}, enters |-> {}, mechanism |-> {}, observes |-> {}, early |-> {}, resume |-> {}]

\* The map form of a bound.
Budget == [duration |-> {}, param |-> {}, source |-> {}, supervise |-> {}]

\* SafeState and its settle; keys are those the grammar does not know.
Settle == [duration |-> {}, response |-> {}, source |-> {}, supervise |-> {}, keys |-> <<>>]

NoSafeState == [emits |-> {}, settle |-> Settle]

\* PathDecl, of a node or of a scope (an event chain); budgets are the bounds
\* written in their map form.
Path ==
  [when |-> Always, input |-> <<>>, output |-> <<>>, trigger |-> {},
   max_latency |-> {}, min_latency |-> {}, jitter |-> {}, drop |-> {}, sync |-> {},
   budgets |-> <<>>, safe_state |-> NoSafeState]

NodeDecl == [when |-> Always, pub |-> <<>>, sub |-> <<>>, srv |-> <<>>, cli |-> <<>>, paths |-> <<>>]

TopicDecl ==
  [when |-> Always, type |-> <<>>, pub |-> <<>>, sub |-> <<>>, qos |-> NoQos, rate |-> {},
   transport |-> {}, drop |-> {}, external |-> {}]

\* ServiceDecl and ActionDecl.
ServiceDecl == [when |-> Always, type |-> <<>>, server |-> <<>>, client |-> <<>>, external |-> {}]

\* ExternalTopicDecl.
ExternalTopic == [side |-> {}, external |-> {}, type |-> {}, qos |-> NoQos]

\* FunctionDecl: a list of topics, or a map.
Function == [list |-> <<>>, all_of |-> {}, of |-> {}, when |-> {}]

\* HazardDecl; severity and guards are spellings of earlier releases.
Hazard ==
  [integrity |-> {}, monitors |-> {}, on |-> {}, enters |-> {}, reaction |-> {}, when |-> {},
   budgets |-> <<>>, keys |-> <<>>, severity |-> {}, guards |-> {}]

\* ModeExit and ModeDecl; on and window are spellings of earlier releases.
NoExit == [holds |-> {}, on |-> {}, to |-> {}]

Mode == [min_dwell |-> {}, exit |-> NoExit, window |-> {}]

\* A manifest; members stands for the texts of functions, modes and hazards
\* that arguments reach, unknown for the keys the grammar does not know.
Scope ==
  [when |-> Always, args |-> <<>>, nodes |-> <<>>, topics |-> <<>>, links |-> <<>>,
   services |-> <<>>, actions |-> <<>>, paths |-> <<>>, external_topics |-> <<>>,
   members |-> <<>>, uses |-> {}, lets |-> <<>>, acknowledged |-> <<>>, tick |-> {},
   hazards |-> <<>>, functions |-> <<>>, modes |-> <<>>, integrity_levels |-> {},
   severity_levels |-> {}, unknown |-> {}]

Includes(m, p) == {n \in UNION {Range(q) : q \in DOMAIN m} : Append(p, n) \in DOMAIN m}

-----------------------------------------------------------------------------
(***************************************************************************)
(* Refs.                                                                   *)
(***************************************************************************)
\* The owner a ref names; a ref without a slash names none.
Owner(ref) == {t.text : t \in {ref[1] : i \in {1} \cap (1..(Len(ref) - 1))}}

Ref(owner, member) == <<Word(owner), Word(member)>>

\* The endpoint of a scope's nodes that a ref names, on one side.
Publisher(s, ref) ==
  UNION {{s.nodes[n].pub[e] : e \in {ref[2].text} \cap DOMAIN s.nodes[n].pub} :
           n \in Owner(ref) \cap DOMAIN s.nodes}

Subscriber(s, ref) ==
  UNION {{s.nodes[n].sub[e] : e \in {ref[2].text} \cap DOMAIN s.nodes[n].sub} :
           n \in Owner(ref) \cap DOMAIN s.nodes}

IsTrue(option) == option = {TRUE}

TheOnly(option) == CHOOSE v \in option : TRUE

-----------------------------------------------------------------------------
(***************************************************************************)
(* Facts derived from declarations.                                        *)
(***************************************************************************)
\* PathDecl::effective_trigger: a stated trigger, else the legacy list.
EffectiveTrigger(path) ==
  IF path.trigger # {} THEN TheOnly(path.trigger)
  ELSE IF path.input # <<>> THEN [kind |-> "input", rate |-> 0, jitter |-> {}, eps |-> path.input]
  ELSE [kind |-> "unclassified", rate |-> 0, jitter |-> {}, eps |-> <<>>]

\* The inputs a path is triggered by.
InputsOf(path) ==
  IF EffectiveTrigger(path).kind = "input" THEN EffectiveTrigger(path).eps ELSE <<>>

\* QosDecl::effective: field by field, the endpoint's value, else the topic's.
EffectiveQos(topic, endpoint) ==
  [f \in DOMAIN NoQos |-> IF endpoint[f] # {} THEN endpoint[f] ELSE topic[f]]

\* edge_transport_ms: the subscriber's own value, else the topic's.
EdgeTransport(own, topic) == IF own # {} THEN own ELSE topic

\* sub_transport_ms.
SubTransport(s, ref) == UNION {e.transport : e \in Subscriber(s, ref)}

\* topic_transport_ms: the largest edge; a topic without subscribers has its own.
TopicTransport(s, topic) ==
  LET edges == UNION {EdgeTransport(SubTransport(s, r), topic.transport) : r \in Range(topic.sub)}
      all == IF topic.sub = <<>> THEN topic.transport ELSE edges
  IN  IF all = {} THEN {} ELSE {Max(all)}

\* DropCount::drop_rate of one count against that of another.
LosesMore(part, whole) == part.n * whole.w > whole.n * part.w
=============================================================================
