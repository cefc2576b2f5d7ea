---------------------------- MODULE PipelineLink ----------------------------
(***************************************************************************)
(* How audio_pipeline.c connects elements: the list of registered elements,*)
(* the list of ring buffers, and the input and output ring buffer of each  *)
(* element, under register, unregister, link, link_insert, unlink,         *)
(* breakup_elements, reset_kept_state, relink and deinit.  One thread      *)
(* calls them.  A tag is identified with the element that bears it.  What  *)
(* the calls do to the elements' tasks and listeners is modelled elsewhere.*)
(***************************************************************************)
EXTENDS Naturals, Sequences, FiniteSets, SequencesExt

CONSTANTS
  El,           (* elements                                                 *)
  Rb,           (* addresses of ring buffers; a bound on how many exist     *)
  Null,
  MaxChain,     (* the longest list of tags given to link and relink        *)
  MaxStale,     (* a bound on the left-over buffers in use, see stale       *)
  MayFail,      (* TRUE: an allocation in link or relink may fail; that of  *)
                (* a list item in register and link_insert does not         *)
  MayAbandon    (* TRUE: deinit may be called on a pipeline that is not     *)
                (* linked but has ring buffers (after a breakup, or a link  *)
                (* that failed)                                             *)

ASSUME NullAssumption == Null \notin El \cup Rb
ASSUME MaxChainAssumption == MaxChain \in Nat

VARIABLES
  p,            (* the pipeline and the connections, see Pipelines          *)
  live,         (* ring buffers that exist                                  *)
  chain,        (* history: the elements connected by the latest successful *)
                (* link or relink, <<>> when there is none                  *)
  stale         (* history: buffers that a link or relink took from a static*)
                (* variable as an earlier call had left it, since the       *)
                (* pipeline was last unlinked                               *)

vars == <<p, live, chain, stale>>

ElItem == [el : El, linked : BOOLEAN, kept_ctx : BOOLEAN]
RbItem == [rb : Rb, host_el : El \cup {Null}, linked : BOOLEAN, kept_ctx : BOOLEAN]

\* rb is the static variable of _pipeline_rb_linked, and that of
\* audio_pipeline_el_item_link.  They outlive the calls and the pipeline and serve
\* all pipelines: a call finds any buffer there, and between calls it is Null here.
Pipelines ==
  [el_list : Seq(ElItem), rb_list : Seq(RbItem), linked : BOOLEAN,
   input_rb : [El -> Rb \cup {Null}], output_rb : [El -> Rb \cup {Null}],
   rb : Rb \cup {Null}]

\* audio_pipeline_init, with new elements.
NewPipeline ==
  [el_list |-> <<>>, rb_list |-> <<>>, linked |-> FALSE,
   input_rb |-> [e \in El |-> Null], output_rb |-> [e \in El |-> Null], rb |-> Null]

Init ==
  /\ p = NewPipeline
  /\ live = {}
  /\ chain = <<>>
  /\ stale = {}

Buffers(l) == {l[i].rb : i \in DOMAIN l}

\* audio_pipeline_get_el_item_by_tag and _by_handle: the index of an element.
Items(q, e)   == {i \in DOMAIN q.el_list : q.el_list[i].el = e}
Registered(e) == Items(p, e) # {}
IndexOf(q, e) == CHOOSE i \in Items(q, e) : TRUE
ItemOf(q, e)  == q.el_list[IndexOf(q, e)]
Without(q, e) == IF Items(q, e) = {} THEN q.el_list ELSE RemoveAt(q.el_list, IndexOf(q, e))

SetItem(q, e, linked, kept) ==
  [q EXCEPT !.el_list = [i \in DOMAIN @ |->
     IF @[i].el = e THEN [el |-> e, linked |-> linked, kept_ctx |-> kept] ELSE @[i]]]

Wire(q, e, in, out) == [q EXCEPT !.input_rb[e] = in, !.output_rb[e] = out]

NewRbItem(r, e) == [rb |-> r, host_el |-> e, linked |-> TRUE, kept_ctx |-> FALSE]
-----------------------------------------------------------------------------
Connected(e) == p.input_rb[e] # Null \/ p.output_rb[e] # Null

\* An element enters and leaves the list while it is not connected: the callers
\* keep the elements of a chain registered until they tear the pipeline down.
Register(e) ==
  /\ ~Connected(e)
  /\ p' = [p EXCEPT !.el_list = Append(Without(p, e),
                                       [el |-> e, linked |-> FALSE, kept_ctx |-> FALSE])]
  /\ UNCHANGED <<live, chain, stale>>

\* audio_pipeline_register_more (one element): the element counts as linked.
RegisterMore(e) ==
  /\ ~Connected(e) /\ ~Registered(e)
  /\ p' = [p EXCEPT !.el_list = Append(@, [el |-> e, linked |-> TRUE, kept_ctx |-> FALSE])]
  /\ UNCHANGED <<live, chain, stale>>

Unregister(e) ==
  /\ Registered(e) /\ ~Connected(e)
  /\ p' = [p EXCEPT !.el_list = Without(p, e)]
  /\ UNCHANGED <<live, chain, stale>>

\* audio_pipeline_unregister_more (one element): no error when it is unknown.
UnregisterMore(e) ==
  /\ ~Connected(e)
  /\ p' = [p EXCEPT !.el_list = Without(p, e)]
  /\ UNCHANGED <<live, chain, stale>>

\* (mutant: the host of a buffer keeps it)
UnlinkedKeepsHosts(q) ==
  LET isLinked == {q.el_list[i].el : i \in {j \in DOMAIN q.el_list : q.el_list[j].linked}}
  IN  [q EXCEPT
         !.el_list = [i \in DOMAIN @ |->
            IF @[i].linked THEN [@[i] EXCEPT !.linked = FALSE, !.kept_ctx = FALSE] ELSE @[i]],
         !.input_rb  = [e \in El |-> IF e \in isLinked THEN Null ELSE @[e]],
         !.output_rb = [e \in El |-> IF e \in isLinked THEN Null ELSE @[e]],
         !.rb_list = <<>>,
         !.linked = FALSE]

\* audio_pipeline_unlink of a linked pipeline.
Unlinked(q) ==
  LET isLinked == {q.el_list[i].el : i \in {j \in DOMAIN q.el_list : q.el_list[j].linked}}
      cut == isLinked \cup {q.rb_list[i].host_el : i \in DOMAIN q.rb_list}
  IN  [q EXCEPT
         !.el_list = [i \in DOMAIN @ |->
            IF @[i].linked THEN [@[i] EXCEPT !.linked = FALSE, !.kept_ctx = FALSE] ELSE @[i]],
         !.input_rb  = [e \in El |-> IF e \in cut THEN Null ELSE @[e]],
         !.output_rb = [e \in El |-> IF e \in cut THEN Null ELSE @[e]],
         !.rb_list = <<>>,
         !.linked = FALSE]

Unlink ==
  /\ p.linked
  /\ p' = Unlinked(p)
  /\ live' = live \ Buffers(p.rb_list)
  /\ chain' = <<>>
  /\ stale' = {}

\* audio_pipeline_deinit: unlink, then every element is destroyed, and what
\* follows is a new pipeline.
Deinit ==
  /\ MayAbandon \/ p.linked \/ p.rb_list = <<>>
  /\ p' = NewPipeline
  /\ live' = IF p.linked THEN live \ Buffers(p.rb_list) ELSE live
  /\ chain' = <<>>
  /\ stale' = {}

\* (mutant: the buffer is not put into the list)
RbLinkedUnlisted(q, e, first, last, r) ==
  IF last THEN [q EXCEPT !.input_rb[e] = q.rb]
  ELSE [Wire(q, e, IF first THEN q.input_rb[e] ELSE q.rb, r) EXCEPT !.rb = r]

\* _pipeline_rb_linked for the i-th of n elements; r is the buffer it creates.
RbLinked(q, e, first, last, r) ==
  IF last THEN [q EXCEPT !.input_rb[e] = q.rb]
  ELSE [Wire(q, e, IF first THEN q.input_rb[e] ELSE q.rb, r) EXCEPT
          !.rb = r, !.rb_list = Append(@, NewRbItem(r, e))]

\* The loop of audio_pipeline_link over the first k of the tags.
LinkStep(q, tags, i, fresh) ==
  RbLinked(SetItem(q, tags[i], TRUE, FALSE), tags[i], i = 1, i = Len(tags), fresh[i])
LinkLoop(q, tags, k, fresh) ==
  LET loop[i \in 0..k] == IF i = 0 THEN q ELSE LinkStep(loop[i - 1], tags, i, fresh)
  IN  loop[k]

Chains == {s \in UNION {[1..n -> El] : n \in 1..MaxChain} : IsInjective(s)}

\* "Please register element strictly in the following order: input element first,
\* process middle, output element last" (audio_pipeline.h): the tags given to
\* link and relink are in the order of the list.
InListOrder(tags) ==
  \A i, j \in DOMAIN tags : i < j =>
    \A x \in Items(p, tags[i]), y \in Items(p, tags[j]) : x < y

Fresh(n, alive) == {f \in [1..n -> Rb \ alive] : IsInjective(f)}

\* What link starts from: a linked pipeline is unlinked first.
Base == IF p.linked THEN Unlinked(p) ELSE p
BaseLive == IF p.linked THEN live \ Buffers(p.rb_list) ELSE live
BaseStale == IF p.linked THEN {} ELSE stale

\* What a call may find in a static variable that it reads, and what it uses of it.
Left(reads) == IF reads THEN Rb \cup {Null} ELSE {Null}
Used(left, reads) == IF reads THEN {left} \ {Null} ELSE {}

\* audio_pipeline_link, _link_more.  The only element of a list of one tag is the
\* last: it is given the buffer that an earlier link handed on.
Link(tags) ==
  /\ \A i \in DOMAIN tags : Registered(tags[i])
  /\ \E f \in Fresh(Len(tags) - 1, BaseLive), left \in Left(Len(tags) = 1) :
       LET q == LinkLoop([Base EXCEPT !.rb = left], tags, Len(tags), f)
       IN  /\ p' = [q EXCEPT !.linked = TRUE, !.rb = Null]
           /\ live' = BaseLive \cup Range(f)
           /\ stale' = BaseStale \cup Used(left, Len(tags) = 1)
  /\ chain' = IF Len(tags) = 1 THEN <<>> ELSE tags
  /\ Cardinality(stale') <= MaxStale

\* The tag after the first k is unknown: the loop returns, and the elements and
\* buffers so far stay as they are.
LinkUnknownTag(tags, k) ==
  /\ \A i \in 1..k : Registered(tags[i])
  /\ ~Registered(tags[k + 1])
  /\ \E f \in Fresh(k, BaseLive) :
       /\ p' = [LinkLoop(Base, tags, k, f) EXCEPT !.rb = Null]
       /\ live' = BaseLive \cup Range(f)
  /\ chain' = <<>>
  /\ stale' = BaseStale

\* calloc or rb_create fails for element k + 1, after it got its input.
LinkNoMemory(tags, k) ==
  /\ MayFail
  /\ \A i \in 1..(k + 1) : Registered(tags[i])
  /\ \E f \in Fresh(k, BaseLive) :
       LET q == SetItem(LinkLoop(Base, tags, k, f), tags[k + 1], TRUE, FALSE)
       IN  /\ p' = IF k = 0 THEN q ELSE [q EXCEPT !.input_rb[tags[k + 1]] = q.rb, !.rb = Null]
           /\ live' = BaseLive \cup Range(f)
  /\ chain' = <<>>
  /\ stale' = BaseStale

\* The tags behind the one that fails are never looked at.
LinkFails(tags) ==
  \/ LinkUnknownTag(tags, Len(tags) - 1)
  \/ Len(tags) > 1 /\ LinkNoMemory(tags, Len(tags) - 2)
-----------------------------------------------------------------------------
\* breakup_elements, an element of the part that is thrown away.  Its search for
\* the buffer drops the connections after the first look, so it only ever finds
\* the first buffer of the list; the second look takes it for unconnected.
Discard(q, e) ==
  LET out == q.output_rb[e]
      cut == Wire(q, e, Null, Null)
  IN  CASE q.rb_list = <<>> -> q
        [] q.rb_list # <<>> /\ out = Head(q.rb_list).rb ->
             [SetItem(cut, e, FALSE, FALSE) EXCEPT !.rb_list[1] =
                [rb |-> out, host_el |-> Null, linked |-> FALSE, kept_ctx |-> FALSE]]
        [] OTHER -> IF out = Null \/ Len(q.rb_list) > 1 THEN SetItem(cut, e, FALSE, FALSE) ELSE cut

OutputIn(q, e) == \E i \in DOMAIN q.rb_list : q.rb_list[i].rb = q.output_rb[e]

\* (mutant: the buffer is not marked)
KeepElementOnly(q, e, working) ==
  Wire(SetItem(q, e, FALSE, working \/ ItemOf(q, e).kept_ctx),
       e, Null, IF working THEN q.output_rb[e] ELSE Null)

\* An element that is kept, with its output buffer, if it is running or paused.
Keep(q, e, working) ==
  [Wire(SetItem(q, e, FALSE, working \/ ItemOf(q, e).kept_ctx),
        e, Null, IF working THEN q.output_rb[e] ELSE Null) EXCEPT
     !.rb_list = [i \in DOMAIN @ |->
        IF working /\ @[i].rb = q.output_rb[e] THEN [@[i] EXCEPT !.kept_ctx = TRUE] ELSE @[i]]]

\* The loop over the elements: every one is kept until one with an output buffer
\* was met, afterwards only kept_ctx_el.
BreakupStep(acc, it, kept_ctx_el, working) ==
  CASE ~it.linked -> acc
    [] it.linked /\ ~acc.kept /\ it.el # kept_ctx_el -> [acc EXCEPT !.q = Discard(@, it.el)]
    [] OTHER -> IF OutputIn(acc.q, it.el)
                THEN [kept |-> FALSE, q |-> Keep(acc.q, it.el, it.el \in working)]
                ELSE acc
BreakupLoop(kept_ctx_el, working) ==
  LET loop[i \in 0..Len(p.el_list)] ==
        IF i = 0 THEN [kept |-> TRUE, q |-> p]
        ELSE BreakupStep(loop[i - 1], p.el_list[i], kept_ctx_el, working)
  IN  loop[Len(p.el_list)].q

\* audio_pipeline_breakup_elements; `working' are the running and paused elements.
BreakupElements(kept_ctx_el, working) ==
  /\ kept_ctx_el # Null => OutputIn(p, kept_ctx_el)
  /\ p' = [BreakupLoop(kept_ctx_el, working) EXCEPT
             !.rb_list = [i \in DOMAIN @ |-> IF @[i].kept_ctx THEN @[i] ELSE [@[i] EXCEPT !.linked = FALSE]],
             !.linked = FALSE]
  /\ chain' = <<>>
  /\ UNCHANGED <<live, stale>>

\* audio_pipeline_reset_kept_state, between a breakup and the relink.
ResetKeptState(e) ==
  LET r == p.output_rb[e]
  IN  /\ ~p.linked /\ Registered(e) /\ ItemOf(p, e).kept_ctx /\ ~ItemOf(p, e).linked
      /\ p' = [SetItem(p, e, FALSE, FALSE) EXCEPT
                 !.output_rb[e] = Null,
                 !.rb_list = [i \in DOMAIN @ |-> IF @[i].rb # r THEN @[i] ELSE
                    [rb |-> r, host_el |-> Null, linked |-> FALSE, kept_ctx |-> FALSE]],
                 !.linked = FALSE]
      /\ chain' = <<>>
      /\ UNCHANGED <<live, stale>>
-----------------------------------------------------------------------------
Free(b)    == ~b.linked /\ ~b.kept_ctx
FirstOf(S) == IF S = {} THEN {} ELSE {CHOOSE i \in S : \A j \in S : i <= j}

\* (mutant: a buffer in use is taken for a free one)
ChosenInUse(q, e) ==
  FirstOf({i \in DOMAIN q.rb_list :
     IF ItemOf(q, e).kept_ctx THEN q.rb_list[i].host_el = e ELSE ~q.rb_list[i].kept_ctx})

\* audio_pipeline_el_item_link, the choice of a buffer: a kept element's own, or
\* the first free one without a host; free ones that still name a host are only
\* made available for the next search.
Chosen(q, e) ==
  FirstOf({i \in DOMAIN q.rb_list :
     IF ItemOf(q, e).kept_ctx THEN q.rb_list[i].host_el = e
     ELSE Free(q.rb_list[i]) /\ q.rb_list[i].host_el = Null})

Searched(q, e) ==
  LET c == Chosen(q, e)
      passed(i) == ~ItemOf(q, e).kept_ctx /\ Free(q.rb_list[i]) /\ \A j \in c : i < j
  IN  [q EXCEPT !.rb_list = [i \in DOMAIN @ |->
         IF i \in c THEN NewRbItem(@[i].rb, e)
         ELSE IF passed(i) THEN [@[i] EXCEPT !.host_el = Null] ELSE @[i]]]

\* The element is not the last, and no buffer was found for it.
Creates(q, e, last) == Chosen(q, e) = {} /\ ~last

\* The element with its input, its output and the static variable set.
Connect(q, s, e, first, last, b) ==
  IF last THEN [s EXCEPT !.input_rb[e] = q.rb]
  ELSE [Wire(s, e, IF first THEN q.input_rb[e] ELSE q.rb, b) EXCEPT !.rb = b]

\* The whole of audio_pipeline_el_item_link, and the mark its caller sets before;
\* r is the buffer it may create.  When there is no memory for it (Null) the call
\* returns before it connects the element.
ElItemLink(q, e, first, last, r) ==
  LET c == Chosen(q, e)
      s == SetItem(Searched(q, e), e, TRUE, ItemOf(q, e).kept_ctx /\ c = {})
  IN  CASE c # {} -> Connect(q, s, e, first, last, q.rb_list[CHOOSE i \in c : TRUE].rb)
        [] c = {} /\ last -> Connect(q, s, e, first, last, Null)
        [] c = {} /\ ~last /\ r = Null -> s
        [] OTHER -> [Connect(q, s, e, first, last, r) EXCEPT
                       !.rb_list = Append(@, NewRbItem(r, e))]

\* `fresh' are the buffers that the allocations return, if there are any.
RelinkStep(q, tags, i, fresh) == ElItemLink(q, tags[i], i = 1, i = Len(tags), fresh[i])
RelinkLoop(q, tags, k, fresh) ==
  LET loop[i \in 0..k] == IF i = 0 THEN q ELSE RelinkStep(loop[i - 1], tags, i, fresh)
  IN  loop

Allocations(n) ==
  {f \in [1..n -> (Rb \ live) \cup {Null}] : \A i, j \in 1..n : i # j /\ f[i] = f[j] => f[i] = Null}

\* audio_pipeline_relink and _relink_more with k known tags first (all: k = Len),
\* called after a breakup: no element is linked.  A failure to link an element is
\* not noticed: the next one is given what the static variable holds, for the
\* second element (and for a single one) what an earlier relink left there.
Relink(tags, k) ==
  /\ ~p.linked /\ \A i \in DOMAIN p.el_list : ~p.el_list[i].linked
  /\ \A i \in 1..k : Registered(tags[i])
  /\ k < Len(tags) => ~Registered(tags[k + 1])
  /\ \E f \in Allocations(Len(tags) - 1) : \E left \in Left(Len(tags) = 1 \/ f[1] = Null) :
       LET loop   == RelinkLoop([p EXCEPT !.rb = left], tags, k, f)
           failed == {i \in 1..k : Creates(loop[i - 1], tags[i], i = Len(tags)) /\ f[i] = Null}
       IN  /\ failed # {} => MayFail
           /\ p' = [loop[k] EXCEPT !.linked = (k = Len(tags)), !.rb = Null]
           /\ live' = live \cup Buffers(loop[k].rb_list)
           /\ chain' = IF k = Len(tags) /\ k > 1 /\ failed = {} THEN tags ELSE <<>>
           /\ stale' = stale \cup Used(left, IF Len(tags) = 1 THEN k = 1 ELSE k > 1 /\ 1 \in failed)
  /\ Cardinality(stale') <= MaxStale

\* audio_pipeline_link_insert, element by element, with a buffer of the caller.
LinkInsert(prev, next) ==
  /\ ~Registered(next) /\ prev # next
  /\ IF chain = <<>> THEN ~p.linked /\ ~Registered(prev) ELSE prev = Last(chain)
  /\ ~Connected(next) /\ (chain = <<>> => ~Connected(prev))
  /\ \E r \in Rb \ live :
       /\ p' = [p EXCEPT
            !.el_list = @ \o (IF chain = <<>>
                                THEN <<[el |-> prev, linked |-> TRUE, kept_ctx |-> FALSE]>>
                                ELSE <<>>)
                          \o <<[el |-> next, linked |-> TRUE, kept_ctx |-> FALSE]>>,
            !.output_rb[prev] = r, !.input_rb[next] = r,
            !.rb_list = Append(@, NewRbItem(r, prev)),
            !.linked = TRUE]
       /\ live' = live \cup {r}
  /\ chain' = (IF chain = <<>> THEN <<prev>> ELSE chain) \o <<next>>
  /\ UNCHANGED stale

Next ==
  \/ \E e \in El : Register(e) \/ RegisterMore(e) \/ Unregister(e)
                  \/ UnregisterMore(e) \/ ResetKeptState(e)
  \/ Unlink \/ Deinit
  \/ \E tags \in Chains :
       /\ InListOrder(tags)
       /\ Link(tags) \/ LinkFails(tags) \/ \E k \in {Len(tags) - 1, Len(tags)} : Relink(tags, k)
  \/ \E k \in El \cup {Null}, W \in SUBSET {e \in El : p.output_rb[e] # Null} :
       BreakupElements(k, W)
  \/ \E e, f \in El : LinkInsert(e, f)

Spec == Init /\ [][Next]_vars
-----------------------------------------------------------------------------
\* A link or relink that allocated what it needs leaves a chain: each element's
\* output is the next one's input, and every buffer of it exists and has one writer
\* and one reader.  After a relink that lacked memory the chain is broken although
\* it reports success: `chain' is then empty.  While a left-over buffer is in use
\* (`stale') its address may be that of a new one.
ChainIsConnected ==
  p.linked /\ stale = {} =>
    \A i \in 1..(Len(chain) - 1) :
      LET r == p.output_rb[chain[i]]
      IN  /\ r \in live /\ r = p.input_rb[chain[i + 1]]
          /\ {e \in El : Registered(e) /\ p.output_rb[e] = r} = {chain[i]}
          /\ {e \in El : Registered(e) /\ p.input_rb[e] = r} = {chain[i + 1]}

\* No element of the list is left with a buffer that was destroyed, after any
\* sequence of links that fail half-way, breakups, relinks and unlinks: but for an
\* input that was taken from a static variable as an earlier call had left it, by
\* a link of one element or after a failed allocation in relink, and such an
\* input is gone with the next unlink.
NoDangling ==
  \A i \in DOMAIN p.el_list :
    LET e == p.el_list[i].el
    IN  p.output_rb[e] \in live \cup {Null} /\ p.input_rb[e] \in live \cup stale \cup {Null}

\* Every buffer is in the list, once, so that unlink or deinit destroys it:
\* "Briefly, frees all memory" (audio_pipeline.h, audio_pipeline_deinit).  Given that
\* no pipeline is given up unlinked with buffers in its list (MayAbandon = FALSE).
NoLeak == Len(p.rb_list) = Cardinality(live) /\ Buffers(p.rb_list) = live

\* An element that breakup kept and that is not linked again has its buffer to
\* itself: it is marked as kept, no relink of others reuses it.
KeptIsHeld ==
  \A i \in DOMAIN p.el_list :
    LET e == p.el_list[i].el
    IN  p.el_list[i].kept_ctx /\ ~p.el_list[i].linked /\ p.output_rb[e] # Null =>
          /\ \E j \in DOMAIN p.rb_list :
               p.rb_list[j].rb = p.output_rb[e] /\ p.rb_list[j].host_el = e /\ p.rb_list[j].kept_ctx
          /\ {f \in El : Registered(f) /\ p.output_rb[f] = p.output_rb[e]} = {e}
=============================================================================
