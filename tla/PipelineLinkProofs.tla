------------------------- MODULE PipelineLinkProofs -------------------------
(***************************************************************************)
(* Proofs about the lists and connections of a pipeline                    *)
(* (audio_pipeline/audio_pipeline.c): after any sequence of links that     *)
(* fail half-way, breakups, relinks and unlinks nothing dangles or leaks,  *)
(* kept elements keep their buffer, and a linked pipeline is one chain.    *)
(*                                                                         *)
(* The lists are repaired step by step in three loops.  What holds between *)
(* two steps of each is Sound: a buffer that an element writes to names    *)
(* that element as its host and is not free, and only an element that is   *)
(* marked as linked reads from one, or from a left-over buffer.            *)
(***************************************************************************)
EXTENDS PipelineLink, SequenceTheorems, FiniteSetTheorems, WellFoundedInduction, TLAPS

-----------------------------------------------------------------------------
(* The inductive invariant. *)

IsListed(q, e) == \E i \in DOMAIN q.el_list : q.el_list[i].el = e
IsLinked(q, e) == \E i \in DOMAIN q.el_list : q.el_list[i].el = e /\ q.el_list[i].linked

\* Each element and each buffer is in its list once.
ElementsDiffer(q) == \A i, j \in DOMAIN q.el_list : q.el_list[i].el = q.el_list[j].el => i = j
BuffersDiffer(q)  == \A i, j \in DOMAIN q.rb_list : q.rb_list[i].rb = q.rb_list[j].rb => i = j

\* The buffer b is that of element e, and audio_pipeline_el_item_link does not
\* take it for a free one.
Owned(q, b, e) ==
  /\ b.host_el = e
  /\ b.kept_ctx \/ (b.linked /\ IsLinked(q, e))

\* `old' are the left-over buffers in use, see stale.
Inputs(old, q) ==
  \A e \in El : q.input_rb[e] # Null =>
    IsLinked(q, e) /\ q.input_rb[e] \in Buffers(q.rb_list) \cup old

Outputs(q) ==
  \A e \in El : q.output_rb[e] # Null =>
    /\ IsListed(q, e)
    /\ \E j \in DOMAIN q.rb_list : q.rb_list[j].rb = q.output_rb[e] /\ Owned(q, q.rb_list[j], e)

Sound(old, q) ==
  /\ q \in Pipelines /\ ElementsDiffer(q) /\ BuffersDiffer(q)
  /\ Inputs(old, q) /\ Outputs(q)

\* Element i of the chain c feeds the next one, and no other unless by a left-over
\* buffer, whose address may be that of a new one.
Feeds(old, q, c, i) ==
  /\ q.output_rb[c[i]] # Null /\ q.output_rb[c[i]] = q.input_rb[c[i + 1]]
  /\ old = {} => \A e \in El : q.input_rb[e] = q.output_rb[c[i]] => e = c[i + 1]

Chained(old, q, c) ==
  /\ c \in Seq(El) /\ Len(c) # 1
  /\ \A i, j \in DOMAIN c : c[i] = c[j] => i = j
  /\ \A i \in DOMAIN c : IsLinked(q, c[i])
  /\ \A i \in 1..(Len(c) - 1) : Feeds(old, q, c, i)

IInv ==
  /\ Sound(stale, p) /\ Chained(stale, p, chain)
  /\ Buffers(p.rb_list) \subseteq live
  /\ ~MayAbandon => live = Buffers(p.rb_list)

-----------------------------------------------------------------------------
(* What the helpers do to the fields of the pipeline. *)

Item(e, linked, kept) == [el |-> e, linked |-> linked, kept_ctx |-> kept]

\* The fields of struct audio_pipeline.
LEMMA PipelineFields ==
  ASSUME NEW q \in Pipelines
  PROVE  /\ q.el_list \in Seq(ElItem) /\ q.rb_list \in Seq(RbItem) /\ q.linked \in BOOLEAN
         /\ q.input_rb \in [El -> Rb \cup {Null}] /\ q.output_rb \in [El -> Rb \cup {Null}]
         /\ q.rb \in Rb \cup {Null}
BY DEF Pipelines

\* The items of its buffers.
LEMMA BufferItems ==
  ASSUME NEW q \in Pipelines
  PROVE  \A i \in DOMAIN q.rb_list : q.rb_list[i] \in RbItem /\ q.rb_list[i].rb \in Rb
<1>1. q.rb_list \in Seq(RbItem)
  BY PipelineFields
<1>2. \A i \in DOMAIN q.rb_list : q.rb_list[i] \in RbItem
  BY <1>1
<1>3. \A b \in RbItem : b.rb \in Rb
  BY DEF RbItem
<1> QED
  BY <1>2, <1>3

\* r is q with the marks of e changed.
Remarked(q, r, e, l, k) ==
  /\ r \in Pipelines
  /\ r.rb_list = q.rb_list /\ r.linked = q.linked /\ r.rb = q.rb
  /\ r.input_rb = q.input_rb /\ r.output_rb = q.output_rb
  /\ DOMAIN r.el_list = DOMAIN q.el_list
  /\ \A i \in DOMAIN q.el_list :
       r.el_list[i] = IF q.el_list[i].el = e THEN Item(e, l, k) ELSE q.el_list[i]

\* A mark changes no order and no element (line 504).
LEMMA SetItemIs ==
  ASSUME NEW q \in Pipelines, NEW e \in El, NEW l \in BOOLEAN, NEW k \in BOOLEAN, NEW r,
         r = SetItem(q, e, l, k)
  PROVE  Remarked(q, r, e, l, k)
<1> DEFINE es == [i \in DOMAIN q.el_list |->
              IF q.el_list[i].el = e THEN Item(e, l, k) ELSE q.el_list[i]]
<1>1. es \in Seq(ElItem) /\ DOMAIN es = DOMAIN q.el_list
  <2>1. q.el_list \in Seq(ElItem)
    BY PipelineFields
  <2>2. Item(e, l, k) \in ElItem
    BY DEF Item, ElItem
  <2>3. \A i \in DOMAIN q.el_list : q.el_list[i] \in ElItem
    BY <2>1
  <2>4. DOMAIN q.el_list = 1..Len(q.el_list) /\ Len(q.el_list) \in Nat
    BY <2>1
  <2>5. es \in [1..Len(q.el_list) -> ElItem]
    BY <2>2, <2>3, <2>4
  <2> QED
    BY <2>4, <2>5, SeqDef
<1>2. r = [q EXCEPT !.el_list = es]
  BY DEF SetItem, Item
<1>3. \A i \in DOMAIN q.el_list :
        es[i] = IF q.el_list[i].el = e THEN Item(e, l, k) ELSE q.el_list[i]
  OBVIOUS
<1> HIDE DEF es
<1>4. r.el_list = es
  BY <1>2 DEF Pipelines
<1>5. /\ r.rb_list = q.rb_list /\ r.linked = q.linked /\ r.rb = q.rb
      /\ r.input_rb = q.input_rb /\ r.output_rb = q.output_rb
  BY <1>2 DEF Pipelines
<1>6. r \in Pipelines
  BY <1>1, <1>2 DEF Pipelines
<1> QED
  BY <1>1, <1>3, <1>4, <1>5, <1>6 DEF Remarked

\* It marks this element and no other.
LEMMA SetItemMarks ==
  ASSUME NEW q \in Pipelines, ElementsDiffer(q), NEW e \in El, NEW l \in BOOLEAN,
         NEW k \in BOOLEAN, NEW r, r = SetItem(q, e, l, k)
  PROVE  /\ ElementsDiffer(r)
         /\ \A x \in El : IsListed(r, x) <=> IsListed(q, x)
         /\ \A x \in El : x # e => (IsLinked(r, x) <=> IsLinked(q, x))
         /\ IsLinked(r, e) <=> l /\ IsListed(q, e)
<1>1. /\ DOMAIN r.el_list = DOMAIN q.el_list
      /\ \A i \in DOMAIN q.el_list :
              r.el_list[i] = IF q.el_list[i].el = e THEN Item(e, l, k) ELSE q.el_list[i]
  BY SetItemIs DEF Remarked
<1>2. \A i \in DOMAIN q.el_list :
        /\ r.el_list[i].el = q.el_list[i].el
        /\ q.el_list[i].el = e => r.el_list[i].linked = l
        /\ q.el_list[i].el # e => r.el_list[i] = q.el_list[i]
  BY <1>1 DEF Item
<1> QED
  BY <1>1, <1>2 DEF ElementsDiffer, IsListed, IsLinked

\* r is q with the connections of e changed.
Rewired(q, r, e, in, out) ==
  /\ r \in Pipelines
  /\ r.el_list = q.el_list /\ r.rb_list = q.rb_list /\ r.linked = q.linked /\ r.rb = q.rb
  /\ \A x \in El : r.input_rb[x] = IF x = e THEN in ELSE q.input_rb[x]
  /\ \A x \in El : r.output_rb[x] = IF x = e THEN out ELSE q.output_rb[x]

\* audio_element_set_input_ringbuf and _set_output_ringbuf.
LEMMA WireIs ==
  ASSUME NEW q \in Pipelines, NEW e \in El, NEW in \in Rb \cup {Null},
         NEW out \in Rb \cup {Null}, NEW r, r = Wire(q, e, in, out)
  PROVE  Rewired(q, r, e, in, out)
<1> DEFINE ins  == [q.input_rb EXCEPT ![e] = in]
           outs == [q.output_rb EXCEPT ![e] = out]
<1>1. ins \in [El -> Rb \cup {Null}] /\ outs \in [El -> Rb \cup {Null}]
  BY PipelineFields
<1>2. /\ \A x \in El : ins[x] = IF x = e THEN in ELSE q.input_rb[x]
      /\ \A x \in El : outs[x] = IF x = e THEN out ELSE q.output_rb[x]
  BY PipelineFields
<1>3. r = [[q EXCEPT !.input_rb = ins] EXCEPT !.output_rb = outs]
  BY DEF Wire, Pipelines
<1> HIDE DEF ins, outs
<1>4. /\ r \in Pipelines /\ r.input_rb = ins /\ r.output_rb = outs
      /\ r.el_list = q.el_list /\ r.rb_list = q.rb_list /\ r.linked = q.linked /\ r.rb = q.rb
  BY <1>1, <1>3 DEF Pipelines
<1> QED
  BY <1>2, <1>4 DEF Rewired

\* rs is the list of q with the buffer b at its end.
Added(q, rs, b, e) ==
  /\ rs \in Seq(RbItem)
  /\ DOMAIN rs = DOMAIN q.rb_list \cup {Len(q.rb_list) + 1}
  /\ Len(q.rb_list) + 1 \notin DOMAIN q.rb_list
  /\ rs[Len(q.rb_list) + 1] = NewRbItem(b, e)
  /\ \A i \in DOMAIN q.rb_list : rs[i] = q.rb_list[i]
  /\ Buffers(rs) = Buffers(q.rb_list) \cup {b}

\* add_rb_to_audio_pipeline (line 124): a new buffer at the end of the list.
LEMMA ListedBuffer ==
  ASSUME NEW q \in Pipelines, NEW e \in El, NEW b \in Rb, NEW rs,
         rs = Append(q.rb_list, NewRbItem(b, e))
  PROVE  Added(q, rs, b, e)
<1>1. q.rb_list \in Seq(RbItem)
  BY PipelineFields
<1>2. NewRbItem(b, e) \in RbItem /\ NewRbItem(b, e).rb = b
  BY DEF NewRbItem, RbItem
<1>3. /\ rs \in Seq(RbItem)
      /\ DOMAIN rs = DOMAIN q.rb_list \cup {Len(q.rb_list) + 1}
      /\ Len(q.rb_list) + 1 \notin DOMAIN q.rb_list
      /\ rs[Len(q.rb_list) + 1] = NewRbItem(b, e)
      /\ \A i \in DOMAIN q.rb_list : rs[i] = q.rb_list[i]
  BY <1>1, <1>2, AppendProperties
<1>4. Buffers(rs) = Buffers(q.rb_list) \cup {b}
  <2>1. Buffers(rs) = {rs[i].rb : i \in DOMAIN q.rb_list} \cup {rs[Len(q.rb_list) + 1].rb}
    BY <1>3 DEF Buffers
  <2>2. {rs[i].rb : i \in DOMAIN q.rb_list} = {q.rb_list[i].rb : i \in DOMAIN q.rb_list}
    BY <1>3
  <2> QED
    BY <2>1, <2>2, <1>2, <1>3 DEF Buffers
<1> QED
  BY <1>3, <1>4 DEF Added

\* The buffers of the list stay apart when a new one is added.
LEMMA NewBufferDiffers ==
  ASSUME NEW q \in Pipelines, BuffersDiffer(q), NEW e \in El,
         NEW b \in Rb \ Buffers(q.rb_list), NEW r, r.rb_list = Append(q.rb_list, NewRbItem(b, e))
  PROVE  BuffersDiffer(r)
<1> DEFINE n == Len(q.rb_list) + 1
<1>1. /\ DOMAIN r.rb_list = DOMAIN q.rb_list \cup {n} /\ n \notin DOMAIN q.rb_list
      /\ r.rb_list[n].rb = b
      /\ \A i \in DOMAIN q.rb_list : r.rb_list[i].rb = q.rb_list[i].rb
  <2>1. NewRbItem(b, e).rb = b
    BY DEF NewRbItem
  <2>2. Added(q, r.rb_list, b, e)
    BY ListedBuffer
  <2> QED
    BY <2>1, <2>2 DEF Added
<1>2. \A i \in DOMAIN q.rb_list : q.rb_list[i].rb # b
  BY DEF Buffers
<1> HIDE DEF n
<1> QED
  BY <1>1, <1>2 DEF BuffersDiffer

-----------------------------------------------------------------------------
(* audio_pipeline_link. *)

\* r is q with the new output b of e, which reads from the buffer before.
Passed(q, r, e, first, b) ==
  /\ r \in Pipelines
  /\ r.el_list = q.el_list /\ r.linked = q.linked /\ r.rb = b
  /\ r.rb_list = Append(q.rb_list, NewRbItem(b, e))
  /\ \A x \in El : r.input_rb[x] = IF x # e \/ first THEN q.input_rb[x] ELSE q.rb
  /\ \A x \in El : r.output_rb[x] = IF x = e THEN b ELSE q.output_rb[x]

PassedLast(q, r, e) ==
  /\ r \in Pipelines
  /\ r.el_list = q.el_list /\ r.linked = q.linked /\ r.rb = q.rb
  /\ r.rb_list = q.rb_list /\ r.output_rb = q.output_rb
  /\ \A x \in El : r.input_rb[x] = IF x = e THEN q.rb ELSE q.input_rb[x]

\* _pipeline_rb_linked (line 459) for an element with a successor.
LEMMA RbLinkedIs ==
  ASSUME NEW q \in Pipelines, NEW e \in El, NEW first \in BOOLEAN, NEW last \in BOOLEAN,
         NEW b \in Rb, NEW r, r = RbLinked(q, e, first, last, b), ~last
  PROVE  Passed(q, r, e, first, b)
<1> DEFINE in == IF first THEN q.input_rb[e] ELSE q.rb
           w  == Wire(q, e, in, b)
           rs == Append(q.rb_list, NewRbItem(b, e))
<1>1. in \in Rb \cup {Null} /\ b \in Rb \cup {Null}
  BY PipelineFields
<1>2. /\ w \in Pipelines
      /\ w.el_list = q.el_list /\ w.rb_list = q.rb_list /\ w.linked = q.linked
      /\ \A x \in El : w.input_rb[x] = IF x = e THEN in ELSE q.input_rb[x]
      /\ \A x \in El : w.output_rb[x] = IF x = e THEN b ELSE q.output_rb[x]
  <2>1. w = Wire(q, e, in, b)
    OBVIOUS
  <2> HIDE DEF in, w
  <2> QED
    <3>1. Rewired(q, w, e, in, b)
      BY <1>1, <2>1, WireIs
    <3> QED
      BY <3>1 DEF Rewired
<1>3. rs \in Seq(RbItem)
  <2>1. Added(q, rs, b, e)
    BY ListedBuffer
  <2> QED
    BY <2>1 DEF Added
<1>4. r = [[w EXCEPT !.rb = b] EXCEPT !.rb_list = Append(w.rb_list, NewRbItem(b, e))]
  <2> HIDE DEF w
  <2>1. w = Wire(q, e, IF first THEN q.input_rb[e] ELSE q.rb, b)
    BY DEF w
  <2> QED
    BY <2>1, <1>2 DEF RbLinked, Pipelines
<1>5. r = [[w EXCEPT !.rb = b] EXCEPT !.rb_list = rs]
  BY <1>2, <1>4
<1> HIDE DEF w, rs
<1>6. /\ r \in Pipelines
      /\ r.el_list = w.el_list /\ r.linked = w.linked /\ r.rb = b /\ r.rb_list = rs
      /\ r.input_rb = w.input_rb /\ r.output_rb = w.output_rb
  BY <1>1, <1>2, <1>3, <1>5 DEF Pipelines
<1> QED
  BY <1>2, <1>6 DEF rs, Passed

\* And for the last one.
LEMMA RbLinkedLast ==
  ASSUME NEW q \in Pipelines, NEW e \in El, NEW first \in BOOLEAN, NEW last \in BOOLEAN,
         NEW b, NEW r, r = RbLinked(q, e, first, last, b), last
  PROVE  PassedLast(q, r, e)
<1> DEFINE ins == [q.input_rb EXCEPT ![e] = q.rb]
<1>1. ins \in [El -> Rb \cup {Null}]
      /\ \A x \in El : ins[x] = IF x = e THEN q.rb ELSE q.input_rb[x]
  BY PipelineFields
<1>2. r = [q EXCEPT !.input_rb = ins]
  BY DEF RbLinked
<1> HIDE DEF ins
<1> QED
  BY <1>1, <1>2 DEF Pipelines, PassedLast


\* One element of a chain gets its buffers.  `prev' is what it reads from: the
\* buffer of the element before it.
LEMMA LinkStepIs ==
  ASSUME NEW q \in Pipelines, ElementsDiffer(q), NEW tags, NEW i \in Nat, NEW fresh, NEW e \in El,
         e = tags[i], IsListed(q, e), NEW r, r = LinkStep(q, tags, i, fresh),
         i # Len(tags) => fresh[i] \in Rb
  PROVE  /\ r \in Pipelines /\ ElementsDiffer(r) /\ r.linked = q.linked
         /\ \A x \in El : IsListed(r, x) <=> IsListed(q, x)
         /\ \A x \in El : IsLinked(r, x) <=> (x = e \/ IsLinked(q, x))
         /\ \A x \in El : r.input_rb[x] = IF x # e \/ (i = 1 /\ i # Len(tags))
                                          THEN q.input_rb[x] ELSE q.rb
         /\ i # Len(tags) =>
              /\ r.rb_list = Append(q.rb_list, NewRbItem(fresh[i], e)) /\ r.rb = fresh[i]
              /\ \A x \in El : r.output_rb[x] = IF x = e THEN fresh[i] ELSE q.output_rb[x]
         /\ i = Len(tags) =>
              r.rb_list = q.rb_list /\ r.rb = q.rb /\ r.output_rb = q.output_rb
<1> DEFINE s == SetItem(q, e, TRUE, FALSE)
<1>0. PICK yes \in BOOLEAN, no \in BOOLEAN, first \in BOOLEAN, last \in BOOLEAN :
        yes = TRUE /\ no = FALSE /\ first = (i = 1) /\ last = (i = Len(tags))
  OBVIOUS
<1>1. s = SetItem(q, e, yes, no)
  BY <1>0
<1>2. r = RbLinked(s, e, first, last, fresh[i])
  BY <1>0 DEF LinkStep
<1> HIDE DEF s
<1>3. /\ s \in Pipelines
      /\ s.rb_list = q.rb_list /\ s.linked = q.linked /\ s.rb = q.rb
      /\ s.input_rb = q.input_rb /\ s.output_rb = q.output_rb
  <2>1. Remarked(q, s, e, yes, no)
    BY <1>1, SetItemIs
  <2> QED
    BY <2>1 DEF Remarked
<1>4. /\ ElementsDiffer(s)
      /\ \A x \in El : IsListed(s, x) <=> IsListed(q, x)
      /\ \A x \in El : IsLinked(s, x) <=> (x = e \/ IsLinked(q, x))
  <2>1. /\ ElementsDiffer(s)
        /\ \A x \in El : IsListed(s, x) <=> IsListed(q, x)
        /\ \A x \in El : x # e => (IsLinked(s, x) <=> IsLinked(q, x))
        /\ IsLinked(s, e) <=> yes /\ IsListed(q, e)
    BY <1>1, SetItemMarks
  <2> QED
    BY <1>0, <2>1
<1>5. r.el_list = s.el_list =>
        /\ ElementsDiffer(r)
        /\ \A x \in El : IsListed(r, x) <=> IsListed(q, x)
        /\ \A x \in El : IsLinked(r, x) <=> (x = e \/ IsLinked(q, x))
  BY <1>4 DEF ElementsDiffer, IsListed, IsLinked
<1>6. CASE i = Len(tags)
  <2>1. last
    BY <1>0, <1>6
  <2>2. /\ r \in Pipelines
        /\ r.el_list = s.el_list /\ r.linked = s.linked /\ r.rb = s.rb
        /\ r.rb_list = s.rb_list /\ r.output_rb = s.output_rb
        /\ \A x \in El : r.input_rb[x] = IF x = e THEN s.rb ELSE s.input_rb[x]
    <3>1. PassedLast(s, r, e)
      BY <1>2, <1>3, <2>1, RbLinkedLast
    <3> QED
      BY <3>1 DEF PassedLast
  <2> QED
    BY <1>3, <1>5, <1>6, <2>2
<1>7. CASE i # Len(tags)
  <2>1. ~last /\ fresh[i] \in Rb
    BY <1>0, <1>7
  <2>2. /\ r \in Pipelines
        /\ r.el_list = s.el_list /\ r.linked = s.linked /\ r.rb = fresh[i]
        /\ r.rb_list = Append(s.rb_list, NewRbItem(fresh[i], e))
        /\ \A x \in El : r.input_rb[x] = IF x # e \/ first THEN s.input_rb[x] ELSE s.rb
        /\ \A x \in El : r.output_rb[x] = IF x = e THEN fresh[i] ELSE s.output_rb[x]
    <3>1. Passed(s, r, e, first, fresh[i])
      BY <1>2, <1>3, <2>1, RbLinkedIs
    <3> QED
      BY <3>1 DEF Passed
  <2> QED
    BY <1>0, <1>3, <1>5, <1>7, <2>2, ZenonT(60)
<1> QED
  BY <1>6, <1>7

\* r is sound and has the buffers of q, and a new one if there is a successor.
LongerBy(old, q, r, tags, i, fresh) ==
  /\ Sound(old, r)
  /\ i = Len(tags) => Buffers(r.rb_list) = Buffers(q.rb_list)
  /\ i # Len(tags) => Buffers(r.rb_list) = Buffers(q.rb_list) \cup {fresh[i]}

\* The lists and connections stay sound.
LEMMA LinkStepKeepsSound ==
  ASSUME NEW old, NEW q, Sound(old, q), NEW tags, NEW i \in Nat, NEW fresh, NEW e \in El,
         e = tags[i], IsListed(q, e), NEW r, r = LinkStep(q, tags, i, fresh),
         i # Len(tags) => fresh[i] \in Rb \ Buffers(q.rb_list),
         (i = 1 /\ i # Len(tags)) \/ q.rb \in Buffers(q.rb_list) \cup old \cup {Null}
  PROVE  LongerBy(old, q, r, tags, i, fresh)
<1>1. /\ r \in Pipelines /\ ElementsDiffer(r)
      /\ \A x \in El : IsListed(r, x) <=> IsListed(q, x)
      /\ \A x \in El : IsLinked(r, x) <=> (x = e \/ IsLinked(q, x))
      /\ \A x \in El : r.input_rb[x] = IF x # e \/ (i = 1 /\ i # Len(tags))
                                       THEN q.input_rb[x] ELSE q.rb
      /\ i # Len(tags) =>
           /\ r.rb_list = Append(q.rb_list, NewRbItem(fresh[i], e))
           /\ \A x \in El : r.output_rb[x] = IF x = e THEN fresh[i] ELSE q.output_rb[x]
      /\ i = Len(tags) => r.rb_list = q.rb_list /\ r.output_rb = q.output_rb
  BY LinkStepIs DEF Sound
<1>2. /\ i = Len(tags) => Buffers(r.rb_list) = Buffers(q.rb_list)
      /\ i # Len(tags) => Buffers(r.rb_list) = Buffers(q.rb_list) \cup {fresh[i]}
  <2>1. CASE i = Len(tags)
    BY <1>1, <2>1
  <2>2. CASE i # Len(tags)
    <3>1. q \in Pipelines /\ fresh[i] \in Rb
      BY <2>2 DEF Sound
    <3>2. r.rb_list = Append(q.rb_list, NewRbItem(fresh[i], e))
      BY <1>1, <2>2
    <3>3. Added(q, r.rb_list, fresh[i], e)
      BY <3>1, <3>2, ListedBuffer
    <3> QED
      BY <2>2, <3>3 DEF Added
  <2> QED
    BY <2>1, <2>2
<1>3. Inputs(old, r)
  BY <1>1, <1>2, Zenon DEF Sound, Inputs
<1>4. BuffersDiffer(r)
  <2>1. CASE i = Len(tags)
    BY <1>1, <2>1 DEF Sound, BuffersDiffer
  <2>2. CASE i # Len(tags)
    BY <1>1, <2>2, NewBufferDiffers DEF Sound
  <2> QED
    BY <2>1, <2>2
<1>5. Outputs(r)
  <2> SUFFICES ASSUME NEW x \in El, r.output_rb[x] # Null
               PROVE  /\ IsListed(r, x)
                      /\ \E j \in DOMAIN r.rb_list :
                           r.rb_list[j].rb = r.output_rb[x] /\ Owned(r, r.rb_list[j], x)
    BY DEF Outputs
  <2>1. \A j \in DOMAIN q.rb_list : j \in DOMAIN r.rb_list /\ r.rb_list[j] = q.rb_list[j]
    <3>1. CASE i = Len(tags)
      BY <1>1, <3>1
    <3>2. CASE i # Len(tags)
      <4>1. q \in Pipelines /\ fresh[i] \in Rb
        BY <3>2 DEF Sound
      <4>2. Added(q, r.rb_list, fresh[i], e)
        BY <1>1, <3>2, <4>1, ListedBuffer
      <4> QED
        BY <4>2 DEF Added
    <3> QED
      BY <3>1, <3>2
  <2>2. CASE r.output_rb[x] = q.output_rb[x]
    <3>1. /\ IsListed(q, x)
          /\ \E j \in DOMAIN q.rb_list :
               q.rb_list[j].rb = q.output_rb[x] /\ Owned(q, q.rb_list[j], x)
      BY <2>2 DEF Sound, Outputs
    <3>2. \A b : Owned(q, b, x) => Owned(r, b, x)
      BY <1>1 DEF Owned
    <3> QED
      BY <1>1, <2>1, <2>2, <3>1, <3>2
  <2>3. CASE x = e /\ i # Len(tags)
    <3> DEFINE n == Len(q.rb_list) + 1
    <3>1. q \in Pipelines /\ fresh[i] \in Rb
      BY <2>3 DEF Sound
    <3>2. n \in DOMAIN r.rb_list /\ r.rb_list[n] = NewRbItem(fresh[i], e)
      <4>1. Added(q, r.rb_list, fresh[i], e)
        BY <1>1, <2>3, <3>1, ListedBuffer
      <4> QED
        BY <4>1 DEF Added
    <3>3. Owned(r, NewRbItem(fresh[i], e), e) /\ NewRbItem(fresh[i], e).rb = fresh[i]
      BY <1>1 DEF Owned, NewRbItem
    <3>4. r.output_rb[x] = fresh[i]
      BY <1>1, <2>3
    <3> HIDE DEF n
    <3> QED
      BY <1>1, <2>3, <3>2, <3>3, <3>4
  <2> QED
    BY <1>1, <2>2, <2>3
<1> QED
  BY <1>1, <1>2, <1>3, <1>4, <1>5 DEF Sound, LongerBy


-----------------------------------------------------------------------------
(* Loops. *)

\* What holds before the first step of a loop and survives each step holds
\* after any of them.
LEMMA AfterEachStep ==
  ASSUME NEW n \in Nat, NEW X, 0 \in X, \A i \in 1..n : i - 1 \in X => i \in X
  PROVE  \A i \in 0..n : i \in X
<1> DEFINE Y == {i \in 0..n : i \notin X}
<1> SUFFICES ASSUME Y # {}
             PROVE  FALSE
  OBVIOUS
<1>1. PICK y \in Y : \A x \in Y : ~(<<x, y>> \in OpToRel(<, Nat))
  <2>1. Y \in SUBSET Nat
    OBVIOUS
  <2> HIDE DEF Y
  <2> QED
    BY <2>1, NatLessThanWellFounded, WFMin
<1>2. y \in 1..n /\ y - 1 \notin X
  <2>1. y \in 0..n /\ y \notin X
    BY <1>1
  <2>2. y # 0
    BY <2>1
  <2>3. y \in 1..n
    BY <2>1, <2>2
  <2> QED
    BY <2>1, <2>3
<1>3. y - 1 \in Y /\ y - 1 < y /\ y - 1 \in Nat /\ y \in Nat
  BY <1>2
<1>4. <<y - 1, y>> \in OpToRel(<, Nat)
  BY <1>3 DEF OpToRel
<1> QED
  BY <1>1, <1>3, <1>4

-----------------------------------------------------------------------------
(* The loop of audio_pipeline_link. *)

\* The values of the loop, step by step.
IsLinkLoop(loop, q, tags, k, fresh) ==
  /\ loop[0] = q
  /\ \A i \in 1..k : loop[i] = LinkStep(loop[i - 1], tags, i, fresh)

\* The loop of link has such values.
LEMMA LinkLoopRuns ==
  ASSUME NEW q, NEW tags, NEW k \in Nat, NEW fresh
  PROVE  \E loop : IsLinkLoop(loop, q, tags, k, fresh) /\ LinkLoop(q, tags, k, fresh) = loop[k]
<1> DEFINE X == {n \in 0..k : \E f : IsLinkLoop(f, q, tags, n, fresh)}
<1>1. 0 \in X
  <2>1. IsLinkLoop([i \in 0..k |-> q], q, tags, 0, fresh)
    BY DEF IsLinkLoop
  <2> QED
    BY <2>1
<1>2. ASSUME NEW n \in 1..k, n - 1 \in X
      PROVE  n \in X
  <2>1. PICK f : IsLinkLoop(f, q, tags, n - 1, fresh)
    BY <1>2
  <2> DEFINE g == [i \in 0..k |-> IF i = n THEN LinkStep(f[n - 1], tags, n, fresh) ELSE f[i]]
  <2>2. g[0] = q
    BY <2>1 DEF IsLinkLoop
  <2>3. ASSUME NEW i \in 1..n
        PROVE  g[i] = LinkStep(g[i - 1], tags, i, fresh)
    <3>1. g[i - 1] = f[i - 1]
      OBVIOUS
    <3>2. CASE i = n
      BY <3>1, <3>2
    <3>3. CASE i # n
      <4>1. i \in 1..(n - 1) /\ g[i] = f[i]
        BY <3>3
      <4> QED
        BY <2>1, <3>1, <4>1 DEF IsLinkLoop
    <3> QED
      BY <3>2, <3>3
  <2> HIDE DEF g
  <2>4. IsLinkLoop(g, q, tags, n, fresh)
    BY <2>2, <2>3 DEF IsLinkLoop
  <2> QED
    BY <2>4
<1>3. PICK f : IsLinkLoop(f, q, tags, k, fresh)
  <2> HIDE DEF X
  <2>1. k \in X
    BY <1>1, <1>2, AfterEachStep
  <2> QED
    BY <2>1 DEF X
<1> DEFINE h == [i \in 0..k |-> f[i]]
           Whole(l) == l = [i \in 0..k |-> IF i = 0 THEN q ELSE LinkStep(l[i - 1], tags, i, fresh)]
           loop == CHOOSE l : Whole(l)
<1>4. Whole(h)
  <2>1. \A i \in 0..k : f[i] = IF i = 0 THEN q ELSE LinkStep(h[i - 1], tags, i, fresh)
    BY <1>3 DEF IsLinkLoop
  <2> QED
    BY <2>1
<1>5. Whole(loop)
  <2> HIDE DEF Whole, h
  <2> QED
    BY <1>4
<1>6. LinkLoop(q, tags, k, fresh) = loop[k]
  BY DEF LinkLoop
<1>7. IsLinkLoop(loop, q, tags, k, fresh)
  <2> HIDE DEF loop
  <2> QED
    BY <1>5 DEF IsLinkLoop
<1> HIDE DEF loop
<1> QED
  BY <1>6, <1>7


\* The tags and the new buffers that the loop is given.
Linkable(old, q, tags, k, fresh) ==
  /\ Len(tags) \in Nat /\ Len(tags) > 0 /\ k \in 0..Len(tags)
  /\ Len(tags) = 1 /\ k = 1 => q.rb \in old \cup {Null}
  /\ \A i \in 1..Len(tags) : tags[i] \in El
  /\ \A i, j \in 1..Len(tags) : tags[i] = tags[j] => i = j
  /\ \A i \in 1..k : IsListed(q, tags[i])
  /\ \A i \in 1..k : i # Len(tags) => fresh[i] \in Rb \ Buffers(q.rb_list)
  /\ \A i, j \in 1..k : i # Len(tags) /\ j # Len(tags) /\ fresh[i] = fresh[j] => i = j

\* After i steps: a chain of the first i elements that shares nothing with what
\* was connected before.
Linking(old, q, r, tags, i, fresh) ==
  /\ Sound(old, r) /\ r.linked = q.linked
  /\ \A x \in El : IsListed(r, x) <=> IsListed(q, x)
  /\ Buffers(r.rb_list) = Buffers(q.rb_list) \cup {fresh[j] : j \in (1..i) \ {Len(tags)}}
  /\ i > 0 /\ i # Len(tags) => r.rb = fresh[i]
  /\ i = 0 => r = q
  /\ \A j \in 1..i : IsLinked(r, tags[j])
  /\ \A j \in 1..i : j # Len(tags) => r.output_rb[tags[j]] = fresh[j]
  /\ \A j \in 1..i : j # 1 => r.input_rb[tags[j]] = fresh[j - 1]
  /\ old = {} => \A x \in El, j \in 1..i : j # Len(tags) /\ r.input_rb[x] = fresh[j] =>
                    j + 1 \in 1..i /\ x = tags[j + 1]

\* Its step gives the next element of the chain its buffers.
LEMMA LinkingStep ==
  ASSUME NEW old, NEW q, Sound(old, q), NEW tags, NEW k, NEW fresh, Linkable(old, q, tags, k, fresh), NEW i \in 1..k,
         NEW a, Linking(old, q, a, tags, i - 1, fresh), NEW r, r = LinkStep(a, tags, i, fresh)
  PROVE  Linking(old, q, r, tags, i, fresh)
<1> DEFINE e == tags[i]
           n == Len(tags)
<1>1. /\ n \in Nat /\ n > 0 /\ k \in 0..n /\ i \in 1..n /\ i \in Nat /\ e \in El
      /\ \A j \in 1..i : tags[j] \in El /\ (tags[j] = e => j = i)
      /\ \A j \in 1..i : j # n => fresh[j] \in Rb \ Buffers(q.rb_list)
      /\ \A j, l \in 1..i : j # n /\ l # n /\ fresh[j] = fresh[l] => j = l
  BY DEF Linkable
<1>2. IsListed(a, e)
  BY <1>1 DEF Linkable, Linking
<1>3. i # n => fresh[i] \in Rb \ Buffers(a.rb_list)
  BY <1>1 DEF Linking
<1>4. CASE (i = 1 /\ i # n) \/ a.rb \in Buffers(a.rb_list) \cup old \cup {Null}
  <2>1. i # n => fresh[i] \in Rb
    BY <1>3
  <2>2. a \in Pipelines /\ ElementsDiffer(a) /\ Sound(old, a)
    BY DEF Linking, Sound
  <2>3. /\ r \in Pipelines /\ r.linked = a.linked
        /\ \A x \in El : IsListed(r, x) <=> IsListed(a, x)
        /\ \A x \in El : IsLinked(r, x) <=> (x = e \/ IsLinked(a, x))
        /\ \A x \in El : r.input_rb[x] = IF x # e \/ (i = 1 /\ i # n) THEN a.input_rb[x] ELSE a.rb
        /\ i # n => /\ r.rb = fresh[i]
                    /\ \A x \in El : r.output_rb[x] = IF x = e THEN fresh[i] ELSE a.output_rb[x]
        /\ i = n => r.rb = a.rb /\ r.output_rb = a.output_rb
    BY <1>1, <1>2, <2>1, <2>2, LinkStepIs
  <2>4. /\ Sound(old, r)
        /\ i = n => Buffers(r.rb_list) = Buffers(a.rb_list)
        /\ i # n => Buffers(r.rb_list) = Buffers(a.rb_list) \cup {fresh[i]}
    <3>1. i \in Nat /\ e \in El /\ e = tags[i]
      BY <1>1
    <3> HIDE DEF e
    <3>2. LongerBy(old, a, r, tags, i, fresh)
      BY <1>2, <1>3, <1>4, <2>2, <3>1, LinkStepKeepsSound
    <3> QED
      BY <3>2 DEF LongerBy
  <2> HIDE DEF n, e
  <2>5. Buffers(r.rb_list) = Buffers(q.rb_list) \cup {fresh[j] : j \in (1..i) \ {n}}
    <3>1. {fresh[j] : j \in (1..i) \ {n}}
          = {fresh[j] : j \in (1..(i - 1)) \ {n}} \cup (IF i = n THEN {} ELSE {fresh[i]})
      <4>1. (1..i) \ {n} = ((1..(i - 1)) \ {n}) \cup (IF i = n THEN {} ELSE {i})
        BY <1>1
      <4> QED
        BY <4>1
    <3> QED
      BY <2>4, <3>1 DEF Linking, n
  <2>6. \A x \in El : IsListed(r, x) <=> IsListed(q, x)
    BY <2>3 DEF Linking
  <2>7. \A j \in 1..i : IsLinked(r, tags[j])
    BY <1>1, <2>3 DEF Linking, e
  <2>8. \A j \in 1..i : j # n => r.output_rb[tags[j]] = fresh[j]
    BY <1>1, <2>3 DEF Linking, e, n
  <2>9. ASSUME NEW j \in 1..i, j # 1
        PROVE  r.input_rb[tags[j]] = fresh[j - 1]
    <3>1. CASE j = i
      BY <1>1, <2>3, <2>9, <3>1 DEF Linking, e, n
    <3>2. CASE j # i
      <4>1. j \in 1..(i - 1) /\ tags[j] \in El /\ tags[j] # e
        BY <1>1, <3>2
      <4>2. a.input_rb[tags[j]] = fresh[j - 1]
        BY <2>9, <4>1 DEF Linking
      <4> QED
        BY <2>3, <4>1, <4>2
    <3> QED
      BY <3>1, <3>2
  <2>10. ASSUME old = {}, NEW x \in El, NEW j \in 1..i, j # n, r.input_rb[x] = fresh[j]
         PROVE  j + 1 \in 1..i /\ x = tags[j + 1]
    <3>1. CASE x = e /\ ~(i = 1 /\ i # n)
      <4>0. i # 1
        BY <1>1, <2>10, <3>1
      <4>1. a.rb = fresh[i - 1] /\ i - 1 \in 1..i /\ i - 1 # n
        BY <1>1, <4>0 DEF Linking, n
      <4>2. j = i - 1
        BY <1>1, <2>3, <2>10, <3>1, <4>1
      <4> QED
        BY <1>1, <3>1, <4>2 DEF e
    <3>2. CASE x # e \/ (i = 1 /\ i # n)
      <4>1. a.input_rb[x] = fresh[j]
        BY <2>3, <2>10, <3>2
      <4>2. j # i
        <5>1. a.input_rb[x] = Null \/ a.input_rb[x] \in Buffers(a.rb_list)
          BY <2>2, <2>10 DEF Sound, Inputs
        <5> QED
          BY <1>3, <2>10, <4>1, <5>1, NullAssumption
      <4> QED
        BY <1>1, <2>10, <4>1, <4>2 DEF Linking, n
    <3> QED
      BY <3>1, <3>2
  <2> QED
    BY <2>3, <2>4, <2>5, <2>6, <2>7, <2>8, <2>9, <2>10 DEF Linking, n
<1>5. CASE ~((i = 1 /\ i # n) \/ a.rb \in Buffers(a.rb_list) \cup old \cup {Null})
  <2>0. i # 1
    <3>1. i = 1 => n = 1 /\ a = q
      BY <1>1, <1>5 DEF Linking
    <3>2. n = 1 => q.rb \in old \cup {Null}
      BY <1>1 DEF Linkable
    <3> QED
      BY <1>5, <3>1, <3>2
  <2>1. i - 1 > 0 /\ i - 1 # n /\ i - 1 \in (1..(i - 1)) \ {n}
    BY <1>1, <2>0
  <2>2. a.rb = fresh[i - 1] /\ fresh[i - 1] \in {fresh[j] : j \in (1..(i - 1)) \ {n}}
    BY <2>1 DEF Linking
  <2> QED
    BY <1>5, <2>2 DEF Linking
<1> QED
  BY <1>4, <1>5

\* All of the loop.
LEMMA LinkLoopLinks ==
  ASSUME NEW old, NEW q, Sound(old, q), NEW tags, NEW k, NEW fresh, Linkable(old, q, tags, k, fresh)
  PROVE  Linking(old, q, LinkLoop(q, tags, k, fresh), tags, k, fresh)
<1>1. k \in Nat
  BY DEF Linkable
<1>2. PICK loop : IsLinkLoop(loop, q, tags, k, fresh) /\ LinkLoop(q, tags, k, fresh) = loop[k]
  BY <1>1, LinkLoopRuns
<1> DEFINE X == {i \in 0..k : Linking(old, q, loop[i], tags, i, fresh)}
<1>3. 0 \in X
  <2>1. loop[0] = q
    BY <1>2 DEF IsLinkLoop
  <2>2. Linking(old, q, q, tags, 0, fresh)
    BY DEF Linking
  <2> QED
    BY <1>1, <2>1, <2>2
<1>4. ASSUME NEW i \in 1..k, i - 1 \in X
      PROVE  i \in X
  <2>1. loop[i] = LinkStep(loop[i - 1], tags, i, fresh)
    BY <1>2 DEF IsLinkLoop
  <2>2. Linking(old, q, loop[i - 1], tags, i - 1, fresh)
    BY <1>4
  <2>3. Linking(old, q, loop[i], tags, i, fresh)
    BY <2>1, <2>2, LinkingStep
  <2> QED
    BY <1>1, <2>3
<1>5. k \in X
  <2> HIDE DEF X
  <2> QED
    BY <1>1, <1>3, <1>4, AfterEachStep
<1> QED
  BY <1>2, <1>5


-----------------------------------------------------------------------------
(* audio_pipeline_unlink, and the beginning and end of audio_pipeline_link. *)

\* A pipeline without buffers, in which nothing is connected.
Cleared(old, q, r) ==
  /\ Sound(old, r) /\ r.rb_list = <<>> /\ ~r.linked
  /\ \A x \in El : IsListed(r, x) <=> IsListed(q, x)
  /\ \A x \in El : r.input_rb[x] = Null /\ r.output_rb[x] = Null

\* unlink looks at the marked elements and at the hosts of the buffers: no
\* other is connected.
LEMMA UnlinkedIs ==
  ASSUME NEW old, NEW q, Sound(old, q), NEW r, r = Unlinked(q), NEW new
  PROVE  Cleared(new, q, r)
<1> DEFINE es == [i \in DOMAIN q.el_list |->
                    IF q.el_list[i].linked
                      THEN [q.el_list[i] EXCEPT !.linked = FALSE, !.kept_ctx = FALSE]
                      ELSE q.el_list[i]]
           isLinked == {q.el_list[i].el : i \in {j \in DOMAIN q.el_list : q.el_list[j].linked}}
           cut  == isLinked \cup {q.rb_list[i].host_el : i \in DOMAIN q.rb_list}
           ins  == [e \in El |-> IF e \in cut THEN Null ELSE q.input_rb[e]]
           outs == [e \in El |-> IF e \in cut THEN Null ELSE q.output_rb[e]]
<1>1. q \in Pipelines /\ ElementsDiffer(q)
  BY DEF Sound
<1>2. r = [[[[[q EXCEPT !.el_list = es] EXCEPT !.input_rb = ins] EXCEPT !.output_rb = outs]
            EXCEPT !.rb_list = <<>>] EXCEPT !.linked = FALSE]
  BY <1>1 DEF Unlinked, Pipelines
<1>3. es \in Seq(ElItem) /\ DOMAIN es = DOMAIN q.el_list
      /\ \A i \in DOMAIN q.el_list : es[i].el = q.el_list[i].el
  <2>1. q.el_list \in Seq(ElItem)
    BY <1>1, PipelineFields
  <2>2. \A it \in ElItem : [it EXCEPT !.linked = FALSE, !.kept_ctx = FALSE] \in ElItem
                           /\ [it EXCEPT !.linked = FALSE, !.kept_ctx = FALSE].el = it.el
    BY DEF ElItem
  <2>3. \A i \in DOMAIN q.el_list : q.el_list[i] \in ElItem
    BY <2>1
  <2>4. DOMAIN q.el_list = 1..Len(q.el_list) /\ Len(q.el_list) \in Nat
    BY <2>1
  <2>5. \A i \in DOMAIN q.el_list : es[i] \in ElItem /\ es[i].el = q.el_list[i].el
    BY <2>2, <2>3
  <2>6. es \in [1..Len(q.el_list) -> ElItem]
    BY <2>4, <2>5
  <2> HIDE DEF es
  <2>7. es \in Seq(ElItem)
    BY <2>4, <2>6, SeqDef
  <2>8. DOMAIN es = DOMAIN q.el_list
    BY <2>4, <2>6
  <2> QED
    BY <2>5, <2>7, <2>8
<1>4. ASSUME NEW x \in El
      PROVE  ins[x] = Null /\ outs[x] = Null
  <2>1. CASE q.input_rb[x] # Null
    <3>1. IsLinked(q, x)
      BY <2>1 DEF Sound, Inputs
    <3>2. x \in cut
      BY <3>1 DEF IsLinked
    <3> QED
      BY <3>2
  <2>2. CASE q.output_rb[x] # Null
    <3>1. PICK j \in DOMAIN q.rb_list : q.rb_list[j].host_el = x
      BY <2>2 DEF Sound, Outputs, Owned
    <3>2. x \in cut
      BY <3>1
    <3> QED
      BY <3>2
  <2> QED
    BY <2>1, <2>2
<1>5. ins \in [El -> Rb \cup {Null}] /\ outs \in [El -> Rb \cup {Null}]
  BY <1>4
<1>6. <<>> \in Seq(RbItem) /\ DOMAIN <<>> = {}
  BY EmptySeq
<1> HIDE DEF es, ins, outs
<1>7. /\ r \in Pipelines
      /\ r.el_list = es /\ r.input_rb = ins /\ r.output_rb = outs /\ r.rb_list = <<>>
      /\ r.linked = FALSE
  BY <1>1, <1>2, <1>3, <1>5, <1>6 DEF Pipelines
<1>8. \A x \in El : r.input_rb[x] = Null /\ r.output_rb[x] = Null
  BY <1>4, <1>7
<1>9. ElementsDiffer(r) /\ \A x \in El : IsListed(r, x) <=> IsListed(q, x)
  BY <1>1, <1>3, <1>7 DEF ElementsDiffer, IsListed
<1>10. BuffersDiffer(r)
  BY <1>6, <1>7 DEF BuffersDiffer
<1>11. Sound(new, r)
  BY <1>7, <1>8, <1>9, <1>10 DEF Sound, Inputs, Outputs
<1> QED
  BY <1>7, <1>8, <1>9, <1>11 DEF Cleared

\* What a link starts from.
LEMMA BaseIs ==
  ASSUME IInv
  PROVE  /\ Sound(BaseStale, Base) /\ ~Base.linked
         /\ Base \in Pipelines /\ \A x \in El : IsListed(Base, x) <=> IsListed(p, x)
         /\ Buffers(Base.rb_list) \subseteq BaseLive
         /\ ~MayAbandon => BaseLive = Buffers(Base.rb_list)
<1>1. CASE p.linked
  <2>1. Base = Unlinked(p) /\ BaseLive = live \ Buffers(p.rb_list)
    BY <1>1 DEF Base, BaseLive
  <2>2. Cleared(BaseStale, p, Base)
    BY <2>1, UnlinkedIs DEF IInv
  <2>3. Buffers(Base.rb_list) = {}
    <3>1. DOMAIN <<>> = {}
      BY EmptySeq
    <3> QED
      BY <2>2, <3>1 DEF Cleared, Buffers
  <2> QED
    BY <2>1, <2>2, <2>3 DEF Cleared, IInv, Sound
<1>2. CASE ~p.linked
  BY <1>2 DEF Base, BaseLive, BaseStale, IInv, Sound
<1> QED
  BY <1>1, <1>2

\* The end of link, relink and breakup: neither field matters to the lists.
Same(q, r) ==
  /\ r \in Pipelines /\ r.el_list = q.el_list /\ r.rb_list = q.rb_list
  /\ r.input_rb = q.input_rb /\ r.output_rb = q.output_rb

\* They change nothing that Sound speaks of.
LEMMA SameIsSound ==
  ASSUME NEW old, NEW q, Sound(old, q), NEW r, Same(q, r)
  PROVE  Sound(old, r) /\ Buffers(r.rb_list) = Buffers(q.rb_list)
         /\ \A x : (IsListed(r, x) <=> IsListed(q, x)) /\ (IsLinked(r, x) <=> IsLinked(q, x))
<1>1. \A x : (IsListed(r, x) <=> IsListed(q, x)) /\ (IsLinked(r, x) <=> IsLinked(q, x))
  BY DEF Same, IsListed, IsLinked
<1>2. \A b, x : Owned(r, b, x) <=> Owned(q, b, x)
  BY <1>1 DEF Owned
<1>3. Inputs(old, r)
  BY <1>1 DEF Same, Sound, Inputs
<1>4. Outputs(r)
  BY <1>1, <1>2 DEF Same, Sound, Outputs
<1> QED
  BY <1>1, <1>3, <1>4 DEF Same, Sound, ElementsDiffer, BuffersDiffer

\* More buffers may be left over.
LEMMA SoundWithMore ==
  ASSUME NEW old, NEW q, Sound(old, q), NEW new, old \subseteq new
  PROVE  Sound(new, q)
BY DEF Sound, Inputs

\* A call ends by setting only these two fields.
LEMMA EndOfLoop ==
  ASSUME NEW q \in Pipelines, NEW l \in BOOLEAN, NEW b \in Rb \cup {Null}, NEW r,
         r = [q EXCEPT !.linked = l, !.rb = b]
  PROVE  Same(q, r) /\ r.linked = l
<1> DEFINE R == Rb \cup {Null}
<1>1. b \in R /\ Pipelines
      = [el_list : Seq(ElItem), rb_list : Seq(RbItem), linked : BOOLEAN,
         input_rb : [El -> R], output_rb : [El -> R], rb : R]
  BY DEF Pipelines
<1> HIDE DEF R
<1> QED
  BY <1>1 DEF Same


-----------------------------------------------------------------------------
(* The actions: link. *)

\* The tags that link and relink are given.
LEMMA ChainsAre ==
  ASSUME NEW tags \in Chains
  PROVE  /\ tags \in Seq(El) /\ Len(tags) \in Nat /\ Len(tags) > 0 /\ DOMAIN tags = 1..Len(tags)
         /\ \A i \in 1..Len(tags) : tags[i] \in El
         /\ \A i, j \in 1..Len(tags) : tags[i] = tags[j] => i = j
<1>1. PICK n \in 1..MaxChain : tags \in [1..n -> El]
  BY DEF Chains
<1>2. n \in Nat /\ n > 0
  BY MaxChainAssumption
<1>3. tags \in Seq(El) /\ Len(tags) = n /\ DOMAIN tags = 1..n
  BY <1>1, <1>2
<1>4. \A i, j \in DOMAIN tags : tags[i] = tags[j] => i = j
  BY DEF Chains, IsInjective
<1> QED
  BY <1>1, <1>2, <1>3, <1>4

\* The ring buffers that are created.
LEMMA FreshAre ==
  ASSUME NEW n \in Nat, NEW alive, NEW f \in Fresh(n, alive)
  PROVE  /\ DOMAIN f = 1..n /\ Range(f) = {f[i] : i \in 1..n}
         /\ \A i \in 1..n : f[i] \in Rb \ alive
         /\ \A i, j \in 1..n : f[i] = f[j] => i = j
BY DEF Fresh, IsInjective, Range

\* audio_pipeline_get_el_item_by_tag finds an element of the list.
LEMMA RegisteredIs ==
  ASSUME NEW q, NEW e
  PROVE  Items(q, e) # {} <=> IsListed(q, e)
BY DEF Items, IsListed

\* A loop that fails reads no static variable that it has not set.
LEMMA BaseItself ==
  ASSUME IInv
  PROVE  Base.rb \in Rb \cup {Null} /\ Base = [Base EXCEPT !.rb = Base.rb]
<1>1. Base \in Pipelines
  BY BaseIs
<1> HIDE DEF Base
<1> QED
  BY <1>1, PipelineFields DEF Pipelines

\* The arguments of link are as its loop needs them.
LEMMA LinkIsLinkable ==
  ASSUME IInv, NEW tags \in Chains, NEW k \in 0..Len(tags), \A i \in 1..k : Registered(tags[i]),
         NEW n \in Nat, n = k \/ (k = Len(tags) /\ n = k - 1), NEW f \in Fresh(n, BaseLive),
         NEW left \in Rb \cup {Null}, NEW q, q = [Base EXCEPT !.rb = left], NEW old,
         BaseStale \subseteq old, Len(tags) = 1 /\ k = 1 => left \in old \cup {Null}
  PROVE  Linkable(old, q, tags, k, f) /\ Sound(old, q) /\ Buffers(q.rb_list) = Buffers(Base.rb_list)
<1>1. /\ Len(tags) \in Nat /\ Len(tags) > 0
      /\ \A i \in 1..Len(tags) : tags[i] \in El
      /\ \A i, j \in 1..Len(tags) : tags[i] = tags[j] => i = j
  BY ChainsAre
<1>2. \A i \in 1..k : IsListed(Base, tags[i])
  BY <1>1, BaseIs, RegisteredIs DEF Registered
<1>3. /\ \A i \in 1..n : f[i] \in Rb \ Buffers(Base.rb_list)
      /\ \A i, j \in 1..n : f[i] = f[j] => i = j
  BY FreshAre, BaseIs
<1>4. \A i \in 1..k : i # Len(tags) => i \in 1..n
  BY <1>1
<1>5. Same(Base, q) /\ q.rb = left
  <2>1. Base \in Pipelines
    BY BaseIs
  <2> HIDE DEF Base
  <2>2. PICK R : R = Rb \cup {Null}
    OBVIOUS
  <2>3. left \in R /\ Pipelines
        = [el_list : Seq(ElItem), rb_list : Seq(RbItem), linked : BOOLEAN,
           input_rb : [El -> R], output_rb : [El -> R], rb : R]
    BY <2>2 DEF Pipelines
  <2> QED
    BY <2>1, <2>3 DEF Same
<1>6. /\ Sound(old, q) /\ Buffers(q.rb_list) = Buffers(Base.rb_list)
      /\ \A x : IsListed(q, x) <=> IsListed(Base, x)
  <2>1. Sound(old, Base)
    BY BaseIs, SoundWithMore
  <2> QED
    BY <1>5, <2>1, SameIsSound
<1> QED
  BY <1>1, <1>2, <1>3, <1>4, <1>5, <1>6 DEF Linkable

\* A chain is connected when the loop is through.
LEMMA LinkingChains ==
  ASSUME NEW old, NEW q, NEW r, NEW tags \in Chains, NEW f, Linking(old, q, r, tags, Len(tags), f),
         Linkable(old, q, tags, Len(tags), f), Len(tags) # 1
  PROVE  Chained(old, r, tags)
<1>1. /\ tags \in Seq(El) /\ Len(tags) \in Nat /\ Len(tags) > 1 /\ DOMAIN tags = 1..Len(tags)
      /\ \A i \in 1..Len(tags) : tags[i] \in El
      /\ \A i, j \in 1..Len(tags) : tags[i] = tags[j] => i = j
  <2>1. Len(tags) \in Nat /\ Len(tags) > 0
    BY ChainsAre
  <2>2. \A m \in Nat : m > 0 /\ m # 1 => m > 1
    OBVIOUS
  <2>3. Len(tags) > 1
    BY <2>1, <2>2, Zenon
  <2> QED
    BY <2>1, <2>3, ChainsAre, Zenon
<1>2. ASSUME NEW i \in 1..(Len(tags) - 1)
      PROVE  Feeds(old, r, tags, i)
  <2>0. \A m \in Nat : \A j \in 1..(m - 1) :
          j \in 1..m /\ j # m /\ j + 1 \in 1..m /\ j + 1 # 1 /\ (j + 1) - 1 = j
    OBVIOUS
  <2>1. i \in 1..Len(tags) /\ i # Len(tags) /\ i + 1 \in 1..Len(tags) /\ i + 1 # 1 /\ (i + 1) - 1 = i
    BY <1>1, <2>0, Zenon
  <2>2. r.output_rb[tags[i]] = f[i] /\ r.input_rb[tags[i + 1]] = f[i]
    BY <2>1 DEF Linking
  <2>3. f[i] # Null
    BY <2>1, NullAssumption DEF Linkable
  <2>4. old = {} => \A x \in El : r.input_rb[x] = f[i] => x = tags[i + 1]
    BY <2>1 DEF Linking
  <2> QED
    BY <2>2, <2>3, <2>4 DEF Feeds
<1>3. \A i \in DOMAIN tags : IsLinked(r, tags[i])
  BY <1>1 DEF Linking
<1> QED
  BY <1>1, <1>2, <1>3 DEF Chained

\* Nor what Chained speaks of.
LEMMA SameIsChained ==
  ASSUME NEW old, NEW q, Sound(old, q), NEW r, Same(q, r), NEW c, Chained(old, q, c)
  PROVE  Chained(old, r, c)
<1>1. \A x : IsLinked(r, x) <=> IsLinked(q, x)
  BY SameIsSound
<1> QED
  BY <1>1 DEF Same, Chained, Feeds

\* There is no chain after an unlink, a breakup or a failed link.
LEMMA NoChain ==
  ASSUME NEW old, NEW q
  PROVE  Chained(old, q, <<>>)
<1>1. <<>> \in Seq(El) /\ Len(<<>>) = 0 /\ DOMAIN <<>> = {}
  BY EmptySeq
<1> QED
  BY <1>1 DEF Chained

\* audio_pipeline_link.
LEMMA LinkKeepsIInv ==
  ASSUME IInv, NEW tags \in Chains, Link(tags)
  PROVE  IInv'
<1> DEFINE n == Len(tags)
<1>1. n \in Nat /\ n > 0 /\ DOMAIN tags = 1..n /\ n - 1 \in Nat
  BY ChainsAre
<1>2. PICK f \in Fresh(n - 1, BaseLive), left \in Left(n = 1) :
        /\ p' = [LinkLoop([Base EXCEPT !.rb = left], tags, n, f) EXCEPT !.linked = TRUE, !.rb = Null]
        /\ live' = BaseLive \cup Range(f)
        /\ stale' = BaseStale \cup Used(left, n = 1)
  BY DEF Link
<1> DEFINE b == [Base EXCEPT !.rb = left]
           q == LinkLoop(b, tags, n, f)
<1>3. Linkable(stale', b, tags, n, f) /\ Sound(stale', b) /\ Buffers(b.rb_list) = Buffers(Base.rb_list)
  <2>1. n \in 0..n /\ \A i \in 1..n : Registered(tags[i])
    BY <1>1 DEF Link
  <2>2. left \in Rb \cup {Null} /\ (n = 1 => left \in stale' \cup {Null}) /\ BaseStale \subseteq stale'
    BY <1>2 DEF Left, Used
  <2>3. b = [Base EXCEPT !.rb = left]
    OBVIOUS
  <2> HIDE DEF n, b
  <2>4. n = Len(tags) /\ n - 1 \in Nat
    BY <1>1 DEF n
  <2>5. PICK old : old = stale'
    OBVIOUS
  <2>6. BaseStale \subseteq old /\ (Len(tags) = 1 => left \in old \cup {Null})
    BY <2>2, <2>4, <2>5
  <2>7. Linkable(old, b, tags, n, f) /\ Sound(old, b) /\ Buffers(b.rb_list) = Buffers(Base.rb_list)
    <3>1. PICK k : k = Len(tags)
      OBVIOUS
    <3>2. PICK m : m = k - 1
      OBVIOUS
    <3>3. k \in 0..Len(tags) /\ m \in Nat /\ (m = k \/ (k = Len(tags) /\ m = k - 1))
      BY <2>1, <2>4, <3>1, <3>2
    <3>4. \A i \in 1..k : Registered(tags[i])
      BY <2>1, <2>4, <3>1
    <3>5. f \in Fresh(m, BaseLive)
      BY <2>4, <3>1, <3>2
    <3>6. Len(tags) = 1 /\ k = 1 => left \in old \cup {Null}
      BY <2>6
    <3>7. Linkable(old, b, tags, k, f) /\ Sound(old, b) /\ Buffers(b.rb_list) = Buffers(Base.rb_list)
      BY <2>2, <2>3, <2>6, <3>3, <3>4, <3>5, <3>6, LinkIsLinkable, Zenon
    <3> QED
      BY <2>4, <3>1, <3>7, Zenon
  <2> QED
    BY <2>5, <2>7
<1>4. Linking(stale', b, q, tags, n, f)
  <2> HIDE DEF b
  <2> QED
    BY <1>3, LinkLoopLinks
<1> HIDE DEF q, b
<1>5. Sound(stale', q) /\ (n # 1 => Chained(stale', q, tags))
      /\ Buffers(q.rb_list) = Buffers(Base.rb_list) \cup {f[j] : j \in (1..n) \ {n}}
  BY <1>3, <1>4, LinkingChains DEF Linking
<1>6. Same(q, p') /\ p'.linked
  <2>1. q \in Pipelines /\ Null \in Rb \cup {Null} /\ TRUE \in BOOLEAN
    BY <1>5 DEF Sound
  <2>2. PICK l \in BOOLEAN : l = TRUE
    OBVIOUS
  <2>3. p' = [q EXCEPT !.linked = l, !.rb = Null]
    BY <1>2, <2>2 DEF q, b
  <2>4. Same(q, p') /\ p'.linked = l
    BY <2>1, <2>3, EndOfLoop
  <2> QED
    BY <2>2, <2>4
<1>7. Sound(stale', p') /\ Buffers(p'.rb_list) = Buffers(q.rb_list)
      /\ (n # 1 => Chained(stale', p', tags))
  BY <1>5, <1>6, SameIsSound, SameIsChained
<1>8. {f[j] : j \in (1..n) \ {n}} = Range(f)
  <2>1. (1..n) \ {n} = 1..(n - 1)
    BY <1>1
  <2> HIDE DEF n
  <2>2. Range(f) = {f[i] : i \in 1..(n - 1)}
    BY <1>1, FreshAre
  <2> QED
    BY <2>1, <2>2
<1>9. Chained(stale', p', chain')
  <2>1. chain' = IF n = 1 THEN <<>> ELSE tags
    BY DEF Link
  <2> QED
    BY <1>7, <2>1, NoChain
<1> QED
  BY <1>2, <1>5, <1>7, <1>8, <1>9, BaseIs DEF IInv


\* The first elements, when the tag after them is unknown.
LEMMA LinkUnknownTagKeepsIInv ==
  ASSUME IInv, NEW tags \in Chains, NEW k \in 0..(Len(tags) - 1), LinkUnknownTag(tags, k)
  PROVE  IInv'
<1> DEFINE n == Len(tags)
<1>1. n \in Nat /\ n > 0 /\ k \in Nat /\ k \in 0..n /\ k # n
  BY ChainsAre
<1>2. PICK f \in Fresh(k, BaseLive) :
        /\ p' = [LinkLoop(Base, tags, k, f) EXCEPT !.rb = Null]
        /\ live' = BaseLive \cup Range(f)
  BY DEF LinkUnknownTag
<1>3. Linkable(BaseStale, Base, tags, k, f)
  <2>1. \A i \in 1..k : Registered(tags[i])
    BY DEF LinkUnknownTag
  <2> QED
    BY <1>1, <2>1, LinkIsLinkable, BaseItself
<1> DEFINE q == LinkLoop(Base, tags, k, f)
<1>4. Linking(BaseStale, Base, q, tags, k, f)
  BY <1>3, BaseIs, LinkLoopLinks
<1> HIDE DEF q
<1>5. /\ Sound(stale', q)
      /\ Buffers(q.rb_list) = Buffers(Base.rb_list) \cup {f[j] : j \in (1..k) \ {n}}
  BY <1>4 DEF Linking, LinkUnknownTag
<1>6. Same(q, p')
  <2>1. q \in Pipelines /\ q.linked \in BOOLEAN
    BY <1>5, PipelineFields DEF Sound
  <2>2. p' = [q EXCEPT !.linked = q.linked, !.rb = Null]
    BY <1>2, <2>1 DEF q, Pipelines
  <2> QED
    BY <2>1, <2>2, EndOfLoop
<1>7. Sound(stale', p') /\ Buffers(p'.rb_list) = Buffers(q.rb_list)
  BY <1>5, <1>6, SameIsSound
<1>8. {f[j] : j \in (1..k) \ {n}} = Range(f)
  <2>1. (1..k) \ {n} = 1..k
    BY <1>1
  <2>2. Range(f) = {f[i] : i \in 1..k}
    BY <1>1, FreshAre
  <2> QED
    BY <2>1, <2>2
<1>9. chain' = <<>>
  BY DEF LinkUnknownTag
<1> QED
  BY <1>2, <1>5, <1>7, <1>8, <1>9, BaseIs, NoChain DEF IInv

\* The next element has its mark and its input, when there is no memory for
\* its output.
LEMMA LinkNoMemoryKeepsIInv ==
  ASSUME IInv, NEW tags \in Chains, NEW k \in 0..(Len(tags) - 2), LinkNoMemory(tags, k)
  PROVE  IInv'
<1> DEFINE n == Len(tags)
<1>1. n \in Nat /\ k \in Nat /\ k \in 0..n /\ k # n /\ k + 1 \in 1..n /\ ~(n = 1 /\ k = 1)
  BY ChainsAre
<1> DEFINE e == tags[k + 1]
           Half(f) == LinkLoop(Base, tags, k, f)
<1>2. PICK f \in Fresh(k, BaseLive) :
        /\ p' = IF k = 0 THEN SetItem(Half(f), e, TRUE, FALSE)
                ELSE [SetItem(Half(f), e, TRUE, FALSE)
                       EXCEPT !.input_rb[e] = SetItem(Half(f), e, TRUE, FALSE).rb, !.rb = Null]
        /\ live' = BaseLive \cup Range(f)
  BY DEF LinkNoMemory
<1>3. Linkable(BaseStale, Base, tags, k, f) /\ e \in El /\ IsListed(Base, e)
  <2>1. \A i \in 1..k : Registered(tags[i])
    BY <1>1 DEF LinkNoMemory
  <2>2. Registered(e) /\ e \in El
    BY <1>1, ChainsAre DEF LinkNoMemory
  <2>3. IsListed(Base, e)
    BY <2>2, BaseIs, RegisteredIs DEF Registered
  <2> QED
    BY <1>1, <2>1, <2>2, <2>3, LinkIsLinkable, BaseItself
<1> DEFINE q == Half(f)
<1>4. Linking(BaseStale, Base, q, tags, k, f)
  BY <1>3, BaseIs, LinkLoopLinks
<1> HIDE DEF q, e
<1>5. /\ Sound(stale', q) /\ Buffers(q.rb_list) = Buffers(Base.rb_list) \cup {f[j] : j \in (1..k) \ {n}}
      /\ IsListed(q, e) /\ (k > 0 => q.rb = f[k])
  BY <1>1, <1>3, <1>4 DEF Linking, LinkNoMemory
<1>6. {f[j] : j \in (1..k) \ {n}} = Range(f) /\ (k > 0 => f[k] \in Range(f))
  <2>1. (1..k) \ {n} = 1..k /\ (k > 0 => k \in 1..k)
    BY <1>1
  <2>2. Range(f) = {f[i] : i \in 1..k}
    BY <1>1, FreshAre
  <2> QED
    BY <2>1, <2>2
<1> DEFINE s == SetItem(q, e, TRUE, FALSE)
<1>7. Remarked(q, s, e, TRUE, FALSE) /\ ElementsDiffer(s)
      /\ (\A x \in El : IsListed(s, x) <=> IsListed(q, x))
      /\ (\A x \in El : IsLinked(s, x) <=> x = e \/ IsLinked(q, x))
  <2>1. PICK yes \in BOOLEAN, no \in BOOLEAN : yes = TRUE /\ no = FALSE
    OBVIOUS
  <2>2. s = SetItem(q, e, yes, no)
    BY <2>1
  <2> HIDE DEF s
  <2>3. q \in Pipelines /\ ElementsDiffer(q)
    BY <1>5 DEF Sound
  <2>4. Remarked(q, s, e, yes, no)
    BY <1>3, <2>2, <2>3, SetItemIs
  <2>5. /\ ElementsDiffer(s)
        /\ \A x \in El : IsListed(s, x) <=> IsListed(q, x)
        /\ \A x \in El : x # e => (IsLinked(s, x) <=> IsLinked(q, x))
        /\ IsLinked(s, e) <=> yes /\ IsListed(q, e)
    BY <1>3, <2>2, <2>3, SetItemMarks
  <2> QED
    BY <1>5, <2>1, <2>4, <2>5
<1>8. /\ p' \in Pipelines /\ p'.el_list = s.el_list /\ p'.rb_list = q.rb_list
      /\ p'.output_rb = q.output_rb
      /\ \A x \in El : p'.input_rb[x] = IF k > 0 /\ x = e THEN q.rb ELSE q.input_rb[x]
  <2> HIDE DEF s
  <2>1. /\ s \in Pipelines /\ s.rb_list = q.rb_list /\ s.rb = q.rb
        /\ s.input_rb = q.input_rb /\ s.output_rb = q.output_rb
    BY <1>7 DEF Remarked
  <2>2. CASE k = 0
    <3>1. p' = s
      BY <1>2, <2>2 DEF q, s
    <3> QED
      BY <2>1, <2>2, <3>1
  <2>3. CASE k # 0
    <3> DEFINE ins == [s.input_rb EXCEPT ![e] = s.rb]
    <3>1. p' = [[s EXCEPT !.input_rb = ins] EXCEPT !.rb = Null]
      BY <1>2, <2>1, <2>3 DEF q, s, Pipelines
    <3>2. ins \in [El -> Rb \cup {Null}] /\ \A x \in El : ins[x] = IF x = e THEN s.rb ELSE s.input_rb[x]
      BY <1>3, <2>1, PipelineFields
    <3> HIDE DEF ins
    <3>3. /\ p' \in Pipelines /\ p'.el_list = s.el_list /\ p'.rb_list = s.rb_list
          /\ p'.output_rb = s.output_rb /\ p'.input_rb = ins
      <4> DEFINE R == Rb \cup {Null}
      <4>1. Null \in R /\ ins \in [El -> R] /\ s \in Pipelines /\ Pipelines
            = [el_list : Seq(ElItem), rb_list : Seq(RbItem), linked : BOOLEAN,
               input_rb : [El -> R], output_rb : [El -> R], rb : R]
        BY <2>1, <3>2 DEF Pipelines
      <4> HIDE DEF R
      <4> QED
        BY <3>1, <4>1
    <3> QED
      BY <1>1, <2>1, <2>3, <3>2, <3>3
  <2> QED
    BY <2>2, <2>3
<1> HIDE DEF s
<1>9. ElementsDiffer(p')
      /\ (\A x \in El : IsListed(p', x) <=> IsListed(q, x))
      /\ (\A x \in El : IsLinked(p', x) <=> x = e \/ IsLinked(q, x))
  BY <1>7, <1>8 DEF ElementsDiffer, IsListed, IsLinked
<1>10. Inputs(stale', p')
  BY <1>5, <1>6, <1>8, <1>9 DEF Inputs, Sound
<1>11. Outputs(p')
  <2>1. \A b, x : x \in El /\ Owned(q, b, x) => Owned(p', b, x)
    BY <1>9 DEF Owned
  <2> QED
    BY <1>5, <1>8, <1>9, <2>1 DEF Outputs, Sound
<1>12. Sound(stale', p')
  BY <1>5, <1>8, <1>9, <1>10, <1>11 DEF Sound, BuffersDiffer
<1>13. chain' = <<>>
  BY DEF LinkNoMemory
<1> QED
  BY <1>2, <1>5, <1>6, <1>8, <1>12, <1>13, BaseIs, NoChain DEF IInv


-----------------------------------------------------------------------------
(* The actions: the list of elements. *)

\* Every element of a chain is connected.
LEMMA ChainIsWired ==
  ASSUME NEW old, NEW q, NEW c, Chained(old, q, c), NEW i \in DOMAIN c
  PROVE  c[i] \in El /\ (q.input_rb[c[i]] # Null \/ q.output_rb[c[i]] # Null)
<1>1. c \in Seq(El) /\ Len(c) # 1 /\ Len(c) \in Nat /\ i \in 1..Len(c) /\ c[i] \in El
  BY DEF Chained
<1>2. CASE i # Len(c)
  <2>1. i \in 1..(Len(c) - 1)
    BY <1>1, <1>2
  <2> QED
    BY <1>1, <2>1 DEF Chained, Feeds
<1>3. CASE i = Len(c)
  <2>1. i - 1 \in 1..(Len(c) - 1) /\ (i - 1) + 1 = i
    BY <1>1, <1>3
  <2>2. Feeds(old, q, c, i - 1)
    BY <2>1 DEF Chained
  <2> QED
    BY <1>1, <2>1, <2>2 DEF Feeds
<1> QED
  BY <1>2, <1>3

\* r is q with another list of elements, in which only e, which is not
\* connected, has changed.
ListChanged(q, r, e) ==
  /\ r \in Pipelines /\ ElementsDiffer(r)
  /\ r.rb_list = q.rb_list /\ r.input_rb = q.input_rb /\ r.output_rb = q.output_rb
  /\ \A x \in El : x # e => (IsListed(r, x) <=> IsListed(q, x))
  /\ \A x \in El : x # e => (IsLinked(r, x) <=> IsLinked(q, x))

\* An element that is not connected enters or leaves the list.
LEMMA ListChangeKeeps ==
  ASSUME NEW old, NEW q, Sound(old, q), NEW e, q.input_rb[e] = Null, q.output_rb[e] = Null, NEW r,
         ListChanged(q, r, e), NEW c, Chained(old, q, c)
  PROVE  Sound(old, r) /\ Chained(old, r, c)
<1>1. \A x \in El : q.input_rb[x] # Null \/ q.output_rb[x] # Null => x # e
  OBVIOUS
<1>2. Inputs(old, r)
  BY <1>1 DEF ListChanged, Sound, Inputs
<1>3. Outputs(r)
  <2>1. \A b, x : x \in El /\ x # e /\ Owned(q, b, x) => Owned(r, b, x)
    BY DEF ListChanged, Owned
  <2> QED
    BY <1>1, <2>1 DEF ListChanged, Sound, Outputs
<1>4. Sound(old, r)
  BY <1>2, <1>3 DEF ListChanged, Sound, BuffersDiffer
<1>5. \A i \in DOMAIN c : IsLinked(r, c[i])
  <2> TAKE i \in DOMAIN c
  <2>1. c[i] \in El /\ c[i] # e
    BY <1>1, ChainIsWired
  <2> QED
    BY <2>1 DEF ListChanged, Chained
<1>6. Chained(old, r, c)
  BY <1>5 DEF ListChanged, Chained, Feeds
<1> QED
  BY <1>4, <1>6

\* STAILQ_REMOVE of the item of an element.
LEMMA RemovedItem ==
  ASSUME NEW q \in Pipelines, ElementsDiffer(q), NEW e \in El, NEW r,
         r = [q EXCEPT !.el_list = Without(q, e)]
  PROVE  ListChanged(q, r, e) /\ ~IsListed(r, e)
<1> DEFINE l == q.el_list
           n == Len(q.el_list)
<1>1. l \in Seq(ElItem) /\ n \in Nat /\ DOMAIN l = 1..n
  BY PipelineFields
<1>2. CASE Items(q, e) = {}
  <2>1. r = q
    BY <1>2 DEF Without, Pipelines
  <2> QED
    BY <1>2, <2>1 DEF ListChanged, Items, IsListed
<1>3. CASE Items(q, e) # {}
  <2> DEFINE i == IndexOf(q, e)
             es == RemoveAt(l, i)
  <2>1. i \in 1..n /\ l[i].el = e
    <3>1. i \in Items(q, e)
      BY <1>3 DEF IndexOf
    <3> QED
      BY <1>1, <3>1 DEF Items
  <2>2. es = SubSeq(l, 1, i - 1) \o SubSeq(l, i + 1, n)
    BY DEF RemoveAt
  <2>3. r = [q EXCEPT !.el_list = es]
    BY <1>3 DEF Without
  <2> HIDE DEF i, es
  <2> DEFINE a == SubSeq(l, 1, i - 1)
             b == SubSeq(l, i + 1, n)
  <2>4. /\ a \in Seq(ElItem) /\ Len(a) = i - 1 /\ \A j \in 1..(i - 1) : a[j] = l[j]
        /\ b \in Seq(ElItem) /\ Len(b) = n - i /\ \A j \in 1..(n - i) : b[j] = l[i + j]
    <3> HIDE DEF l, n
    <3>0. n = Len(l)
      BY DEF n, l
    <3>1. /\ a \in Seq(ElItem) /\ Len(a) = i - 1 /\ \A j \in 1..(i - 1) : a[j] = l[j]
      BY <1>1, <2>1, <3>0, SubSeqProperties
    <3>2. /\ b \in Seq(ElItem) /\ Len(b) = n - i /\ \A j \in 1..(n - i) : b[j] = l[i + j]
      BY <1>1, <2>1, <3>0, SubSeqProperties
    <3> QED
      BY <3>1, <3>2
  <2> HIDE DEF a, b
  <2>5. es \in Seq(ElItem) /\ Len(es) = n - 1
        /\ (\A j \in 1..(i - 1) : es[j] = l[j]) /\ (\A j \in i..(n - 1) : es[j] = l[j + 1])
    <3>1. es = a \o b
      BY <2>2 DEF a, b
    <3>2. es \in Seq(ElItem) /\ Len(es) = Len(a) + Len(b)
          /\ \A j \in 1..(Len(a) + Len(b)) : es[j] = IF j <= Len(a) THEN a[j] ELSE b[j - Len(a)]
      BY <2>4, <3>1, ConcatProperties
    <3>3. \A j \in 1..(i - 1) : es[j] = l[j]
      <4>1. ASSUME NEW j \in 1..(i - 1)
            PROVE  es[j] = l[j]
        <5>1. n \in Nat /\ i \in 1..n /\ Len(a) = i - 1 /\ Len(b) = n - i
          BY <1>1, <2>1, <2>4
        <5>2. j \in 1..(Len(a) + Len(b)) /\ j <= Len(a)
          BY <5>1
        <5>3. es[j] = a[j]
          BY <3>2, <5>2
        <5> QED
          BY <2>4, <5>3
      <4> QED
        BY <4>1
    <3>4. ASSUME NEW j \in i..(n - 1)
          PROVE  es[j] = l[j + 1]
      <4> HIDE DEF n
      <4>1. j \in Nat /\ i \in Nat /\ n \in Nat /\ i <= j /\ j <= n - 1
        BY <1>1, <2>1
      <4>2. j - (i - 1) \in 1..(n - i) /\ ~(j <= i - 1) /\ i + (j - (i - 1)) = j + 1
            /\ j \in 1..((i - 1) + (n - i))
        BY <1>1, <2>1, <4>1
      <4> QED
        BY <2>4, <3>2, <4>2
    <3> QED
      BY <1>1, <2>1, <2>4, <3>2, <3>3, <3>4
  <2>6. /\ r \in Pipelines /\ r.el_list = es
        /\ r.rb_list = q.rb_list /\ r.input_rb = q.input_rb /\ r.output_rb = q.output_rb
    BY <2>3, <2>5 DEF Pipelines
  <2> HIDE DEF l, n
  <2>7. DOMAIN es = 1..(n - 1)
    BY <2>5
  <2> DEFINE Old(j) == IF j < i THEN j ELSE j + 1
  <2>8. \A j \in 1..(n - 1) : Old(j) \in 1..n /\ Old(j) # i /\ es[j] = l[Old(j)]
    BY <1>1, <2>1, <2>5
  <2>9. \A j, m \in 1..(n - 1) : Old(j) = Old(m) => j = m
    BY <1>1, <2>1
  <2>10. \A m \in 1..n : m # i => \E j \in 1..(n - 1) : Old(j) = m
    <3> SUFFICES ASSUME NEW m \in 1..n, m # i
                 PROVE  \E j \in 1..(n - 1) : Old(j) = m
      OBVIOUS
    <3>1. CASE m < i
      <4>1. m \in 1..(n - 1) /\ Old(m) = m
        BY <1>1, <2>1, <3>1
      <4> QED
        BY <4>1
    <3>2. CASE ~(m < i)
      <4>1. m - 1 \in 1..(n - 1) /\ Old(m - 1) = m
        BY <1>1, <2>1, <3>2
      <4> QED
        BY <4>1
    <3> QED
      BY <3>1, <3>2
  <2>11. \A j, m \in 1..n : l[j].el = l[m].el => j = m
    BY <1>1 DEF ElementsDiffer, l
  <2> HIDE DEF Old
  <2>12. ElementsDiffer(r)
    BY <2>6, <2>7, <2>8, <2>9, <2>11 DEF ElementsDiffer
  <2>13. \A m \in 1..n : l[m].el # e => \E j \in 1..(n - 1) : es[j] = l[m]
    BY <2>1, <2>8, <2>10
  <2>14. \A j \in 1..(n - 1) : es[j].el # e /\ \E m \in 1..n : es[j] = l[m]
    BY <2>1, <2>8, <2>11
  <2>15. ~IsListed(r, e)
    BY <2>6, <2>7, <2>14 DEF IsListed
  <2>16. \A x \in El : x # e => (IsListed(r, x) <=> IsListed(q, x)) /\ (IsLinked(r, x) <=> IsLinked(q, x))
    <3> SUFFICES ASSUME NEW x \in El, x # e
                 PROVE  (IsListed(r, x) <=> IsListed(q, x)) /\ (IsLinked(r, x) <=> IsLinked(q, x))
      OBVIOUS
    <3>1. (IsListed(r, x) <=> \E j \in 1..(n - 1) : es[j].el = x)
          /\ (IsLinked(r, x) <=> \E j \in 1..(n - 1) : es[j].el = x /\ es[j].linked)
      BY <2>6, <2>7 DEF IsListed, IsLinked
    <3>2. (IsListed(q, x) <=> \E m \in 1..n : l[m].el = x)
          /\ (IsLinked(q, x) <=> \E m \in 1..n : l[m].el = x /\ l[m].linked)
      BY <1>1 DEF IsListed, IsLinked, l
    <3> QED
      BY <2>13, <2>14, <3>1, <3>2
  <2> QED
    BY <2>6, <2>12, <2>15, <2>16 DEF ListChanged
<1> QED
  BY <1>2, <1>3

\* STAILQ_INSERT_TAIL of a new item.
LEMMA AppendedItem ==
  ASSUME NEW q \in Pipelines, ElementsDiffer(q), NEW e \in El, ~IsListed(q, e), NEW it \in ElItem,
         it.el = e, NEW r, r = [q EXCEPT !.el_list = Append(q.el_list, it)]
  PROVE  ListChanged(q, r, e) /\ IsListed(r, e) /\ (IsLinked(r, e) <=> it.linked)
<1> DEFINE n == Len(q.el_list) + 1
           es == Append(q.el_list, it)
<1>1. /\ es \in Seq(ElItem) /\ DOMAIN es = DOMAIN q.el_list \cup {n} /\ n \notin DOMAIN q.el_list
      /\ es[n] = it /\ \A i \in DOMAIN q.el_list : es[i] = q.el_list[i]
  <2>1. q.el_list \in Seq(ElItem)
    BY PipelineFields
  <2> QED
    BY <2>1, AppendProperties
<1> HIDE DEF n, es
<1>2. /\ r \in Pipelines /\ r.el_list = es
      /\ r.rb_list = q.rb_list /\ r.input_rb = q.input_rb /\ r.output_rb = q.output_rb
  BY <1>1 DEF Pipelines, es
<1>3. \A i \in DOMAIN q.el_list : q.el_list[i].el # e
  BY DEF IsListed
<1>4. ElementsDiffer(r)
  BY <1>1, <1>2, <1>3 DEF ElementsDiffer
<1>5. \A x \in El : x # e => (IsListed(r, x) <=> IsListed(q, x)) /\ (IsLinked(r, x) <=> IsLinked(q, x))
  BY <1>1, <1>2 DEF IsListed, IsLinked
<1>6. IsListed(r, e) /\ (IsLinked(r, e) <=> it.linked)
  BY <1>1, <1>2, <1>3 DEF IsListed, IsLinked
<1> QED
  BY <1>2, <1>4, <1>5, <1>6 DEF ListChanged


\* Only such an element is registered or unregistered.
LEMMA UnconnectedIs ==
  ASSUME NEW e \in El, ~Connected(e)
  PROVE  p.input_rb[e] = Null /\ p.output_rb[e] = Null
BY DEF Connected

\* audio_pipeline_unregister, and _unregister_more.
LEMMA UnregisterKeepsIInv ==
  ASSUME IInv, NEW e \in El, Unregister(e) \/ UnregisterMore(e)
  PROVE  IInv'
<1>1. /\ p' = [p EXCEPT !.el_list = Without(p, e)]
      /\ live' = live /\ chain' = chain /\ stale' = stale
      /\ p.input_rb[e] = Null /\ p.output_rb[e] = Null
  BY UnconnectedIs DEF Unregister, UnregisterMore
<1>2. p \in Pipelines /\ ElementsDiffer(p) /\ Sound(stale, p) /\ Chained(stale, p, chain)
  BY DEF IInv, Sound
<1>3. ListChanged(p, p', e)
  BY <1>1, <1>2, RemovedItem
<1>4. Sound(stale', p') /\ Chained(stale', p', chain)
  BY <1>1, <1>2, <1>3, ListChangeKeeps
<1> QED
  BY <1>1, <1>3, <1>4 DEF IInv, ListChanged

\* audio_pipeline_register: the element moves to the end of the list.
LEMMA RegisterKeepsIInv ==
  ASSUME IInv, NEW e \in El, Register(e)
  PROVE  IInv'
<1> DEFINE it == [el |-> e, linked |-> FALSE, kept_ctx |-> FALSE]
           q == [p EXCEPT !.el_list = Without(p, e)]
<1>1. p \in Pipelines /\ ElementsDiffer(p) /\ Sound(stale, p) /\ Chained(stale, p, chain)
  BY DEF IInv, Sound
<1>2. /\ p' = [p EXCEPT !.el_list = Append(Without(p, e), it)]
      /\ live' = live /\ chain' = chain /\ stale' = stale
      /\ p.input_rb[e] = Null /\ p.output_rb[e] = Null
  BY UnconnectedIs DEF Register
<1>3. p' = [q EXCEPT !.el_list = Append(q.el_list, it)]
  BY <1>1, <1>2 DEF Pipelines
<1>4. q = [p EXCEPT !.el_list = Without(p, e)] /\ it \in ElItem /\ it.el = e
  BY DEF ElItem
<1> HIDE DEF q, it
<1>5. ListChanged(p, q, e) /\ ~IsListed(q, e)
  BY <1>1, <1>4, RemovedItem
<1>6. Sound(stale, q) /\ Chained(stale, q, chain) /\ q.input_rb[e] = Null /\ q.output_rb[e] = Null
  BY <1>1, <1>2, <1>5, ListChangeKeeps DEF ListChanged
<1>7. ListChanged(q, p', e)
  BY <1>3, <1>4, <1>5, <1>6, AppendedItem DEF Sound
<1>8. Sound(stale', p') /\ Chained(stale', p', chain)
  <2>1. Sound(stale, p') /\ Chained(stale, p', chain)
    BY <1>6, <1>7, ListChangeKeeps
  <2> QED
    BY <1>2, <2>1
<1>9. Buffers(p'.rb_list) = Buffers(p.rb_list)
  BY <1>5, <1>7 DEF ListChanged
<1> QED
  BY <1>2, <1>8, <1>9 DEF IInv

\* audio_pipeline_register_more.
LEMMA RegisterMoreKeepsIInv ==
  ASSUME IInv, NEW e \in El, RegisterMore(e)
  PROVE  IInv'
<1> DEFINE it == [el |-> e, linked |-> TRUE, kept_ctx |-> FALSE]
<1>1. p \in Pipelines /\ ElementsDiffer(p) /\ Sound(stale, p) /\ Chained(stale, p, chain)
  BY DEF IInv, Sound
<1>2. /\ p' = [p EXCEPT !.el_list = Append(p.el_list, it)]
      /\ live' = live /\ chain' = chain /\ stale' = stale
      /\ p.input_rb[e] = Null /\ p.output_rb[e] = Null
  BY UnconnectedIs DEF RegisterMore
<1>3. ~IsListed(p, e)
  BY RegisteredIs DEF RegisterMore, Registered
<1>4. it \in ElItem /\ it.el = e
  BY DEF ElItem
<1> HIDE DEF it
<1>5. ListChanged(p, p', e)
  BY <1>1, <1>2, <1>3, <1>4, AppendedItem
<1>6. Sound(stale', p') /\ Chained(stale', p', chain)
  BY <1>1, <1>2, <1>5, ListChangeKeeps
<1> QED
  BY <1>2, <1>5, <1>6 DEF IInv, ListChanged

\* audio_pipeline_unlink and _deinit, and a new pipeline.
LEMMA UnlinkKeepsIInv ==
  ASSUME IInv, Unlink
  PROVE  IInv'
<1>1. p' = Unlinked(p) /\ live' = live \ Buffers(p.rb_list) /\ chain' = <<>>
  BY DEF Unlink
<1>2. Cleared(stale', p, p')
  BY <1>1, UnlinkedIs DEF IInv
<1>3. Buffers(p'.rb_list) = {}
  <2>1. DOMAIN <<>> = {}
    BY EmptySeq
  <2> QED
    BY <1>2, <2>1 DEF Cleared, Buffers
<1> QED
  BY <1>1, <1>2, <1>3, NoChain DEF IInv, Cleared

\* A new pipeline is sound (audio_pipeline_init).
LEMMA NewPipelineIs ==
  ASSUME NEW old
  PROVE  Sound(old, NewPipeline) /\ Buffers(NewPipeline.rb_list) = {}
<1>1. <<>> \in Seq(ElItem) /\ <<>> \in Seq(RbItem) /\ DOMAIN <<>> = {}
  BY EmptySeq
<1>2. /\ NewPipeline \in Pipelines
      /\ NewPipeline.el_list = <<>> /\ NewPipeline.rb_list = <<>>
      /\ \A e \in El : NewPipeline.input_rb[e] = Null /\ NewPipeline.output_rb[e] = Null
  BY <1>1 DEF NewPipeline, Pipelines
<1> HIDE DEF NewPipeline
<1> QED
  BY <1>1, <1>2 DEF Sound, ElementsDiffer, BuffersDiffer, Inputs, Outputs, Buffers

\* The invariant holds initially.
LEMMA InitIInv == Init => IInv
BY NewPipelineIs, NoChain DEF Init, IInv

\* audio_pipeline_deinit.
LEMMA DeinitKeepsIInv ==
  ASSUME IInv, Deinit
  PROVE  IInv'
<1>1. p' = NewPipeline /\ chain' = <<>>
  BY DEF Deinit
<1>2. ~MayAbandon => live' = {}
  <2>1. Buffers(<<>>) = {}
    BY EmptySeq DEF Buffers
  <2> QED
    BY <2>1 DEF Deinit, IInv
<1> QED
  BY <1>1, <1>2, NewPipelineIs, NoChain DEF IInv


-----------------------------------------------------------------------------
(* Changes of one element and of the buffers that no other writes to. *)

\* audio_pipeline_get_el_item_by_handle finds the item.
LEMMA ItemOfIs ==
  ASSUME NEW q \in Pipelines, ElementsDiffer(q), NEW e, IsListed(q, e)
  PROVE  ItemOf(q, e) \in ElItem /\ (IsLinked(q, e) <=> ItemOf(q, e).linked)
<1> DEFINE i == IndexOf(q, e)
<1>1. i \in DOMAIN q.el_list /\ q.el_list[i].el = e
  <2>1. Items(q, e) # {}
    BY RegisteredIs
  <2>2. i \in Items(q, e)
    BY <2>1 DEF IndexOf
  <2> QED
    BY <2>2 DEF Items
<1>2. ItemOf(q, e) = q.el_list[i]
  BY DEF ItemOf
<1> HIDE DEF i
<1>3. q.el_list[i] \in ElItem
  BY <1>1, PipelineFields
<1> QED
  BY <1>1, <1>2, <1>3 DEF ElementsDiffer, IsLinked

\* The items of the buffers, which stay in their places.
SameBuffers(q, r) ==
  /\ DOMAIN r.rb_list = DOMAIN q.rb_list
  /\ \A i \in DOMAIN q.rb_list : r.rb_list[i].rb = q.rb_list[i].rb

\* The set of buffers is then the same.
LEMMA SameBuffersAre ==
  ASSUME NEW q, NEW r, SameBuffers(q, r)
  PROVE  Buffers(r.rb_list) = Buffers(q.rb_list) /\ (BuffersDiffer(q) => BuffersDiffer(r))
BY DEF SameBuffers, Buffers, BuffersDiffer

\* A buffer has one writer.
LEMMA OneWriter ==
  ASSUME NEW old, NEW q, Sound(old, q), NEW x \in El, NEW y \in El, q.output_rb[x] # Null,
         q.output_rb[x] = q.output_rb[y]
  PROVE  x = y
BY DEF Sound, Outputs, Owned, BuffersDiffer

\* A list of buffers whose items are changed in place.
LEMMA ItemsChanged ==
  ASSUME NEW q \in Pipelines, NEW rs, DOMAIN rs = DOMAIN q.rb_list,
         \A i \in DOMAIN q.rb_list : rs[i] \in RbItem, rs = [i \in DOMAIN rs |-> rs[i]]
  PROVE  rs \in Seq(RbItem)
<1>1. q.rb_list \in Seq(RbItem)
  BY PipelineFields
<1>2. DOMAIN q.rb_list = 1..Len(q.rb_list) /\ Len(q.rb_list) \in Nat
  BY <1>1
<1>3. rs \in [1..Len(q.rb_list) -> RbItem]
  BY <1>2
<1> QED
  BY <1>2, <1>3, SeqDef

\* The buffer that an element writes to is marked as kept.
Kept(q, x) ==
  q.output_rb[x] # Null =>
    \E j \in DOMAIN q.rb_list : q.rb_list[j].rb = q.output_rb[x] /\ q.rb_list[j].kept_ctx

Changed(q, r, e) ==
  /\ r \in Pipelines /\ ElementsDiffer(r) /\ SameBuffers(q, r)
  /\ \A x \in El : IsListed(r, x) <=> IsListed(q, x)
  /\ \A x \in El : x # e =>
       /\ IsLinked(r, x) <=> IsLinked(q, x)
       /\ r.input_rb[x] = q.input_rb[x] /\ r.output_rb[x] = q.output_rb[x]
  /\ \A i \in DOMAIN q.rb_list :
       \/ r.rb_list[i] = q.rb_list[i]
       \/ \A x \in El : x # e => q.output_rb[x] # q.rb_list[i].rb

\* A change of one element, and of buffers that no other writes to.
LEMMA ChangeKeepsSound ==
  ASSUME NEW old, NEW q, Sound(old, q), NEW e \in El, NEW r, Changed(q, r, e),
         r.input_rb[e] # Null => IsLinked(r, e) /\ r.input_rb[e] \in Buffers(q.rb_list) \cup old,
         r.output_rb[e] # Null =>
           /\ IsListed(q, e)
           /\ \E j \in DOMAIN r.rb_list : r.rb_list[j].rb = r.output_rb[e] /\ Owned(r, r.rb_list[j], e)
  PROVE  /\ Sound(old, r) /\ Buffers(r.rb_list) = Buffers(q.rb_list)
         /\ \A x \in El : x # e /\ Kept(q, x) => Kept(r, x)
<1>1. Buffers(r.rb_list) = Buffers(q.rb_list) /\ BuffersDiffer(r)
  BY SameBuffersAre DEF Changed, Sound
<1>2. Inputs(old, r)
  <2> SUFFICES ASSUME NEW x \in El, r.input_rb[x] # Null
               PROVE  IsLinked(r, x) /\ r.input_rb[x] \in Buffers(r.rb_list) \cup old
    BY DEF Inputs
  <2>1. CASE x = e
    BY <1>1, <2>1
  <2>2. CASE x # e
    BY <1>1, <2>2 DEF Changed, Sound, Inputs
  <2> QED
    BY <2>1, <2>2
<1>3. ASSUME NEW x \in El, x # e, NEW j \in DOMAIN q.rb_list, q.rb_list[j].rb = q.output_rb[x]
      PROVE  /\ j \in DOMAIN r.rb_list /\ r.rb_list[j] = q.rb_list[j]
             /\ r.rb_list[j].rb = r.output_rb[x]
  BY <1>3 DEF Changed, SameBuffers
<1>4. Outputs(r)
  <2> SUFFICES ASSUME NEW x \in El, r.output_rb[x] # Null
               PROVE  /\ IsListed(r, x)
                      /\ \E j \in DOMAIN r.rb_list :
                           r.rb_list[j].rb = r.output_rb[x] /\ Owned(r, r.rb_list[j], x)
    BY DEF Outputs
  <2>1. CASE x = e
    BY <2>1 DEF Changed
  <2>2. CASE x # e
    <3>1. q.output_rb[x] # Null /\ IsListed(r, x)
      BY <2>2 DEF Changed, Sound, Outputs
    <3>2. PICK j \in DOMAIN q.rb_list :
            q.rb_list[j].rb = q.output_rb[x] /\ Owned(q, q.rb_list[j], x)
      BY <3>1 DEF Sound, Outputs
    <3>3. Owned(r, q.rb_list[j], x)
      BY <2>2, <3>2 DEF Owned, Changed
    <3> QED
      BY <1>3, <2>2, <3>1, <3>2, <3>3
  <2> QED
    BY <2>1, <2>2
<1>5. ASSUME NEW x \in El, x # e, Kept(q, x)
      PROVE  Kept(r, x)
  <2> SUFFICES ASSUME r.output_rb[x] # Null
               PROVE  \E j \in DOMAIN r.rb_list :
                        r.rb_list[j].rb = r.output_rb[x] /\ r.rb_list[j].kept_ctx
    BY DEF Kept
  <2>1. PICK j \in DOMAIN q.rb_list : q.rb_list[j].rb = q.output_rb[x] /\ q.rb_list[j].kept_ctx
    BY <1>5 DEF Kept, Changed
  <2> QED
    BY <1>3, <1>5, <2>1
<1>6. Sound(old, r)
  BY <1>1, <1>2, <1>4 DEF Sound, Changed
<1> QED
  BY <1>1, <1>5, <1>6

\* audio_pipeline_reset_kept_state.
LEMMA ResetKeptStateKeepsIInv ==
  ASSUME IInv, NEW e \in El, ResetKeptState(e)
  PROVE  IInv'
<1> DEFINE b == p.output_rb[e]
           none == [rb |-> b, host_el |-> Null, linked |-> FALSE, kept_ctx |-> FALSE]
           s == SetItem(p, e, FALSE, FALSE)
           rs == [i \in DOMAIN p.rb_list |-> IF p.rb_list[i].rb # b THEN p.rb_list[i] ELSE none]
           outs == [p.output_rb EXCEPT ![e] = Null]
<1>1. Sound(stale, p) /\ p \in Pipelines /\ ElementsDiffer(p) /\ IsListed(p, e) /\ ~IsLinked(p, e)
  <2>1. Sound(stale, p) /\ p \in Pipelines /\ ElementsDiffer(p) /\ IsListed(p, e)
    BY RegisteredIs DEF IInv, Sound, ResetKeptState, Registered
  <2> QED
    BY <2>1, ItemOfIs DEF ResetKeptState
<1>2. /\ Remarked(p, s, e, FALSE, FALSE) /\ ElementsDiffer(s)
      /\ \A x \in El : IsListed(s, x) <=> IsListed(p, x)
      /\ \A x \in El : IsLinked(s, x) <=> IsLinked(p, x)
  <2>1. PICK no \in BOOLEAN : no = FALSE
    OBVIOUS
  <2>2. s = SetItem(p, e, no, no)
    BY <2>1
  <2> HIDE DEF s
  <2>3. Remarked(p, s, e, no, no)
    BY <1>1, <2>2, SetItemIs
  <2>4. /\ ElementsDiffer(s)
        /\ \A x \in El : IsListed(s, x) <=> IsListed(p, x)
        /\ \A x \in El : x # e => (IsLinked(s, x) <=> IsLinked(p, x))
        /\ IsLinked(s, e) <=> no /\ IsListed(p, e)
    BY <1>1, <2>2, SetItemMarks
  <2> QED
    BY <1>1, <2>1, <2>3, <2>4
<1> HIDE DEF s
<1>3. /\ s \in Pipelines /\ s.rb_list = p.rb_list
      /\ s.input_rb = p.input_rb /\ s.output_rb = p.output_rb
  BY <1>2 DEF Remarked
<1>4. p' = [[[s EXCEPT !.output_rb = outs] EXCEPT !.rb_list = rs] EXCEPT !.linked = FALSE]
  BY <1>3 DEF ResetKeptState, Pipelines, s
<1>5. rs \in Seq(RbItem) /\ DOMAIN rs = DOMAIN p.rb_list
      /\ \A i \in DOMAIN p.rb_list :
           rs[i].rb = p.rb_list[i].rb /\ (p.rb_list[i].rb # b => rs[i] = p.rb_list[i])
  <2>1. \A i \in DOMAIN p.rb_list : p.rb_list[i] \in RbItem /\ p.rb_list[i].rb \in Rb
    BY <1>1, BufferItems
  <2>2. b \in Rb => none \in RbItem
    BY DEF RbItem
  <2>3. \A i \in DOMAIN p.rb_list : rs[i] \in RbItem
    BY <2>1, <2>2
  <2>4. DOMAIN rs = DOMAIN p.rb_list /\ rs = [i \in DOMAIN rs |-> rs[i]]
    OBVIOUS
  <2>5. \A i \in DOMAIN p.rb_list :
          rs[i].rb = p.rb_list[i].rb /\ (p.rb_list[i].rb # b => rs[i] = p.rb_list[i])
    OBVIOUS
  <2> HIDE DEF rs
  <2> QED
    BY <1>1, <2>3, <2>4, <2>5, ItemsChanged
<1>6. outs \in [El -> Rb \cup {Null}]
      /\ \A x \in El : outs[x] = IF x = e THEN Null ELSE p.output_rb[x]
  BY <1>1, PipelineFields
<1> HIDE DEF rs, outs
<1>7. /\ p' \in Pipelines /\ p'.el_list = s.el_list /\ p'.rb_list = rs
      /\ p'.input_rb = p.input_rb /\ p'.output_rb = outs
  BY <1>3, <1>4, <1>5, <1>6 DEF Pipelines
<1>8. Changed(p, p', e)
  <2>1. /\ ElementsDiffer(p')
        /\ \A x \in El : IsListed(p', x) <=> IsListed(p, x)
        /\ \A x \in El : IsLinked(p', x) <=> IsLinked(p, x)
    BY <1>2, <1>7 DEF ElementsDiffer, IsListed, IsLinked
  <2>2. SameBuffers(p, p')
    BY <1>5, <1>7 DEF SameBuffers
  <2>3. \A x \in El : x # e => p'.input_rb[x] = p.input_rb[x] /\ p'.output_rb[x] = p.output_rb[x]
    BY <1>6, <1>7
  <2>4. ASSUME NEW i \in DOMAIN p.rb_list, p'.rb_list[i] # p.rb_list[i], NEW x \in El, x # e
        PROVE  p.output_rb[x] # p.rb_list[i].rb
    <3>1. p.rb_list[i].rb = b /\ p.rb_list[i].rb \in Rb
      BY <1>1, <1>5, <1>7, <2>4, BufferItems
    <3>2. b # Null
      BY <3>1, NullAssumption
    <3> QED
      BY <1>1, <2>4, <3>1, <3>2, OneWriter
  <2> QED
    BY <1>7, <2>1, <2>2, <2>3, <2>4 DEF Changed
<1>9. Sound(stale', p') /\ Buffers(p'.rb_list) = Buffers(p.rb_list)
  <2>1. p'.input_rb[e] = Null
    BY <1>1, <1>7 DEF Sound, Inputs
  <2>2. p'.output_rb[e] = Null
    BY <1>6, <1>7
  <2> QED
    <3>1. Sound(stale, p') /\ Buffers(p'.rb_list) = Buffers(p.rb_list)
      BY <1>1, <1>8, <2>1, <2>2, ChangeKeepsSound
    <3>2. stale' = stale
      BY DEF ResetKeptState
    <3> QED
      BY <3>1, <3>2
<1>10. chain' = <<>> /\ live' = live /\ stale' = stale
  BY DEF ResetKeptState
<1> QED
  BY <1>9, <1>10, NoChain DEF IInv


-----------------------------------------------------------------------------
(* audio_pipeline_link_insert. *)

\* r is q with a new buffer between two of its elements.
Inserted(q, r, prev, next, b) ==
  /\ r \in Pipelines /\ r.el_list = q.el_list
  /\ r.rb_list = Append(q.rb_list, NewRbItem(b, prev))
  /\ \A x \in El : r.input_rb[x] = IF x = next THEN b ELSE q.input_rb[x]
  /\ \A x \in El : r.output_rb[x] = IF x = prev THEN b ELSE q.output_rb[x]

\* The new buffer has one writer and one reader, both linked.
LEMMA InsertKeepsSound ==
  ASSUME NEW old, NEW q, Sound(old, q), NEW prev \in El, NEW next \in El, IsLinked(q, prev), IsLinked(q, next),
         NEW b \in Rb \ Buffers(q.rb_list), NEW r, Inserted(q, r, prev, next, b)
  PROVE  Sound(old, r) /\ Buffers(r.rb_list) = Buffers(q.rb_list) \cup {b}
<1> DEFINE n == Len(q.rb_list) + 1
<1>1. /\ DOMAIN r.rb_list = DOMAIN q.rb_list \cup {n} /\ r.rb_list[n] = NewRbItem(b, prev)
      /\ \A i \in DOMAIN q.rb_list : r.rb_list[i] = q.rb_list[i]
      /\ Buffers(r.rb_list) = Buffers(q.rb_list) \cup {b}
  <2>1. Added(q, r.rb_list, b, prev)
    BY ListedBuffer DEF Inserted, Sound
  <2> QED
    BY <2>1 DEF Added
<1> HIDE DEF n
<1>2. BuffersDiffer(r)
  BY NewBufferDiffers DEF Inserted, Sound
<1>3. /\ ElementsDiffer(r)
      /\ \A x : (IsListed(r, x) <=> IsListed(q, x)) /\ (IsLinked(r, x) <=> IsLinked(q, x))
  BY DEF Inserted, Sound, ElementsDiffer, IsListed, IsLinked
<1>4. Inputs(old, r)
  BY <1>1, <1>3 DEF Inserted, Inputs, Sound
<1>5. Outputs(r)
  <2>1. NewRbItem(b, prev).rb = b /\ Owned(r, NewRbItem(b, prev), prev) /\ IsListed(r, prev)
    <3>1. IsListed(q, prev)
      BY DEF IsListed, IsLinked
    <3> QED
      BY <1>3, <3>1 DEF Owned, NewRbItem
  <2>2. \A i, x : Owned(q, i, x) => Owned(r, i, x)
    BY <1>3 DEF Owned
  <2> SUFFICES ASSUME NEW x \in El, r.output_rb[x] # Null
               PROVE  /\ IsListed(r, x)
                      /\ \E j \in DOMAIN r.rb_list :
                           r.rb_list[j].rb = r.output_rb[x] /\ Owned(r, r.rb_list[j], x)
    BY DEF Outputs
  <2>3. CASE x = prev
    BY <1>1, <2>1, <2>3 DEF Inserted
  <2>4. CASE x # prev
    <3>1. /\ q.output_rb[x] = r.output_rb[x] /\ IsListed(q, x)
          /\ \E j \in DOMAIN q.rb_list : q.rb_list[j].rb = q.output_rb[x] /\ Owned(q, q.rb_list[j], x)
      BY <2>4 DEF Inserted, Sound, Outputs
    <3> QED
      BY <1>1, <1>3, <2>2, <3>1
  <2> QED
    BY <2>3, <2>4
<1> QED
  BY <1>1, <1>2, <1>3, <1>4, <1>5 DEF Sound, Inserted

\* The new element becomes the last of the chain.
LEMMA InsertKeepsChain ==
  ASSUME NEW old, NEW q, Sound(old, q), NEW prev \in El, NEW next \in El, IsLinked(q, prev), IsLinked(q, next),
         q.input_rb[next] = Null, q.output_rb[next] = Null, prev # next,
         NEW b \in Rb \ Buffers(q.rb_list), NEW r, Inserted(q, r, prev, next, b), NEW c,
         c \in Seq(El), Len(c) > 0, c[Len(c)] = prev, Len(c) = 1 \/ Chained(old, q, c)
  PROVE  Chained(old, r, Append(c, next))
<1> DEFINE n == Len(c)
           d == Append(c, next)
<1>1. n \in Nat /\ DOMAIN c = 1..n /\ n \in 1..n
  OBVIOUS
<1>2. /\ d \in Seq(El) /\ Len(d) = n + 1 /\ DOMAIN d = 1..(n + 1)
      /\ d[n + 1] = next /\ \A i \in 1..n : d[i] = c[i]
  BY <1>1, AppendProperties
<1> HIDE DEF n, d
<1>3. c[n] = prev /\ \A i \in 1..n : c[i] \in El
  BY <1>1 DEF n
<1>4. \A x : IsLinked(r, x) <=> IsLinked(q, x)
  BY DEF Inserted, IsLinked
<1>5. CASE n = 1
  <2>1. Len(d) = 2 /\ DOMAIN d = {1, 2} /\ d[1] = prev /\ d[2] = next
    BY <1>2, <1>3, <1>5
  <2>2. Feeds(old, r, d, 1)
    <3>1. old = {} => \A x \in El : q.input_rb[x] # b
      BY NullAssumption DEF Sound, Inputs
    <3> QED
      BY <2>1, <3>1, NullAssumption DEF Feeds, Inserted
  <2>3. \A i \in 1..(Len(d) - 1) : i = 1
    BY <2>1
  <2>4. /\ Len(d) # 1 /\ \A i \in 1..(Len(d) - 1) : Feeds(old, r, d, i)
        /\ \A i, j \in DOMAIN d : d[i] = d[j] => i = j
        /\ \A i \in DOMAIN d : IsLinked(r, d[i])
    BY <1>4, <2>1, <2>2, <2>3
  <2>5. Chained(old, r, d)
    BY <1>2, <2>4 DEF Chained
  <2> QED
    BY <2>5 DEF d
<1>6. CASE n # 1
  <2>1. Chained(old, q, c) /\ Len(c) = n
    BY <1>6 DEF n
  <2>2. \A i \in 1..n : c[i] # next
    <3> SUFFICES ASSUME NEW i \in 1..n, c[i] = next
                 PROVE  FALSE
      OBVIOUS
    <3>1. q.input_rb[c[i]] # Null \/ q.output_rb[c[i]] # Null
      BY <1>1, <2>1, ChainIsWired
    <3> QED
      BY <3>1
  <2>3. \A i, j \in 1..n : c[i] = c[j] => i = j
    BY <1>1, <2>1 DEF Chained
  <2>4. \A i, j \in DOMAIN d : d[i] = d[j] => i = j
    BY <1>1, <1>2, <2>2, <2>3
  <2>5. \A i \in DOMAIN d : IsLinked(r, d[i])
    BY <1>1, <1>2, <1>4, <2>1 DEF Chained
  <2>6. ASSUME NEW i \in 1..n
        PROVE  Feeds(old, r, d, i)
    <3>1. old = {} => \A x \in El : q.input_rb[x] # b
      BY NullAssumption DEF Sound, Inputs
    <3>2. d[i] = c[i] /\ d[i + 1] = IF i = n THEN next ELSE c[i + 1]
      BY <1>1, <1>2
    <3>3. CASE i = n
      BY <1>3, <3>1, <3>2, <3>3, NullAssumption DEF Feeds, Inserted
    <3>4. CASE i # n
      <4>1. i \in 1..(n - 1) /\ i + 1 \in 1..n
        BY <1>1, <3>4
      <4>2. Feeds(old, q, c, i)
        BY <2>1, <4>1 DEF Chained
      <4>3. c[i] # prev /\ c[i] \in El /\ c[i + 1] # next /\ c[i + 1] \in El
        BY <1>1, <1>3, <2>2, <2>3, <3>4, <4>1
      <4>4. r.output_rb[c[i]] = q.output_rb[c[i]] /\ r.input_rb[c[i + 1]] = q.input_rb[c[i + 1]]
        BY <4>3 DEF Inserted
      <4>5. old = {} => q.output_rb[c[i]] # b
        BY <3>1, <4>2, <4>3 DEF Feeds
      <4>6. old = {} => \A x \in El : r.input_rb[x] = q.output_rb[c[i]] => x = c[i + 1]
        BY <4>2, <4>5 DEF Feeds, Inserted
      <4> QED
        BY <3>2, <3>4, <4>2, <4>4, <4>6 DEF Feeds
    <3> QED
      BY <3>3, <3>4
  <2>7. Len(d) # 1 /\ 1..(Len(d) - 1) = 1..n
    BY <1>1, <1>2
  <2>8. \A i \in 1..(Len(d) - 1) : Feeds(old, r, d, i)
    BY <2>6, <2>7
  <2>9. Chained(old, r, d)
    BY <1>2, <2>4, <2>5, <2>7, <2>8 DEF Chained
  <2> QED
    BY <2>9 DEF d
<1> QED
  BY <1>5, <1>6 DEF d


\* audio_pipeline_link_insert.
LEMMA LinkInsertKeepsIInv ==
  ASSUME IInv, NEW prev \in El, NEW next \in El, LinkInsert(prev, next)
  PROVE  IInv'
<1> DEFINE It(e) == [el |-> e, linked |-> TRUE, kept_ctx |-> FALSE]
           a == IF chain = <<>> THEN [p EXCEPT !.el_list = Append(p.el_list, It(prev))] ELSE p
           q == [a EXCEPT !.el_list = Append(a.el_list, It(next))]
           c == IF chain = <<>> THEN <<prev>> ELSE chain
<1>1. Sound(stale, p) /\ p \in Pipelines /\ ElementsDiffer(p) /\ Chained(stale, p, chain) /\ chain \in Seq(El)
  BY DEF IInv, Sound, Chained
<1>2. /\ prev # next /\ ~IsListed(p, next)
      /\ p.input_rb[next] = Null /\ p.output_rb[next] = Null
  BY UnconnectedIs, RegisteredIs DEF LinkInsert, Registered
<1>3. It(prev) \in ElItem /\ It(next) \in ElItem /\ It(prev).el = prev /\ It(next).el = next
      /\ It(prev).linked /\ It(next).linked
  BY DEF ElItem
<1>4. /\ Sound(stale, a) /\ Buffers(a.rb_list) = Buffers(p.rb_list) /\ IsLinked(a, prev)
      /\ a.rb_list = p.rb_list /\ a.input_rb = p.input_rb /\ a.output_rb = p.output_rb
      /\ (chain # <<>> => Chained(stale, a, chain)) /\ ~IsListed(a, next)
  <2>1. CASE chain = <<>>
    <3>1. ~IsListed(p, prev) /\ p.input_rb[prev] = Null /\ p.output_rb[prev] = Null
      BY <2>1, UnconnectedIs, RegisteredIs DEF LinkInsert, Registered
    <3>2. a = [p EXCEPT !.el_list = Append(p.el_list, It(prev))]
      BY <2>1
    <3> HIDE DEF a, It
    <3>3. ListChanged(p, a, prev) /\ (IsLinked(a, prev) <=> It(prev).linked)
      BY <1>1, <1>3, <3>1, <3>2, AppendedItem
    <3>4. Sound(stale, a)
      BY <1>1, <3>1, <3>3, ListChangeKeeps
    <3> QED
      BY <1>2, <1>3, <2>1, <3>3, <3>4 DEF ListChanged
  <2>2. CASE chain # <<>>
    <3>1. prev = Last(chain)
      BY <2>2 DEF LinkInsert
    <3>2. prev = chain[Len(chain)] /\ Len(chain) \in DOMAIN chain
      BY <1>1, <2>2, <3>1 DEF Last
    <3>3. IsLinked(p, prev)
      BY <1>1, <3>2 DEF Chained
    <3> QED
      BY <1>1, <1>2, <2>2, <3>3
  <2> QED
    BY <2>1, <2>2
<1> HIDE DEF a
<1>5. /\ Sound(stale, q) /\ q \in Pipelines /\ IsLinked(q, prev) /\ IsLinked(q, next)
      /\ q.rb_list = p.rb_list /\ q.input_rb = p.input_rb /\ q.output_rb = p.output_rb
      /\ (chain # <<>> => Chained(stale, q, chain))
  <2>1. q = [a EXCEPT !.el_list = Append(a.el_list, It(next))] /\ a \in Pipelines
        /\ ElementsDiffer(a) /\ a.input_rb[next] = Null /\ a.output_rb[next] = Null
    BY <1>2, <1>4 DEF Sound
  <2> HIDE DEF q, It
  <2>2. ListChanged(a, q, next) /\ (IsLinked(q, next) <=> It(next).linked)
    BY <1>3, <1>4, <2>1, AppendedItem
  <2>3. Chained(stale, a, <<>>)
    BY NoChain
  <2>4. Sound(stale, q) /\ (chain # <<>> => Chained(stale, q, chain))
    BY <1>4, <2>1, <2>2, <2>3, ListChangeKeeps
  <2> QED
    BY <1>2, <1>3, <1>4, <2>2, <2>4 DEF ListChanged, Sound
<1>6. PICK b \in Rb \ live :
        /\ p' = [p EXCEPT
             !.el_list = @ \o (IF chain = <<>> THEN <<It(prev)>> ELSE <<>>) \o <<It(next)>>,
             !.output_rb[prev] = b, !.input_rb[next] = b,
             !.rb_list = Append(@, NewRbItem(b, prev)), !.linked = TRUE]
        /\ live' = live \cup {b} /\ stale' = stale
  BY DEF LinkInsert
<1>7. q.el_list = p.el_list \o (IF chain = <<>> THEN <<It(prev)>> ELSE <<>>) \o <<It(next)>>
  <2>1. q.el_list = Append(a.el_list, It(next)) /\ a.el_list \in Seq(ElItem)
    BY <1>4, PipelineFields DEF Sound, Pipelines
  <2>2. p.el_list \in Seq(ElItem)
    BY <1>1, PipelineFields
  <2> HIDE DEF q, It
  <2>3. q.el_list = a.el_list \o <<It(next)>>
    BY <1>3, <2>1, AppendIsConcat
  <2>4. a.el_list = p.el_list \o (IF chain = <<>> THEN <<It(prev)>> ELSE <<>>)
    <3>1. CASE chain = <<>>
      <4>1. a.el_list = Append(p.el_list, It(prev))
        BY <1>1, <3>1 DEF a, Pipelines
      <4>2. Append(p.el_list, It(prev)) = p.el_list \o <<It(prev)>>
        BY <1>3, <2>2, AppendIsConcat
      <4> QED
        BY <3>1, <4>1, <4>2
    <3>2. CASE chain # <<>>
      <4>1. a.el_list = p.el_list
        BY <3>2 DEF a
      <4>2. p.el_list \o <<>> = p.el_list
        BY <2>2, ConcatEmptySeq
      <4> QED
        BY <3>2, <4>1, <4>2
    <3> QED
      BY <3>1, <3>2
  <2> QED
    BY <2>3, <2>4
<1>8. Inserted(q, p', prev, next, b)
  <2> DEFINE ins == [p.input_rb EXCEPT ![next] = b]
             outs == [p.output_rb EXCEPT ![prev] = b]
             rs == Append(p.rb_list, NewRbItem(b, prev))
             es == q.el_list
  <2>1. p' = [[[[[p EXCEPT !.el_list = es] EXCEPT !.output_rb = outs] EXCEPT !.input_rb = ins]
               EXCEPT !.rb_list = rs] EXCEPT !.linked = TRUE]
    BY <1>1, <1>6, <1>7 DEF Pipelines
  <2>2. /\ ins \in [El -> Rb \cup {Null}] /\ outs \in [El -> Rb \cup {Null}]
        /\ \A x \in El : ins[x] = IF x = next THEN b ELSE p.input_rb[x]
        /\ \A x \in El : outs[x] = IF x = prev THEN b ELSE p.output_rb[x]
    BY <1>1, PipelineFields
  <2>3. rs \in Seq(RbItem)
    <3>1. Added(p, rs, b, prev)
      BY <1>1, ListedBuffer
    <3> QED
      BY <3>1 DEF Added
  <2>4. es \in Seq(ElItem)
    BY <1>5, PipelineFields
  <2> HIDE DEF ins, outs, rs, es
  <2>5. /\ p' \in Pipelines /\ p'.el_list = es /\ p'.rb_list = rs
        /\ p'.input_rb = ins /\ p'.output_rb = outs
    BY <1>1, <2>1, <2>2, <2>3, <2>4 DEF Pipelines
  <2> HIDE DEF q
  <2> QED
    BY <1>5, <2>2, <2>5 DEF Inserted, es, rs
<1> HIDE DEF q
<1>9. b \in Rb \ Buffers(q.rb_list)
  BY <1>5 DEF IInv
<1>10. Sound(stale', p') /\ Buffers(p'.rb_list) = Buffers(p.rb_list) \cup {b}
  <2>1. Sound(stale, p') /\ Buffers(p'.rb_list) = Buffers(q.rb_list) \cup {b}
    BY <1>5, <1>8, <1>9, InsertKeepsSound
  <2> QED
    BY <1>5, <1>6, <2>1
<1>11. c \in Seq(El) /\ Len(c) > 0 /\ c[Len(c)] = prev /\ (Len(c) = 1 \/ Chained(stale, q, c))
  <2>1. CASE chain = <<>>
    <3>1. c = <<prev>>
      BY <2>1
    <3>2. <<prev>> \in Seq(El) /\ Len(<<prev>>) = 1 /\ <<prev>>[1] = prev
      OBVIOUS
    <3> HIDE DEF c
    <3> QED
      BY <3>1, <3>2
  <2>2. CASE chain # <<>>
    <3>1. prev = Last(chain) /\ c = chain
      BY <2>2 DEF LinkInsert
    <3>2. Len(chain) > 0 /\ prev = chain[Len(chain)]
      BY <1>1, <2>2, <3>1 DEF Last
    <3> QED
      BY <1>1, <1>5, <2>2, <3>1, <3>2
  <2> QED
    BY <2>1, <2>2
<1>12. chain' = Append(c, next)
  <2>1. chain' = c \o <<next>>
    BY DEF LinkInsert
  <2> HIDE DEF c
  <2> QED
    BY <1>11, <2>1, AppendIsConcat
<1> HIDE DEF c
<1>13. Chained(stale', p', Append(c, next))
  BY <1>2, <1>5, <1>6, <1>8, <1>9, <1>11, InsertKeepsChain
<1> QED
  BY <1>6, <1>10, <1>12, <1>13 DEF IInv


-----------------------------------------------------------------------------
(* audio_pipeline_breakup_elements. *)

\* r is q after the turn of e: e writes to no buffer, or to one that is kept.
Turned(old, q, r, e) ==
  /\ Sound(old, r) /\ Buffers(r.rb_list) = Buffers(q.rb_list)
  /\ \A x \in El : IsListed(r, x) <=> IsListed(q, x)
  /\ Kept(r, e)
  /\ \A x \in El : x # e /\ Kept(q, x) => Kept(r, x)

\* What SetItem and Wire together do to an element.
Marked(q, r, e, in, out) ==
  /\ r \in Pipelines /\ ElementsDiffer(r) /\ r.rb_list = q.rb_list
  /\ \A x \in El : IsListed(r, x) <=> IsListed(q, x)
  /\ \A x \in El : x # e => (IsLinked(r, x) <=> IsLinked(q, x))
  /\ \A x \in El : r.input_rb[x] = IF x = e THEN in ELSE q.input_rb[x]
  /\ \A x \in El : r.output_rb[x] = IF x = e THEN out ELSE q.output_rb[x]

\* An element that is thrown away loses its connections, and its mark with them
\* or not at all (lines 805 to 828).
LEMMA CutIs ==
  ASSUME NEW old, NEW q, Sound(old, q), NEW e \in El, NEW r,
         r = Wire(q, e, Null, Null) \/ r = SetItem(Wire(q, e, Null, Null), e, FALSE, FALSE)
  PROVE  Marked(q, r, e, Null, Null)
<1> DEFINE cut == Wire(q, e, Null, Null)
<1>1. q \in Pipelines /\ ElementsDiffer(q)
  BY DEF Sound
<1>2. Rewired(q, cut, e, Null, Null)
  <2>1. PICK nothing \in Rb \cup {Null} : nothing = Null
    OBVIOUS
  <2>2. cut = Wire(q, e, nothing, nothing)
    BY <2>1
  <2> HIDE DEF cut
  <2>3. Rewired(q, cut, e, nothing, nothing)
    BY <1>1, <2>2, WireIs
  <2> QED
    BY <2>1, <2>3
<1> HIDE DEF cut
<1>3. /\ cut \in Pipelines /\ ElementsDiffer(cut)
      /\ \A x : (IsListed(cut, x) <=> IsListed(q, x)) /\ (IsLinked(cut, x) <=> IsLinked(q, x))
  BY <1>1, <1>2 DEF Rewired, ElementsDiffer, IsListed, IsLinked
<1>4. CASE r = cut
  BY <1>2, <1>3, <1>4 DEF Rewired, Marked
<1>5. CASE r = SetItem(cut, e, FALSE, FALSE)
  <2>1. PICK no \in BOOLEAN : no = FALSE
    OBVIOUS
  <2>2. r = SetItem(cut, e, no, no)
    BY <1>5, <2>1
  <2>3. Remarked(cut, r, e, no, no)
    BY <1>3, <2>2, SetItemIs
  <2>4. /\ ElementsDiffer(r)
        /\ \A x \in El : IsListed(r, x) <=> IsListed(cut, x)
        /\ \A x \in El : x # e => (IsLinked(r, x) <=> IsLinked(cut, x))
    BY <1>3, <2>2, SetItemMarks
  <2> QED
    BY <1>2, <1>3, <2>3, <2>4 DEF Remarked, Rewired, Marked
<1> QED
  BY <1>4, <1>5 DEF cut

Altered(q, r, e, in, out, rs) ==
  Changed(q, r, e) /\ r.rb_list = rs /\ r.input_rb[e] = in /\ r.output_rb[e] = out

\* A marked element and buffers that only it writes to.
LEMMA MarkedIsChanged ==
  ASSUME NEW old, NEW q, Sound(old, q), NEW e \in El, NEW s, NEW in, NEW out, Marked(q, s, e, in, out), NEW r, NEW rs,
         r = [s EXCEPT !.rb_list = rs], DOMAIN rs = DOMAIN q.rb_list, rs = [i \in DOMAIN rs |-> rs[i]],
         \A i \in DOMAIN q.rb_list :
           /\ rs[i] \in RbItem /\ rs[i].rb = q.rb_list[i].rb
           /\ rs[i] = q.rb_list[i] \/ q.rb_list[i].rb = q.output_rb[e]
  PROVE  Altered(q, r, e, in, out, rs)
<1>1. q \in Pipelines /\ s \in Pipelines
  BY DEF Sound, Marked
<1>2. rs \in Seq(RbItem)
  BY <1>1, ItemsChanged
<1>3. /\ r \in Pipelines /\ r.rb_list = rs /\ r.el_list = s.el_list
      /\ r.input_rb = s.input_rb /\ r.output_rb = s.output_rb
  BY <1>1, <1>2 DEF Pipelines
<1>4. /\ ElementsDiffer(r)
      /\ \A x : (IsListed(r, x) <=> IsListed(s, x)) /\ (IsLinked(r, x) <=> IsLinked(s, x))
  BY <1>3 DEF Marked, ElementsDiffer, IsListed, IsLinked
<1>5. SameBuffers(q, r)
  BY <1>3 DEF SameBuffers
<1>6. ASSUME NEW i \in DOMAIN q.rb_list, r.rb_list[i] # q.rb_list[i], NEW x \in El, x # e
      PROVE  q.output_rb[x] # q.rb_list[i].rb
  <2>1. q.rb_list[i].rb = q.output_rb[e] /\ q.rb_list[i].rb \in Rb
    BY <1>1, <1>3, <1>6, BufferItems
  <2> QED
    BY <1>6, <2>1, OneWriter, NullAssumption
<1> QED
  BY <1>3, <1>4, <1>5, <1>6 DEF Marked, Changed, Altered


\* An element without connections is at the end of its turn.
LEMMA UnwiredIsTurned ==
  ASSUME NEW old, NEW q, Sound(old, q), NEW e \in El, NEW r, Changed(q, r, e), r.input_rb[e] = Null,
         r.output_rb[e] = Null
  PROVE  Turned(old, q, r, e)
<1>1. /\ Sound(old, r) /\ Buffers(r.rb_list) = Buffers(q.rb_list)
      /\ \A x \in El : x # e /\ Kept(q, x) => Kept(r, x)
  BY ChangeKeepsSound
<1> QED
  BY <1>1 DEF Kept, Changed, Turned

\* An element that is thrown away.
LEMMA DiscardTurns ==
  ASSUME NEW old, NEW q, Sound(old, q), NEW e \in El, NEW r, r = Discard(q, e)
  PROVE  Turned(old, q, r, e)
<1> DEFINE out == q.output_rb[e]
           cut == Wire(q, e, Null, Null)
           unmarked == SetItem(cut, e, FALSE, FALSE)
           none == [rb |-> out, host_el |-> Null, linked |-> FALSE, kept_ctx |-> FALSE]
<1>1. q \in Pipelines /\ q.rb_list \in Seq(RbItem) /\ DOMAIN q.rb_list = 1..Len(q.rb_list)
  BY PipelineFields DEF Sound
<1>2. Marked(q, cut, e, Null, Null) /\ Marked(q, unmarked, e, Null, Null)
  <2>1. cut = Wire(q, e, Null, Null) /\ unmarked = SetItem(Wire(q, e, Null, Null), e, FALSE, FALSE)
    OBVIOUS
  <2> HIDE DEF cut, unmarked
  <2> QED
    BY <2>1, CutIs
<1> HIDE DEF cut, unmarked
<1>3. CASE q.rb_list = <<>>
  <2>1. r = q
    BY <1>3 DEF Discard
  <2>2. \A x \in El : Kept(q, x)
    BY <1>3, EmptySeq DEF Sound, Outputs, Kept
  <2> QED
    BY <2>1, <2>2 DEF Turned
<1>4. CASE q.rb_list # <<>> /\ out = Head(q.rb_list).rb
  <2> DEFINE rs == [q.rb_list EXCEPT ![1] = none]
  <2>1. r = [unmarked EXCEPT !.rb_list[1] = none]
    BY <1>4 DEF Discard, cut, unmarked
  <2>2. unmarked \in Pipelines /\ unmarked.rb_list = q.rb_list
    BY <1>2 DEF Marked
  <2>3. r = [unmarked EXCEPT !.rb_list = rs]
    BY <2>1, <2>2 DEF Pipelines
  <2>4. 1 \in DOMAIN q.rb_list /\ q.rb_list[1].rb = out /\ out \in Rb
    <3>1. 1 \in DOMAIN q.rb_list /\ Head(q.rb_list) = q.rb_list[1]
      BY <1>1, <1>4
    <3> QED
      BY <1>1, <1>4, <3>1, BufferItems
  <2>5. none \in RbItem /\ none.rb = out
    BY <2>4 DEF RbItem
  <2> HIDE DEF none
  <2>6. \A i \in DOMAIN q.rb_list : rs[i] = IF i = 1 THEN none ELSE q.rb_list[i]
    BY <1>1
  <2>7. DOMAIN rs = DOMAIN q.rb_list /\ rs = [i \in DOMAIN rs |-> rs[i]]
    BY <1>1
  <2> HIDE DEF rs
  <2>8. \A i \in DOMAIN q.rb_list :
          /\ rs[i] \in RbItem /\ rs[i].rb = q.rb_list[i].rb
          /\ rs[i] = q.rb_list[i] \/ q.rb_list[i].rb = q.output_rb[e]
    BY <1>1, <2>4, <2>5, <2>6, BufferItems
  <2>9. Altered(q, r, e, Null, Null, rs)
    BY <1>2, <2>3, <2>7, <2>8, MarkedIsChanged
  <2> QED
    BY <2>9, UnwiredIsTurned DEF Altered
<1>5. CASE q.rb_list # <<>> /\ out # Head(q.rb_list).rb
  <2>1. r = cut \/ r = unmarked
    BY <1>5 DEF Discard, cut, unmarked
  <2>2. Marked(q, r, e, Null, Null)
    BY <1>2, <2>1
  <2>3. r = [r EXCEPT !.rb_list = q.rb_list]
    BY <2>2 DEF Marked, Pipelines
  <2>4. q.rb_list = [i \in DOMAIN q.rb_list |-> q.rb_list[i]]
    BY <1>1
  <2>5. \A i \in DOMAIN q.rb_list : q.rb_list[i] \in RbItem
    BY <1>1, BufferItems
  <2>6. Altered(q, r, e, Null, Null, q.rb_list)
    BY <2>2, <2>3, <2>4, <2>5, MarkedIsChanged
  <2> QED
    BY <2>6, UnwiredIsTurned DEF Altered
<1> QED
  BY <1>3, <1>4, <1>5

\* An element that is kept: its buffer is marked, if it keeps it (line 839).
LEMMA KeepTurns ==
  ASSUME NEW old, NEW q, Sound(old, q), NEW e \in El, IsListed(q, e), NEW working \in BOOLEAN,
         NEW r, r = Keep(q, e, working)
  PROVE  Turned(old, q, r, e)
<1> DEFINE b == q.output_rb[e]
           out == IF working THEN b ELSE Null
           kept == working \/ ItemOf(q, e).kept_ctx
           m == SetItem(q, e, FALSE, kept)
           s == Wire(m, e, Null, out)
           Mark(i) == IF working /\ q.rb_list[i].rb = b THEN [q.rb_list[i] EXCEPT !.kept_ctx = TRUE]
                      ELSE q.rb_list[i]
           rs == [i \in DOMAIN q.rb_list |-> Mark(i)]
<1>1. q \in Pipelines /\ ElementsDiffer(q) /\ b \in Rb \cup {Null}
  BY PipelineFields DEF Sound
<1>2. kept \in BOOLEAN
  <2>1. ItemOf(q, e) \in ElItem
    BY <1>1, ItemOfIs
  <2> QED
    BY <2>1 DEF ElItem
<1>3. Marked(q, s, e, Null, out)
  <2>1. PICK no \in BOOLEAN, nothing \in Rb \cup {Null} : no = FALSE /\ nothing = Null
    OBVIOUS
  <2>2. m = SetItem(q, e, no, kept)
    BY <2>1
  <2>3. s = Wire(m, e, nothing, out)
    BY <2>1
  <2>4. out \in Rb \cup {Null}
    BY <1>1
  <2> HIDE DEF m, s, kept, out
  <2>5. Remarked(q, m, e, no, kept)
    BY <1>1, <1>2, <2>2, SetItemIs
  <2>6. /\ ElementsDiffer(m)
        /\ \A x \in El : IsListed(m, x) <=> IsListed(q, x)
        /\ \A x \in El : x # e => (IsLinked(m, x) <=> IsLinked(q, x))
    BY <1>1, <1>2, <2>2, SetItemMarks
  <2>7. m \in Pipelines /\ m.rb_list = q.rb_list /\ m.input_rb = q.input_rb /\ m.output_rb = q.output_rb
    BY <2>5 DEF Remarked
  <2>8. Rewired(m, s, e, nothing, out)
    BY <2>3, <2>4, <2>7, WireIs
  <2>9. /\ ElementsDiffer(s)
        /\ \A x : (IsListed(s, x) <=> IsListed(m, x)) /\ (IsLinked(s, x) <=> IsLinked(m, x))
    BY <2>6, <2>8 DEF Rewired, ElementsDiffer, IsListed, IsLinked
  <2> QED
    BY <2>1, <2>6, <2>7, <2>8, <2>9 DEF Rewired, Marked
<1>4. r = [s EXCEPT !.rb_list = rs]
  <2>1. s.rb_list = q.rb_list
    BY <1>3 DEF Marked
  <2> HIDE DEF s
  <2>2. r = [s EXCEPT !.rb_list = [i \in DOMAIN @ |->
               IF working /\ @[i].rb = b THEN [@[i] EXCEPT !.kept_ctx = TRUE] ELSE @[i]]]
    BY DEF Keep, s
  <2> QED
    BY <2>1, <2>2
<1>5. \A i \in DOMAIN q.rb_list :
        /\ Mark(i) \in RbItem /\ Mark(i).rb = q.rb_list[i].rb /\ Mark(i).host_el = q.rb_list[i].host_el
        /\ Mark(i) = q.rb_list[i] \/ q.rb_list[i].rb = b
        /\ working /\ q.rb_list[i].rb = b => Mark(i).kept_ctx
  <2>1. \A it \in RbItem :
          LET x == [it EXCEPT !.kept_ctx = TRUE]
          IN  x \in RbItem /\ x.rb = it.rb /\ x.host_el = it.host_el /\ x.kept_ctx
    BY DEF RbItem
  <2> QED
    BY <1>1, <2>1, BufferItems
<1>6. DOMAIN rs = DOMAIN q.rb_list /\ \A i \in DOMAIN q.rb_list : rs[i] = Mark(i)
  OBVIOUS
<1>7. rs = [i \in DOMAIN rs |-> rs[i]]
  OBVIOUS
<1> HIDE DEF Mark, rs, s, out
<1>8. /\ Changed(q, r, e) /\ r.rb_list = rs /\ r.input_rb[e] = Null /\ r.output_rb[e] = out
  <2>1. \A i \in DOMAIN q.rb_list :
          /\ rs[i] \in RbItem /\ rs[i].rb = q.rb_list[i].rb
          /\ rs[i] = q.rb_list[i] \/ q.rb_list[i].rb = q.output_rb[e]
    BY <1>5, <1>6
  <2>2. Altered(q, r, e, Null, out, rs)
    BY <1>3, <1>4, <1>6, <1>7, <2>1, MarkedIsChanged
  <2> QED
    BY <2>2 DEF Altered
<1>9. r.output_rb[e] # Null =>
        \E j \in DOMAIN r.rb_list :
          /\ r.rb_list[j].rb = r.output_rb[e] /\ Owned(r, r.rb_list[j], e) /\ r.rb_list[j].kept_ctx
  <2> SUFFICES ASSUME out # Null
               PROVE  \E j \in DOMAIN rs : rs[j].rb = out /\ Owned(r, rs[j], e) /\ rs[j].kept_ctx
    BY <1>8
  <2>1. working /\ out = b
    BY DEF out
  <2>2. PICK j \in DOMAIN q.rb_list : q.rb_list[j].rb = b /\ q.rb_list[j].host_el = e
    BY <2>1 DEF Sound, Outputs, Owned
  <2> QED
    <3>1. j \in DOMAIN rs /\ rs[j] = Mark(j)
      BY <1>6, <2>2
    <3>2. Mark(j).rb = b /\ Mark(j).host_el = e /\ Mark(j).kept_ctx
      BY <1>5, <2>1, <2>2
    <3> QED
      BY <2>1, <3>1, <3>2 DEF Owned
<1>10. /\ Sound(old, r) /\ Buffers(r.rb_list) = Buffers(q.rb_list)
       /\ \A x \in El : x # e /\ Kept(q, x) => Kept(r, x)
  BY <1>8, <1>9, ChangeKeepsSound
<1> QED
  BY <1>8, <1>9, <1>10 DEF Turned, Kept, Changed


\* The loop over the elements, after the first i.
Breaking(acc, i) ==
  /\ acc \in [kept : BOOLEAN, q : Pipelines]
  /\ Sound(stale, acc.q) /\ Buffers(acc.q.rb_list) = Buffers(p.rb_list)
  /\ \A x \in El : IsListed(acc.q, x) <=> IsListed(p, x)
  /\ \A m \in DOMAIN p.el_list :
       m <= i \/ ~p.el_list[m].linked => Kept(acc.q, p.el_list[m].el)

\* Its step: the element is thrown away or kept, or it wrote to no buffer.
LEMMA BreakupStepTurns ==
  ASSUME NEW acc \in [kept : BOOLEAN, q : Pipelines], Sound(stale, acc.q), NEW it \in ElItem,
         IsListed(acc.q, it.el), ~it.linked => Kept(acc.q, it.el),
         NEW kept_ctx_el, NEW working, NEW r, r = BreakupStep(acc, it, kept_ctx_el, working)
  PROVE  r \in [kept : BOOLEAN, q : Pipelines] /\ Turned(stale, acc.q, r.q, it.el)
<1> DEFINE e == it.el
<1>1. e \in El
  BY DEF ElItem
<1>2. CASE r = acc /\ Kept(acc.q, e)
  BY <1>2 DEF Turned
<1>3. CASE it.linked /\ ~acc.kept /\ e # kept_ctx_el
  <2> DEFINE d == Discard(acc.q, e)
  <2>1. Turned(stale, acc.q, d, e)
    <3>1. d = Discard(acc.q, e)
      OBVIOUS
    <3> HIDE DEF d
    <3> QED
      BY <1>1, <3>1, DiscardTurns
  <2>2. r = [acc EXCEPT !.q = d]
    BY <1>3 DEF BreakupStep
  <2> HIDE DEF d
  <2>3. r.q = d /\ r.kept = acc.kept /\ r \in [kept : BOOLEAN, q : Pipelines]
    BY <2>1, <2>2 DEF Turned, Sound
  <2> QED
    BY <2>1, <2>3
<1>4. CASE it.linked /\ (acc.kept \/ e = kept_ctx_el)
  <2>1. CASE OutputIn(acc.q, e)
    <3> DEFINE d == Keep(acc.q, e, e \in working)
    <3>1. Turned(stale, acc.q, d, e)
      <4>1. PICK w \in BOOLEAN : d = Keep(acc.q, e, w)
        <5>1. CASE e \in working
          <6>1. (e \in working) = TRUE
            BY <5>1
          <6> QED
            BY <6>1
        <5>2. CASE e \notin working
          <6>1. (e \in working) = FALSE
            BY <5>2
          <6> QED
            BY <6>1
        <5> QED
          BY <5>1, <5>2
      <4> HIDE DEF d
      <4> QED
        BY <1>1, <4>1, KeepTurns
    <3>2. r = [kept |-> FALSE, q |-> d]
      BY <1>4, <2>1 DEF BreakupStep
    <3> HIDE DEF d
    <3>3. r.q = d /\ r \in [kept : BOOLEAN, q : Pipelines]
      BY <3>1, <3>2 DEF Turned, Sound
    <3> QED
      BY <3>1, <3>3
  <2>2. CASE ~OutputIn(acc.q, e)
    <3>1. r = acc
      BY <1>4, <2>2 DEF BreakupStep
    <3>2. acc.q.output_rb[e] = Null
      BY <1>1, <2>2 DEF Sound, Outputs, OutputIn
    <3> QED
      BY <1>2, <3>1, <3>2 DEF Kept
  <2> QED
    BY <2>1, <2>2
<1>5. CASE ~it.linked
  <2>1. r = acc
    BY <1>5 DEF BreakupStep
  <2> QED
    BY <1>2, <1>5, <2>1
<1>6. it.linked \in BOOLEAN /\ acc.kept \in BOOLEAN
  BY DEF ElItem
<1> QED
  BY <1>3, <1>4, <1>5, <1>6

\* The values of the loop, step by step.
IsBreakupLoop(loop, k, kept_ctx_el, working) ==
  /\ loop[0] = [kept |-> TRUE, q |-> p]
  /\ \A i \in 1..k : loop[i] = BreakupStep(loop[i - 1], p.el_list[i], kept_ctx_el, working)

\* The loop of breakup_elements has such values.
LEMMA BreakupLoopRuns ==
  ASSUME NEW kept_ctx_el, NEW working, NEW k \in Nat
  PROVE  \E loop : /\ IsBreakupLoop(loop, k, kept_ctx_el, working)
                   /\ k = Len(p.el_list) => BreakupLoop(kept_ctx_el, working) = loop[k].q
<1> DEFINE start == [kept |-> TRUE, q |-> p]
           Step(a, i) == BreakupStep(a, p.el_list[i], kept_ctx_el, working)
           X == {n \in 0..k : \E f : IsBreakupLoop(f, n, kept_ctx_el, working)}
<1>1. 0 \in X
  <2>1. IsBreakupLoop([i \in 0..k |-> start], 0, kept_ctx_el, working)
    BY DEF IsBreakupLoop
  <2> QED
    BY <2>1
<1>2. ASSUME NEW n \in 1..k, n - 1 \in X
      PROVE  n \in X
  <2>1. PICK f : IsBreakupLoop(f, n - 1, kept_ctx_el, working)
    BY <1>2
  <2> DEFINE g == [i \in 0..k |-> IF i = n THEN Step(f[n - 1], n) ELSE f[i]]
  <2>2. g[0] = start
    BY <2>1 DEF IsBreakupLoop
  <2>3. ASSUME NEW i \in 1..n
        PROVE  g[i] = Step(g[i - 1], i)
    <3>1. g[i - 1] = f[i - 1]
      OBVIOUS
    <3>2. CASE i = n
      BY <3>1, <3>2
    <3>3. CASE i # n
      <4>1. i \in 1..(n - 1) /\ g[i] = f[i]
        BY <3>3
      <4> QED
        BY <2>1, <3>1, <4>1 DEF IsBreakupLoop
    <3> QED
      BY <3>2, <3>3
  <2> HIDE DEF g
  <2>4. IsBreakupLoop(g, n, kept_ctx_el, working)
    BY <2>2, <2>3 DEF IsBreakupLoop
  <2> QED
    BY <2>4
<1>3. PICK f : IsBreakupLoop(f, k, kept_ctx_el, working)
  <2> HIDE DEF X
  <2>1. k \in X
    BY <1>1, <1>2, AfterEachStep
  <2> QED
    BY <2>1 DEF X
<1> DEFINE h == [i \in 0..k |-> f[i]]
           Whole(l) == l = [i \in 0..k |-> IF i = 0 THEN start ELSE Step(l[i - 1], i)]
           loop == CHOOSE l : Whole(l)
<1>4. Whole(h)
  <2>1. \A i \in 0..k : f[i] = IF i = 0 THEN start ELSE Step(h[i - 1], i)
    BY <1>3 DEF IsBreakupLoop
  <2> QED
    BY <2>1
<1>5. Whole(loop)
  <2> HIDE DEF Whole, h
  <2> QED
    BY <1>4
<1>6. k = Len(p.el_list) => BreakupLoop(kept_ctx_el, working) = loop[k].q
  BY DEF BreakupLoop
<1>7. IsBreakupLoop(loop, k, kept_ctx_el, working)
  <2> HIDE DEF loop, Step, start
  <2>1. loop[0] = start /\ \A i \in 1..k : loop[i] = Step(loop[i - 1], i)
    BY <1>5
  <2> QED
    BY <2>1 DEF IsBreakupLoop, Step, start
<1> HIDE DEF loop
<1> QED
  BY <1>6, <1>7


\* All of the loop: every buffer that an element still writes to is kept.
LEMMA BreakupLoopKeeps ==
  ASSUME IInv, NEW kept_ctx_el, NEW working, NEW q, q = BreakupLoop(kept_ctx_el, working)
  PROVE  /\ Sound(stale, q) /\ Buffers(q.rb_list) = Buffers(p.rb_list)
         /\ \A x \in El : Kept(q, x)
<1> DEFINE n == Len(p.el_list)
<1>1. /\ Sound(stale, p) /\ p \in Pipelines /\ ElementsDiffer(p)
      /\ n \in Nat /\ DOMAIN p.el_list = 1..n
      /\ \A m \in 1..n : p.el_list[m] \in ElItem /\ p.el_list[m].el \in El
  <2>1. p \in Pipelines
    BY DEF IInv, Sound
  <2>2. p.el_list \in Seq(ElItem)
    BY <2>1, PipelineFields
  <2>3. \A it \in ElItem : it.el \in El
    BY DEF ElItem
  <2> QED
    BY <2>1, <2>2, <2>3 DEF IInv, Sound
<1> HIDE DEF n
<1>2. PICK loop : IsBreakupLoop(loop, n, kept_ctx_el, working) /\ q = loop[n].q
  BY <1>1, BreakupLoopRuns DEF n
<1> DEFINE X == {i \in 0..n : Breaking(loop[i], i)}
<1>3. 0 \in X
  <2> DEFINE start == [kept |-> TRUE, q |-> p]
  <2>1. start \in [kept : BOOLEAN, q : Pipelines] /\ start.q = p
    BY <1>1
  <2>2. loop[0] = start
    BY <1>2 DEF IsBreakupLoop
  <2>3. ASSUME NEW m \in DOMAIN p.el_list, m <= 0 \/ ~p.el_list[m].linked
        PROVE  Kept(p, p.el_list[m].el)
    <3>1. ~p.el_list[m].linked /\ p.el_list[m].el \in El
      BY <1>1, <2>3
    <3>2. ~IsLinked(p, p.el_list[m].el)
      BY <1>1, <3>1 DEF IsLinked, ElementsDiffer
    <3> QED
      BY <1>1, <3>1, <3>2 DEF Kept, Sound, Outputs, Owned
  <2> HIDE DEF start
  <2>4. Breaking(start, 0)
    BY <1>1, <2>1, <2>3 DEF Breaking
  <2> QED
    BY <1>1, <2>2, <2>4
<1>4. ASSUME NEW i \in 1..n, i - 1 \in X
      PROVE  i \in X
  <2> DEFINE a == loop[i - 1]
             r == loop[i]
             it == p.el_list[i]
  <2>1. Breaking(a, i - 1) /\ r = BreakupStep(a, it, kept_ctx_el, working)
    BY <1>2, <1>4 DEF IsBreakupLoop
  <2>2. it \in ElItem /\ it.el \in El /\ IsListed(p, it.el)
    BY <1>1 DEF IsListed
  <2>3. IsListed(a.q, it.el)
    BY <2>1, <2>2 DEF Breaking
  <2>4. ~it.linked => Kept(a.q, it.el)
    BY <1>1, <2>1 DEF Breaking
  <2> HIDE DEF a, r
  <2>5. r \in [kept : BOOLEAN, q : Pipelines] /\ Turned(stale, a.q, r.q, it.el)
    BY <2>1, <2>2, <2>3, <2>4, BreakupStepTurns DEF Breaking
  <2>6. ASSUME NEW m \in DOMAIN p.el_list, m <= i \/ ~p.el_list[m].linked
        PROVE  Kept(r.q, p.el_list[m].el)
    <3>1. CASE m = i
      BY <2>5, <3>1 DEF Turned
    <3>2. CASE m # i
      <4>1. p.el_list[m].el \in El /\ p.el_list[m].el # it.el
        BY <1>1, <3>2 DEF ElementsDiffer
      <4>2. m <= i - 1 \/ ~p.el_list[m].linked
        BY <1>1, <2>6, <3>2
      <4>3. Kept(a.q, p.el_list[m].el)
        BY <2>1, <4>2 DEF Breaking
      <4> QED
        BY <2>5, <4>1, <4>3 DEF Turned
    <3> QED
      BY <3>1, <3>2
  <2>7. Breaking(r, i)
    BY <2>1, <2>5, <2>6 DEF Breaking, Turned
  <2> QED
    BY <1>1, <2>7 DEF r
<1>5. Breaking(loop[n], n)
  <2> HIDE DEF X
  <2>1. n \in X
    <3>1. n \in Nat
      BY <1>1
    <3>2. \A i \in 1..n : i - 1 \in X => i \in X
      BY <1>4
    <3>3. \A i \in 0..n : i \in X
      BY <1>3, <3>1, <3>2, AfterEachStep
    <3> QED
      BY <3>1, <3>3
  <2> QED
    BY <2>1 DEF X
<1>6. ASSUME NEW x \in El
      PROVE  Kept(q, x)
  <2>1. CASE IsListed(p, x)
    <3>1. PICK m \in DOMAIN p.el_list : p.el_list[m].el = x
      BY <2>1 DEF IsListed
    <3>2. m <= n
      BY <1>1
    <3> QED
      BY <1>2, <1>5, <3>1, <3>2 DEF Breaking
  <2>2. CASE ~IsListed(p, x)
    BY <1>2, <1>5, <2>2 DEF Breaking, Sound, Outputs, Kept
  <2> QED
    BY <2>1, <2>2
<1> QED
  BY <1>2, <1>5, <1>6 DEF Breaking

\* audio_pipeline_breakup_elements.
LEMMA BreakupKeepsIInv ==
  ASSUME IInv, NEW kept_ctx_el, NEW working, BreakupElements(kept_ctx_el, working)
  PROVE  IInv'
<1> DEFINE q == BreakupLoop(kept_ctx_el, working)
           Loose(i) == IF q.rb_list[i].kept_ctx THEN q.rb_list[i] ELSE [q.rb_list[i] EXCEPT !.linked = FALSE]
           rs == [i \in DOMAIN q.rb_list |-> Loose(i)]
<1>1. /\ Sound(stale, q) /\ Buffers(q.rb_list) = Buffers(p.rb_list)
      /\ \A x \in El : Kept(q, x)
  <2>1. q = BreakupLoop(kept_ctx_el, working)
    OBVIOUS
  <2> HIDE DEF q
  <2> QED
    BY <2>1, BreakupLoopKeeps
<1>2. p' = [[q EXCEPT !.rb_list = rs] EXCEPT !.linked = FALSE]
  BY DEF BreakupElements
<1>3. chain' = <<>> /\ live' = live /\ stale' = stale
  BY DEF BreakupElements
<1> HIDE DEF q
<1>4. q \in Pipelines
  BY <1>1 DEF Sound
<1>5. \A i \in DOMAIN q.rb_list :
        /\ Loose(i) \in RbItem /\ Loose(i).rb = q.rb_list[i].rb
        /\ q.rb_list[i].kept_ctx => Loose(i) = q.rb_list[i]
  <2>1. \A b \in RbItem : /\ [b EXCEPT !.linked = FALSE] \in RbItem
                          /\ [b EXCEPT !.linked = FALSE].rb = b.rb
    BY DEF RbItem
  <2>2. \A i \in DOMAIN q.rb_list : q.rb_list[i] \in RbItem
    BY <1>4, BufferItems
  <2> QED
    BY <2>1, <2>2
<1>6. /\ DOMAIN rs = DOMAIN q.rb_list /\ rs = [i \in DOMAIN rs |-> rs[i]]
      /\ \A i \in DOMAIN q.rb_list : rs[i] = Loose(i)
  OBVIOUS
<1> HIDE DEF Loose, rs
<1>7. rs \in Seq(RbItem)
  BY <1>4, <1>5, <1>6, ItemsChanged
<1>8. /\ p' \in Pipelines /\ p'.el_list = q.el_list /\ p'.rb_list = rs
      /\ p'.input_rb = q.input_rb /\ p'.output_rb = q.output_rb
  BY <1>2, <1>4, <1>7 DEF Pipelines
<1>9. /\ ElementsDiffer(p')
      /\ \A x : (IsListed(p', x) <=> IsListed(q, x)) /\ (IsLinked(p', x) <=> IsLinked(q, x))
  BY <1>1, <1>8 DEF Sound, ElementsDiffer, IsListed, IsLinked
<1>10. Buffers(p'.rb_list) = Buffers(q.rb_list) /\ BuffersDiffer(p')
  <2>1. SameBuffers(q, p')
    BY <1>5, <1>6, <1>8 DEF SameBuffers
  <2> QED
    BY <1>1, <2>1, SameBuffersAre DEF Sound
<1>11. Inputs(stale', p')
  BY <1>1, <1>3, <1>8, <1>9, <1>10 DEF Sound, Inputs
<1>12. Outputs(p')
  <2> SUFFICES ASSUME NEW x \in El, q.output_rb[x] # Null
               PROVE  /\ IsListed(p', x)
                      /\ \E j \in DOMAIN rs : rs[j].rb = q.output_rb[x] /\ Owned(p', rs[j], x)
    BY <1>8 DEF Outputs
  <2>1. PICK j \in DOMAIN q.rb_list : q.rb_list[j].rb = q.output_rb[x] /\ q.rb_list[j].kept_ctx
    BY <1>1 DEF Kept
  <2>2. q.rb_list[j].host_el = x /\ IsListed(q, x)
    BY <1>1, <2>1 DEF Sound, Outputs, BuffersDiffer, Owned
  <2>3. rs[j] = q.rb_list[j] /\ j \in DOMAIN rs
    BY <1>5, <1>6, <2>1
  <2> QED
    BY <1>9, <2>1, <2>2, <2>3 DEF Owned
<1>13. Sound(stale', p') /\ Buffers(p'.rb_list) = Buffers(p.rb_list)
  BY <1>1, <1>8, <1>9, <1>10, <1>11, <1>12 DEF Sound
<1> QED
  BY <1>3, <1>13, NoChain DEF IInv


-----------------------------------------------------------------------------
(* audio_pipeline_relink. *)

\* A search from the front finds the first item, if there is one.
LEMMA FirstIs ==
  ASSUME NEW S, S \subseteq Nat, S # {}
  PROVE  \E t \in S : FirstOf(S) = {t}
<1>1. PICK y \in S : \A x \in S : ~(<<x, y>> \in OpToRel(<, Nat))
  BY NatLessThanWellFounded, WFMin
<1>2. \A x \in S : y <= x
  <2> SUFFICES ASSUME NEW x \in S, ~(y <= x)
               PROVE  FALSE
    OBVIOUS
  <2>1. x \in Nat /\ y \in Nat /\ x < y
    OBVIOUS
  <2>2. <<x, y>> \in OpToRel(<, Nat)
    BY <2>1 DEF OpToRel
  <2> QED
    BY <1>1, <2>2
<1> DEFINE t == CHOOSE i \in S : \A j \in S : i <= j
<1>3. t \in S
  BY <1>2
<1>4. FirstOf(S) = {t}
  BY DEF FirstOf
<1> QED
  BY <1>3, <1>4

\* The search of audio_pipeline_el_item_link ends at an item of c, or at the end
\* of the list; it changes no buffer that another element writes to.
Found(q, rs, e, c) ==
  /\ rs \in Seq(RbItem) /\ DOMAIN rs = DOMAIN q.rb_list
  /\ \A i \in DOMAIN q.rb_list :
       /\ rs[i].rb = q.rb_list[i].rb
       /\ \/ rs[i] = q.rb_list[i]
          \/ Free(q.rb_list[i])
          \/ q.rb_list[i].host_el = e /\ rs[i] = NewRbItem(q.rb_list[i].rb, e)
  /\ \/ c = {}
     \/ \E t \in DOMAIN q.rb_list :
          c = {t} /\ rs[t] = NewRbItem(q.rb_list[t].rb, e)

\* The search (lines 867 to 901).
LEMMA SearchedIs ==
  ASSUME NEW q \in Pipelines, NEW e \in El, NEW s, s = Searched(q, e)
  PROVE  \E rs : s = [q EXCEPT !.rb_list = rs] /\ Found(q, rs, e, Chosen(q, e))
<1> DEFINE kept == ItemOf(q, e).kept_ctx
           Fits(i) == IF kept THEN q.rb_list[i].host_el = e
                      ELSE Free(q.rb_list[i]) /\ q.rb_list[i].host_el = Null
           c == Chosen(q, e)
           passed(i) == ~kept /\ Free(q.rb_list[i]) /\ \A j \in c : i < j
           Dropped(b) == [b EXCEPT !.host_el = Null]
           At(i) == IF i \in c THEN NewRbItem(q.rb_list[i].rb, e)
                    ELSE IF passed(i) THEN Dropped(q.rb_list[i]) ELSE q.rb_list[i]
           rs == [i \in DOMAIN q.rb_list |-> At(i)]
<1>1. s = [q EXCEPT !.rb_list = rs]
  BY DEF Searched
<1>2. c = {} \/ \E t \in DOMAIN q.rb_list : c = {t} /\ Fits(t)
  <2> DEFINE S == {i \in DOMAIN q.rb_list : Fits(i)}
  <2>1. c = FirstOf(S)
    BY DEF Chosen
  <2>2. S \subseteq Nat
    <3>1. q.rb_list \in Seq(RbItem)
      BY PipelineFields
    <3>2. DOMAIN q.rb_list \subseteq Nat
      BY <3>1
    <3> QED
      BY <3>2
  <2>3. \A t \in S : t \in DOMAIN q.rb_list /\ Fits(t)
    OBVIOUS
  <2>4. S = {} => FirstOf(S) = {}
    BY DEF FirstOf
  <2> HIDE DEF S, c, Fits
  <2> QED
    BY <2>1, <2>2, <2>3, <2>4, FirstIs
<1>3. \A i \in DOMAIN q.rb_list : q.rb_list[i] \in RbItem /\ q.rb_list[i].rb \in Rb
  BY BufferItems
<1>4. \A b \in RbItem : /\ Dropped(b) \in RbItem
                        /\ Dropped(b).rb = b.rb
  BY DEF RbItem
<1>5. \A b \in Rb : NewRbItem(b, e) \in RbItem /\ NewRbItem(b, e).rb = b
  BY DEF NewRbItem, RbItem
<1>6. \A i \in DOMAIN q.rb_list :
        /\ i \in c => At(i) = NewRbItem(q.rb_list[i].rb, e)
        /\ i \notin c => (At(i) = q.rb_list[i]
                           \/ (Free(q.rb_list[i]) /\ At(i) = Dropped(q.rb_list[i])))
  <2> HIDE DEF c, Fits, kept, Dropped
  <2>1. ASSUME NEW i \in DOMAIN q.rb_list
        PROVE  /\ i \in c => At(i) = NewRbItem(q.rb_list[i].rb, e)
               /\ i \notin c => (At(i) = q.rb_list[i]
                                  \/ (Free(q.rb_list[i]) /\ At(i) = Dropped(q.rb_list[i])))
    <3>1. CASE i \in c
      BY <3>1
    <3>2. CASE i \notin c /\ passed(i)
      <4>1. At(i) = Dropped(q.rb_list[i]) /\ Free(q.rb_list[i])
        BY <3>2
      <4> QED
        BY <3>2, <4>1
    <3>3. CASE i \notin c /\ ~passed(i)
      <4>1. At(i) = q.rb_list[i]
        BY <3>3
      <4> QED
        BY <3>3, <4>1
    <3> QED
      BY <3>1, <3>2, <3>3
  <2> HIDE DEF At
  <2> QED
    BY <2>1
<1>7. DOMAIN rs = DOMAIN q.rb_list /\ \A i \in DOMAIN q.rb_list : rs[i] = At(i)
  OBVIOUS
<1>8. rs = [i \in DOMAIN rs |-> rs[i]]
  OBVIOUS
<1>9. \A i \in DOMAIN q.rb_list : Fits(i) => Free(q.rb_list[i]) \/ q.rb_list[i].host_el = e
  OBVIOUS
<1> HIDE DEF At, rs, c, Fits, Dropped
<1>10. ASSUME NEW i \in DOMAIN q.rb_list
       PROVE  rs[i] \in RbItem /\ rs[i].rb = q.rb_list[i].rb
  <2>1. q.rb_list[i] \in RbItem /\ q.rb_list[i].rb \in Rb /\ rs[i] = At(i)
    BY <1>3, <1>7
  <2>2. \/ At(i) = NewRbItem(q.rb_list[i].rb, e)
        \/ At(i) = Dropped(q.rb_list[i])
        \/ At(i) = q.rb_list[i]
    BY <1>6
  <2> QED
    BY <1>4, <1>5, <2>1, <2>2
<1>11. rs \in Seq(RbItem)
  BY <1>7, <1>8, <1>10, ItemsChanged
<1>12. \A i \in DOMAIN q.rb_list :
         \/ rs[i] = q.rb_list[i]
         \/ Free(q.rb_list[i])
         \/ q.rb_list[i].host_el = e /\ rs[i] = NewRbItem(q.rb_list[i].rb, e)
  BY <1>2, <1>6, <1>7, <1>9
<1>13. Found(q, rs, e, c)
  BY <1>2, <1>6, <1>7, <1>10, <1>11, <1>12 DEF Found
<1> QED
  BY <1>1, <1>13 DEF c


\* r is q with e marked as linked and the items of its buffers replaced by rs.
Prepared(old, q, r, e, rs) ==
  /\ Sound(old, r) /\ r.rb_list = rs /\ r.linked = q.linked /\ r.rb = q.rb
  /\ r.input_rb = q.input_rb /\ r.output_rb = q.output_rb
  /\ \A x \in El : IsListed(r, x) <=> IsListed(q, x)
  /\ \A x \in El : IsLinked(r, x) <=> (x = e \/ IsLinked(q, x))

\* The search leaves everything sound.
LEMMA SearchKeepsSound ==
  ASSUME NEW old, NEW q, Sound(old, q), NEW e \in El, IsListed(q, e), NEW rs, NEW c, Found(q, rs, e, c),
         NEW kept \in BOOLEAN, NEW r, r = SetItem([q EXCEPT !.rb_list = rs], e, TRUE, kept)
  PROVE  Prepared(old, q, r, e, rs)
<1> DEFINE s == [q EXCEPT !.rb_list = rs]
<1>1. q \in Pipelines /\ rs \in Seq(RbItem)
  BY DEF Sound, Found
<1>2. /\ s \in Pipelines /\ s.el_list = q.el_list /\ s.rb_list = rs /\ s.linked = q.linked
      /\ s.rb = q.rb /\ s.input_rb = q.input_rb /\ s.output_rb = q.output_rb
  BY <1>1 DEF Pipelines
<1>3. PICK yes \in BOOLEAN : yes = TRUE /\ r = SetItem(s, e, yes, kept)
  OBVIOUS
<1> HIDE DEF s
<1>4. ElementsDiffer(s)
  BY <1>2 DEF Sound, ElementsDiffer
<1>5. Remarked(s, r, e, yes, kept)
  BY <1>2, <1>3, SetItemIs
<1>6. /\ ElementsDiffer(r)
      /\ \A x \in El : IsListed(r, x) <=> IsListed(s, x)
      /\ \A x \in El : x # e => (IsLinked(r, x) <=> IsLinked(s, x))
      /\ IsLinked(r, e) <=> yes /\ IsListed(s, e)
  BY <1>2, <1>3, <1>4, SetItemMarks
<1>7. /\ r \in Pipelines /\ r.rb_list = rs /\ r.linked = q.linked /\ r.rb = q.rb
      /\ r.input_rb = q.input_rb /\ r.output_rb = q.output_rb
  BY <1>2, <1>5 DEF Remarked
<1>8. \A x : (IsListed(s, x) <=> IsListed(q, x)) /\ (IsLinked(s, x) <=> IsLinked(q, x))
  BY <1>2 DEF IsListed, IsLinked
<1>9. /\ \A x \in El : IsListed(r, x) <=> IsListed(q, x)
      /\ \A x \in El : IsLinked(r, x) <=> (x = e \/ IsLinked(q, x))
  BY <1>3, <1>6, <1>8
<1>10. Buffers(r.rb_list) = Buffers(q.rb_list) /\ BuffersDiffer(r)
  <2>1. SameBuffers(q, r)
    BY <1>7 DEF Found, SameBuffers
  <2> QED
    BY <2>1, SameBuffersAre DEF Sound
<1>11. Inputs(old, r)
  BY <1>7, <1>9, <1>10 DEF Sound, Inputs
<1>12. Outputs(r)
  <2> SUFFICES ASSUME NEW x \in El, q.output_rb[x] # Null
               PROVE  /\ IsListed(r, x)
                      /\ \E j \in DOMAIN rs : rs[j].rb = q.output_rb[x] /\ Owned(r, rs[j], x)
    BY <1>7 DEF Outputs
  <2>1. IsListed(r, x)
    BY <1>9 DEF Sound, Outputs
  <2>2. PICK j \in DOMAIN q.rb_list :
          q.rb_list[j].rb = q.output_rb[x] /\ Owned(q, q.rb_list[j], x)
    BY DEF Sound, Outputs
  <2>3. ~Free(q.rb_list[j]) /\ Owned(r, q.rb_list[j], x)
    BY <1>9, <2>2 DEF Owned, Free
  <2>4. j \in DOMAIN rs /\ rs[j].rb = q.output_rb[x]
    BY <2>2 DEF Found
  <2>5. CASE rs[j] = q.rb_list[j]
    BY <2>1, <2>3, <2>4, <2>5
  <2>6. CASE q.rb_list[j].host_el = e /\ rs[j] = NewRbItem(q.rb_list[j].rb, e)
    <3>1. x = e
      BY <2>2, <2>6 DEF Owned
    <3>2. \A b : Owned(r, NewRbItem(b, e), e)
      BY <1>9 DEF Owned, NewRbItem
    <3> QED
      BY <2>1, <2>4, <2>6, <3>1, <3>2
  <2> QED
    BY <2>3, <2>5, <2>6 DEF Found
<1>13. Sound(old, r)
  BY <1>6, <1>7, <1>10, <1>11, <1>12 DEF Sound
<1> QED
  BY <1>7, <1>9, <1>13 DEF Prepared

\* A linked element may read from any buffer of the list.
LEMMA NewInputKeepsSound ==
  ASSUME NEW old, NEW q, Sound(old, q), NEW e \in El, IsLinked(q, e),
         NEW in \in Buffers(q.rb_list) \cup old \cup {Null},
         NEW r \in Pipelines, r.el_list = q.el_list, r.rb_list = q.rb_list, r.output_rb = q.output_rb,
         \A x \in El : r.input_rb[x] = IF x = e THEN in ELSE q.input_rb[x]
  PROVE  Sound(old, r)
<1>1. /\ ElementsDiffer(r) /\ BuffersDiffer(r)
      /\ \A x : (IsListed(r, x) <=> IsListed(q, x)) /\ (IsLinked(r, x) <=> IsLinked(q, x))
  BY DEF Sound, ElementsDiffer, BuffersDiffer, IsListed, IsLinked
<1>2. \A b, x : Owned(r, b, x) <=> Owned(q, b, x)
  BY <1>1 DEF Owned
<1>3. Inputs(old, r)
  BY <1>1 DEF Sound, Inputs
<1>4. Outputs(r)
  BY <1>1, <1>2 DEF Sound, Outputs
<1> QED
  BY <1>1, <1>3, <1>4 DEF Sound

\* And write to a buffer that names it, or to a new one.
LEMMA NewOutputKeepsSound ==
  ASSUME NEW old, NEW q, Sound(old, q), NEW e \in El, IsLinked(q, e), NEW b \in Rb,
         NEW r \in Pipelines, r.el_list = q.el_list, r.input_rb = q.input_rb,
         \A x \in El : r.output_rb[x] = IF x = e THEN b ELSE q.output_rb[x],
         \/ r.rb_list = q.rb_list /\ \E t \in DOMAIN q.rb_list : q.rb_list[t] = NewRbItem(b, e)
         \/ r.rb_list = Append(q.rb_list, NewRbItem(b, e)) /\ b \notin Buffers(q.rb_list)
  PROVE  Sound(old, r)
<1>1. /\ ElementsDiffer(r) /\ q \in Pipelines
      /\ \A x : (IsListed(r, x) <=> IsListed(q, x)) /\ (IsLinked(r, x) <=> IsLinked(q, x))
  BY DEF Sound, ElementsDiffer, IsListed, IsLinked
<1>2. \A i, x : Owned(r, i, x) <=> Owned(q, i, x)
  BY <1>1 DEF Owned
<1>3. NewRbItem(b, e).rb = b /\ Owned(r, NewRbItem(b, e), e) /\ IsListed(r, e)
  <2>1. IsListed(q, e)
    BY DEF IsListed, IsLinked
  <2> QED
    BY <1>1, <2>1 DEF Owned, NewRbItem
<1>4. /\ Buffers(q.rb_list) \subseteq Buffers(r.rb_list) /\ BuffersDiffer(r)
      /\ \A j \in DOMAIN q.rb_list : j \in DOMAIN r.rb_list /\ r.rb_list[j] = q.rb_list[j]
      /\ \E j \in DOMAIN r.rb_list : r.rb_list[j] = NewRbItem(b, e)
  <2>1. CASE r.rb_list = q.rb_list
    <3>1. BuffersDiffer(r)
      BY <2>1 DEF Sound, BuffersDiffer
    <3>2. \E t \in DOMAIN q.rb_list : q.rb_list[t] = NewRbItem(b, e)
      <4>1. CASE q.rb_list = Append(q.rb_list, NewRbItem(b, e))
        <5>1. Added(q, q.rb_list, b, e)
          BY <1>1, <4>1, ListedBuffer
        <5> QED
          BY <5>1 DEF Added
      <4> QED
        BY <2>1, <4>1
    <3> QED
      BY <2>1, <3>1, <3>2
  <2>2. CASE r.rb_list = Append(q.rb_list, NewRbItem(b, e)) /\ b \notin Buffers(q.rb_list)
    <3>1. Added(q, r.rb_list, b, e)
      BY <1>1, <2>2, ListedBuffer
    <3>2. BuffersDiffer(r)
      BY <1>1, <2>2, NewBufferDiffers DEF Sound
    <3> QED
      BY <3>1, <3>2 DEF Added
  <2> QED
    BY <2>1, <2>2
<1>5. Inputs(old, r)
  BY <1>1, <1>4 DEF Sound, Inputs
<1>6. Outputs(r)
  <2> SUFFICES ASSUME NEW x \in El, r.output_rb[x] # Null
               PROVE  /\ IsListed(r, x)
                      /\ \E j \in DOMAIN r.rb_list :
                           r.rb_list[j].rb = r.output_rb[x] /\ Owned(r, r.rb_list[j], x)
    BY DEF Outputs
  <2>1. CASE x = e
    BY <1>3, <1>4, <2>1
  <2>2. CASE x # e
    <3>1. /\ q.output_rb[x] = r.output_rb[x] /\ IsListed(q, x)
          /\ \E j \in DOMAIN q.rb_list : q.rb_list[j].rb = q.output_rb[x] /\ Owned(q, q.rb_list[j], x)
      BY <2>2 DEF Sound, Outputs
    <3> QED
      BY <1>1, <1>2, <1>4, <3>1
  <2> QED
    BY <2>1, <2>2
<1> QED
  BY <1>1, <1>4, <1>5, <1>6 DEF Sound


\* u is q after e was linked; nb is the buffer that had to be created, if any.
Relinked(old, q, u, e, first, last, create, nb) ==
  /\ Sound(old, u)
  /\ \A x \in El : IsListed(u, x) <=> IsListed(q, x)
  /\ \A x \in El : IsLinked(u, x) <=> (x = e \/ IsLinked(q, x))
  /\ \A x \in El : u.input_rb[x] = IF x # e \/ (first /\ ~last) THEN q.input_rb[x] ELSE q.rb
  /\ \A x \in El : x # e => u.output_rb[x] = q.output_rb[x]
  /\ ~last => u.output_rb[e] # Null /\ u.rb = u.output_rb[e]
  /\ Buffers(u.rb_list) = Buffers(q.rb_list) \cup (IF create THEN {nb} ELSE {})

\* audio_pipeline_el_item_link (line 860): the element is linked, to the
\* buffer before it and to one that no other element writes to.
LEMMA ElItemLinkIs ==
  ASSUME NEW old, NEW q, Sound(old, q), NEW e \in El, IsListed(q, e), NEW first \in BOOLEAN, NEW last \in BOOLEAN,
         (first /\ ~last) \/ q.rb \in Buffers(q.rb_list) \cup old \cup {Null},
         NEW nb, NEW create \in BOOLEAN, create <=> Creates(q, e, last),
         create => nb \in Rb \ Buffers(q.rb_list),
         NEW u, u = ElItemLink(q, e, first, last, nb)
  PROVE  Relinked(old, q, u, e, first, last, create, nb)
<1> DEFINE c == Chosen(q, e)
           kept == ItemOf(q, e).kept_ctx /\ c = {}
           s == SetItem(Searched(q, e), e, TRUE, kept)
           b == IF c = {} THEN nb ELSE q.rb_list[CHOOSE i \in c : TRUE].rb
           in == IF first /\ ~last THEN q.input_rb[e] ELSE q.rb
           ins == [q.input_rb EXCEPT ![e] = in]
           m == [s EXCEPT !.input_rb = ins]
<1>1. q \in Pipelines /\ ElementsDiffer(q) /\ q.rb_list \in Seq(RbItem)
  BY PipelineFields DEF Sound
<1>2. PICK rs : Searched(q, e) = [q EXCEPT !.rb_list = rs] /\ Found(q, rs, e, c)
  BY <1>1, SearchedIs
<1>3. PICK k \in BOOLEAN : s = SetItem([q EXCEPT !.rb_list = rs], e, TRUE, k)
  <2>1. ItemOf(q, e).kept_ctx \in BOOLEAN
    <3>1. ItemOf(q, e) \in ElItem
      BY <1>1, ItemOfIs
    <3> QED
      BY <3>1 DEF ElItem
  <2>2. kept \in BOOLEAN /\ s = SetItem([q EXCEPT !.rb_list = rs], e, TRUE, kept)
    BY <1>2, <2>1
  <2> HIDE DEF kept, s
  <2> QED
    BY <2>2
<1>4. Prepared(old, q, s, e, rs)
  <2> HIDE DEF s, kept, c
  <2> QED
    BY <1>2, <1>3, SearchKeepsSound
<1>0. create => nb # Null
  BY NullAssumption
<1>5. u = IF last THEN [s EXCEPT !.input_rb[e] = in]
          ELSE IF c = {} THEN [[Wire(s, e, in, b) EXCEPT !.rb = b]
                                 EXCEPT !.rb_list = Append(@, NewRbItem(nb, e))]
          ELSE [Wire(s, e, in, b) EXCEPT !.rb = b]
  <2>1. CASE last
    BY <2>1 DEF ElItemLink, Connect
  <2>2. CASE ~last /\ c = {}
    BY <1>0, <2>2 DEF ElItemLink, Connect, Creates
  <2>3. CASE ~last /\ c # {}
    BY <2>3 DEF ElItemLink, Connect
  <2> QED
    BY <2>1, <2>2, <2>3
<1>6. b \in Rb \/ last
  BY <1>1, <1>2, BufferItems DEF Found, Creates
<1>7. c # {} => \E t \in DOMAIN rs : rs[t] = NewRbItem(b, e)
  <2> SUFFICES ASSUME c # {}
               PROVE  \E t \in DOMAIN rs : rs[t] = NewRbItem(b, e)
    OBVIOUS
  <2>1. PICK t \in DOMAIN q.rb_list : c = {t} /\ rs[t] = NewRbItem(q.rb_list[t].rb, e)
    BY <1>2 DEF Found
  <2>2. b = q.rb_list[t].rb
    BY <2>1
  <2> HIDE DEF b, c
  <2> QED
    BY <1>2, <2>1, <2>2 DEF Found
<1> HIDE DEF s, kept, c, b
<1>8. /\ s \in Pipelines /\ Sound(old, s) /\ s.rb_list = rs /\ s.rb = q.rb
      /\ s.input_rb = q.input_rb /\ s.output_rb = q.output_rb /\ IsLinked(s, e)
  BY <1>4 DEF Prepared, Sound
<1>9. Buffers(rs) = Buffers(q.rb_list)
  <2>1. SameBuffers(q, s)
    BY <1>2, <1>8 DEF Found, SameBuffers
  <2> QED
    BY <1>8, <2>1, SameBuffersAre
<1>10. in \in Buffers(rs) \cup old \cup {Null} /\ in \in Rb \cup {Null}
  <2>1. q.input_rb[e] \in Buffers(rs) \cup old \cup {Null}
    BY <1>9 DEF Sound, Inputs
  <2>2. q.input_rb[e] \in Rb \cup {Null} /\ q.rb \in Rb \cup {Null}
    BY <1>1, PipelineFields
  <2> QED
    BY <1>9, <2>1, <2>2
<1>11. ins \in [El -> Rb \cup {Null}] /\ \A x \in El : ins[x] = IF x = e THEN in ELSE q.input_rb[x]
  BY <1>1, <1>10, PipelineFields
<1> HIDE DEF ins
<1>12. /\ m \in Pipelines /\ m.el_list = s.el_list /\ m.rb_list = rs /\ m.rb = q.rb
       /\ m.output_rb = q.output_rb /\ m.input_rb = ins
  BY <1>8, <1>11 DEF Pipelines
<1>13. Sound(old, m)
  <2>1. \A x \in El : m.input_rb[x] = IF x = e THEN in ELSE s.input_rb[x]
    BY <1>8, <1>11, <1>12
  <2> HIDE DEF m, in
  <2> QED
    BY <1>8, <1>10, <1>12, <2>1, NewInputKeepsSound
<1>14. \A x \in El : /\ IsListed(m, x) <=> IsListed(q, x)
                     /\ IsLinked(m, x) <=> (x = e \/ IsLinked(q, x))
  <2>1. \A x : (IsListed(m, x) <=> IsListed(s, x)) /\ (IsLinked(m, x) <=> IsLinked(s, x))
    BY <1>12 DEF IsListed, IsLinked
  <2> QED
    BY <1>4, <2>1 DEF Prepared
<1>15. \A x \in El : m.input_rb[x] = IF x # e \/ (first /\ ~last) THEN q.input_rb[x] ELSE q.rb
  BY <1>11, <1>12
<1>16. CASE last
  <2>1. u = m
    BY <1>5, <1>8, <1>16 DEF ins
  <2> HIDE DEF m
  <2> QED
    BY <1>9, <1>12, <1>13, <1>14, <1>15, <1>16, <2>1 DEF Relinked, Creates
<1>17. CASE ~last
  <2> DEFINE outs == [q.output_rb EXCEPT ![e] = b]
             list == IF c = {} THEN Append(rs, NewRbItem(nb, e)) ELSE rs
  <2>1. u = [[[m EXCEPT !.output_rb = outs] EXCEPT !.rb = b] EXCEPT !.rb_list = list]
    <3>1. Wire(s, e, in, b) = [m EXCEPT !.output_rb = outs]
      BY <1>8 DEF Wire, Pipelines, ins
    <3>2. Wire(s, e, in, b).rb_list = rs
      BY <1>8 DEF Wire, Pipelines
    <3>3. u = [[Wire(s, e, in, b) EXCEPT !.rb = b] EXCEPT !.rb_list = list]
      <4> DEFINE w == Wire(s, e, in, b)
      <4>1. w.rb_list = rs /\ u = IF c = {} THEN [[w EXCEPT !.rb = b]
                                                 EXCEPT !.rb_list = Append(@, NewRbItem(nb, e))]
                                 ELSE [w EXCEPT !.rb = b]
        BY <1>5, <1>17, <3>2
      <4>2. w \in Pipelines
        <5>1. w = [m EXCEPT !.output_rb = outs]
          BY <3>1
        <5>2. outs \in [El -> Rb \cup {Null}]
          BY <1>1, <1>6, <1>17, PipelineFields
        <5> HIDE DEF w, outs, m
        <5> QED
          BY <1>12, <5>1, <5>2 DEF Pipelines
      <4> HIDE DEF w
      <4>3. u = [[w EXCEPT !.rb = b] EXCEPT !.rb_list = list]
        BY <4>1, <4>2 DEF Pipelines
      <4> QED
        BY <4>3 DEF w
    <3> QED
      BY <3>1, <3>3
  <2>2. outs \in [El -> Rb \cup {Null}] /\ \A x \in El : outs[x] = IF x = e THEN b ELSE q.output_rb[x]
    BY <1>1, <1>6, <1>17, PipelineFields
  <2>3. CASE c = {}
    <3>1. create /\ b = nb /\ nb \in Rb \ Buffers(rs) /\ list = Append(rs, NewRbItem(nb, e))
      BY <1>9, <1>17, <2>3 DEF b, c, Creates
    <3>2. list \in Seq(RbItem) /\ Buffers(list) = Buffers(rs) \cup {nb}
      <4>1. Added(s, list, nb, e)
        BY <1>8, <3>1, ListedBuffer
      <4> QED
        BY <1>8, <3>1, <4>1 DEF Added
    <3> HIDE DEF list, outs, m, in
    <3>3. /\ u \in Pipelines /\ u.el_list = m.el_list /\ u.rb_list = list /\ u.rb = b
          /\ u.output_rb = outs /\ u.input_rb = m.input_rb
      BY <1>12, <2>1, <2>2, <3>1, <3>2 DEF Pipelines
    <3>4. Sound(old, u)
      <4>1. IsLinked(m, e) /\ b \in Rb
        BY <1>14, <3>1
      <4>2. \A x \in El : u.output_rb[x] = IF x = e THEN b ELSE m.output_rb[x]
        BY <1>12, <2>2, <3>3
      <4>3. u.rb_list = Append(m.rb_list, NewRbItem(b, e)) /\ b \notin Buffers(m.rb_list)
        BY <1>12, <3>1, <3>3
      <4> QED
        BY <1>13, <3>3, <4>1, <4>2, <4>3, NewOutputKeepsSound
    <3>5. \A x : (IsListed(u, x) <=> IsListed(m, x)) /\ (IsLinked(u, x) <=> IsLinked(m, x))
      BY <3>3 DEF IsListed, IsLinked
    <3>6. u.output_rb[e] = b /\ b # Null /\ \A x \in El : x # e => u.output_rb[x] = q.output_rb[x]
      BY <2>2, <3>1, <3>3, NullAssumption
    <3>7. Buffers(u.rb_list) = Buffers(q.rb_list) \cup {nb}
      BY <1>9, <3>2, <3>3
    <3>8. \A x \in El : u.input_rb[x] = m.input_rb[x]
      BY <3>3
    <3> QED
      BY <1>14, <1>15, <1>17, <3>1, <3>3, <3>4, <3>5, <3>6, <3>7, <3>8 DEF Relinked
  <2>4. CASE c # {}
    <3>1. ~create /\ list = rs
      BY <2>4 DEF c, Creates
    <3>2. rs \in Seq(RbItem)
      BY <1>2 DEF Found
    <3> HIDE DEF list, outs, m, in
    <3>3. /\ u \in Pipelines /\ u.el_list = m.el_list /\ u.rb_list = rs /\ u.rb = b
          /\ u.output_rb = outs /\ u.input_rb = m.input_rb
      BY <1>6, <1>12, <1>17, <2>1, <2>2, <3>1, <3>2 DEF Pipelines
    <3>4. Sound(old, u)
      <4>1. IsLinked(m, e) /\ b \in Rb
        BY <1>6, <1>14, <1>17
      <4>2. \A x \in El : u.output_rb[x] = IF x = e THEN b ELSE m.output_rb[x]
        BY <1>12, <2>2, <3>3
      <4>3. u.rb_list = m.rb_list /\ \E t \in DOMAIN m.rb_list : m.rb_list[t] = NewRbItem(b, e)
        BY <1>7, <1>12, <2>4, <3>3
      <4> QED
        BY <1>13, <3>3, <4>1, <4>2, <4>3, NewOutputKeepsSound
    <3>5. \A x : (IsListed(u, x) <=> IsListed(m, x)) /\ (IsLinked(u, x) <=> IsLinked(m, x))
      BY <3>3 DEF IsListed, IsLinked
    <3>6. u.output_rb[e] = b /\ b # Null /\ \A x \in El : x # e => u.output_rb[x] = q.output_rb[x]
      BY <1>6, <1>17, <2>2, <3>3, NullAssumption
    <3>7. Buffers(u.rb_list) = Buffers(q.rb_list)
      BY <1>9, <3>3
    <3>8. \A x \in El : u.input_rb[x] = m.input_rb[x]
      BY <3>3
    <3> QED
      BY <1>14, <1>15, <1>17, <3>1, <3>3, <3>4, <3>5, <3>6, <3>7, <3>8 DEF Relinked
  <2> QED
    BY <2>3, <2>4
<1> QED
  BY <1>16, <1>17

\* u is q after the call failed: the element is marked but not connected.
Missed(old, q, u) ==
  /\ Sound(old, u) /\ Buffers(u.rb_list) = Buffers(q.rb_list) /\ u.rb = q.rb
  /\ \A x \in El : IsListed(u, x) <=> IsListed(q, x)

\* Without memory for a buffer it returns early (lines 903 to 910).
LEMMA ElItemLinkFails ==
  ASSUME NEW old, NEW q, Sound(old, q), NEW e \in El, IsListed(q, e), NEW first, NEW last \in BOOLEAN,
         Creates(q, e, last), NEW u, u = ElItemLink(q, e, first, last, Null)
  PROVE  Missed(old, q, u)
<1> DEFINE c == Chosen(q, e)
           kept == ItemOf(q, e).kept_ctx /\ c = {}
           s == SetItem(Searched(q, e), e, TRUE, kept)
<1>1. q \in Pipelines /\ ElementsDiffer(q)
  BY DEF Sound
<1>2. PICK rs : Searched(q, e) = [q EXCEPT !.rb_list = rs] /\ Found(q, rs, e, c)
  BY <1>1, SearchedIs
<1>3. kept \in BOOLEAN
  <2>1. ItemOf(q, e) \in ElItem
    BY <1>1, ItemOfIs
  <2> QED
    BY <2>1 DEF ElItem
<1>4. u = s
  BY DEF ElItemLink, Creates
<1>5. Prepared(old, q, u, e, rs)
  <2>1. u = SetItem([q EXCEPT !.rb_list = rs], e, TRUE, kept)
    BY <1>2, <1>4
  <2> HIDE DEF s, kept, c
  <2> QED
    BY <1>2, <1>3, <2>1, SearchKeepsSound
<1>6. Buffers(u.rb_list) = Buffers(q.rb_list)
  <2>1. SameBuffers(q, u)
    BY <1>2, <1>5 DEF Found, SameBuffers, Prepared
  <2> QED
    BY <2>1, SameBuffersAre
<1> QED
  BY <1>5, <1>6 DEF Prepared, Missed


\* The values of the loop of relink, step by step.
IsRelinkLoop(loop, q, tags, k, fresh) ==
  /\ loop[0] = q
  /\ \A i \in 1..k : loop[i] = RelinkStep(loop[i - 1], tags, i, fresh)

\* The loop has such values.
LEMMA RelinkLoopRuns ==
  ASSUME NEW q, NEW tags, NEW k \in Nat, NEW fresh
  PROVE  IsRelinkLoop(RelinkLoop(q, tags, k, fresh), q, tags, k, fresh)
<1> DEFINE Step(a, i) == RelinkStep(a, tags, i, fresh)
           X == {n \in 0..k : \E f : IsRelinkLoop(f, q, tags, n, fresh)}
<1>1. 0 \in X
  <2>1. IsRelinkLoop([i \in 0..k |-> q], q, tags, 0, fresh)
    BY DEF IsRelinkLoop
  <2> QED
    BY <2>1
<1>2. ASSUME NEW n \in 1..k, n - 1 \in X
      PROVE  n \in X
  <2>1. PICK f : IsRelinkLoop(f, q, tags, n - 1, fresh)
    BY <1>2
  <2> DEFINE g == [i \in 0..k |-> IF i = n THEN Step(f[n - 1], n) ELSE f[i]]
  <2>2. g[0] = q
    <3> HIDE DEF Step
    <3> QED
      BY <2>1 DEF IsRelinkLoop
  <2>3. ASSUME NEW i \in 1..n
        PROVE  g[i] = Step(g[i - 1], i)
    <3>1. g[i - 1] = f[i - 1]
      OBVIOUS
    <3>2. CASE i = n
      BY <3>1, <3>2
    <3>3. CASE i # n
      <4>1. i \in 1..(n - 1) /\ g[i] = f[i]
        BY <3>3
      <4>2. f[i] = Step(f[i - 1], i)
        BY <2>1, <4>1 DEF IsRelinkLoop
      <4> QED
        BY <3>1, <4>1, <4>2
    <3> QED
      BY <3>2, <3>3
  <2> HIDE DEF g
  <2>4. IsRelinkLoop(g, q, tags, n, fresh)
    BY <2>2, <2>3 DEF IsRelinkLoop
  <2> QED
    BY <2>4
<1>3. PICK f : IsRelinkLoop(f, q, tags, k, fresh)
  <2> HIDE DEF X
  <2>1. k \in X
    BY <1>1, <1>2, AfterEachStep
  <2> QED
    BY <2>1 DEF X
<1> DEFINE h == [i \in 0..k |-> f[i]]
           Whole(l) == l = [i \in 0..k |-> IF i = 0 THEN q ELSE Step(l[i - 1], i)]
           loop == CHOOSE l : Whole(l)
<1>4. Whole(h)
  <2>0. \A i \in 1..k : h[i - 1] = f[i - 1]
    OBVIOUS
  <2>1. \A i \in 1..k : f[i] = Step(f[i - 1], i) /\ h[i - 1] = f[i - 1]
    BY <1>3, <2>0, Zenon DEF IsRelinkLoop
  <2> HIDE DEF Step
  <2>2. \A i \in 0..k : f[i] = IF i = 0 THEN q ELSE Step(h[i - 1], i)
    BY <1>3, <2>1 DEF IsRelinkLoop
  <2> QED
    BY <2>2
<1>5. Whole(loop)
  <2> HIDE DEF Whole, h
  <2> QED
    BY <1>4
<1>6. RelinkLoop(q, tags, k, fresh) = loop
  BY DEF RelinkLoop
<1>7. IsRelinkLoop(loop, q, tags, k, fresh)
  <2> HIDE DEF loop, Step
  <2>1. loop[0] = q /\ \A i \in 1..k : loop[i] = Step(loop[i - 1], i)
    BY <1>5
  <2> QED
    BY <2>1 DEF IsRelinkLoop, Step
<1> HIDE DEF loop
<1> QED
  BY <1>6, <1>7

\* The arguments of relink: a pipeline in which no element is linked, tags of
\* which the first k are known, and what the allocations return.
Relinkable(tags, k, f) ==
  /\ Len(tags) \in Nat /\ Len(tags) > 0 /\ k \in 0..Len(tags)
  /\ \A i \in 1..Len(tags) : tags[i] \in El
  /\ \A i, j \in 1..Len(tags) : tags[i] = tags[j] => i = j
  /\ \A i \in 1..k : IsListed(p, tags[i])
  /\ \A i \in 1..(Len(tags) - 1) : f[i] = Null \/ f[i] \in Rb \ live
  /\ \A i, j \in 1..(Len(tags) - 1) : i # j /\ f[i] = f[j] => f[i] = Null

\* The element fails to be linked.
Fails(loop, tags, f, i) == Creates(loop[i - 1], tags[i], i = Len(tags)) /\ f[i] = Null

\* After i steps: the new buffers are among the first i of f, and the next element
\* finds a buffer that is left over or in the list.
Relinking(old, a, tags, i, k, f) ==
  /\ Sound(old, a) /\ \A x \in El : IsListed(a, x) <=> IsListed(p, x)
  /\ Buffers(p.rb_list) \subseteq Buffers(a.rb_list)
  /\ Buffers(a.rb_list) \subseteq Buffers(p.rb_list) \cup {f[j] : j \in (1..i) \ {Len(tags)}}
  /\ i > 0 /\ i < k => a.rb \in Buffers(a.rb_list) \cup old \cup {Null}

\* The static variable is read by the second element if the first one failed, and
\* by a single one: what an earlier call left there is then left over.
LeftOver(old, loop, tags, k, f) ==
  (IF Len(tags) = 1 THEN k = 1 ELSE k > 1 /\ Fails(loop, tags, f, 1)) =>
    loop[0].rb \in old \cup {Null}

\* After i steps, when none failed: a chain of the first i elements.
Chaining(a, tags, i) ==
  /\ \A j \in 1..i : IsLinked(a, tags[j])
  /\ \A j \in 1..i : j # Len(tags) => a.output_rb[tags[j]] # Null
  /\ i > 0 /\ i # Len(tags) => a.rb = a.output_rb[tags[i]]
  /\ \A j \in 1..i : j # 1 => a.input_rb[tags[j]] = a.output_rb[tags[j - 1]]
  /\ \A x \in El : a.input_rb[x] # Null => \E j \in 1..i : j # 1 /\ x = tags[j]

\* What a step of the loop needs of the arguments.
LEMMA RelinkTags ==
  ASSUME NEW tags, NEW k, NEW f, Relinkable(tags, k, f), NEW i \in 1..k
  PROVE  /\ Len(tags) \in Nat /\ i \in Nat /\ k \in Nat /\ i \in 1..Len(tags)
         /\ tags[i] \in El /\ IsListed(p, tags[i])
         /\ \A j \in 1..i : tags[j] \in El /\ (tags[j] = tags[i] => j = i)
         /\ \A j \in 1..i : j # i => j \in 1..(i - 1)
BY DEF Relinkable

\* One step that links its element.
LEMMA RelinkingStep ==
  ASSUME IInv, NEW old, NEW tags, NEW k, NEW f, Relinkable(tags, k, f), NEW i \in 1..k, NEW loop,
         LeftOver(old, loop, tags, k, f), Relinking(old, loop[i - 1], tags, i - 1, k, f),
         loop[i] = RelinkStep(loop[i - 1], tags, i, f), ~Fails(loop, tags, f, i)
  PROVE  /\ Relinking(old, loop[i], tags, i, k, f)
         /\ \E first, last, create \in BOOLEAN :
              /\ first <=> i = 1
              /\ last <=> i = Len(tags)
              /\ Relinked(old, loop[i - 1], loop[i], tags[i], first, last, create, f[i])
<1> DEFINE a == loop[i - 1]
           u == loop[i]
           e == tags[i]
<1>1. /\ Len(tags) \in Nat /\ i \in Nat /\ k \in Nat /\ i \in 1..Len(tags) /\ e \in El /\ IsListed(p, e)
  BY RelinkTags
<1>2. Sound(old, a) /\ a \in Pipelines /\ IsListed(a, e)
  BY <1>1 DEF Relinking, Sound
<1>3. PICK first, last, create \in BOOLEAN :
        /\ first <=> i = 1
        /\ last <=> i = Len(tags)
        /\ create <=> Creates(a, e, last)
        /\ u = ElItemLink(a, e, first, last, f[i])
  <2>1. (i = 1) \in BOOLEAN /\ (i = Len(tags)) \in BOOLEAN
        /\ Creates(a, e, i = Len(tags)) \in BOOLEAN
    BY DEF Creates
  <2>2. u = ElItemLink(a, e, i = 1, i = Len(tags), f[i])
    BY DEF RelinkStep
  <2> HIDE DEF u, e
  <2> QED
    BY <2>1, <2>2
<1>4. create => i \in 1..(Len(tags) - 1) /\ f[i] # Null /\ ~last
  BY <1>1, <1>3 DEF Fails, Creates
<1>5. create => f[i] \in Rb \ Buffers(a.rb_list)
  <2> SUFFICES ASSUME create
               PROVE  f[i] \in Rb \ Buffers(a.rb_list)
    OBVIOUS
  <2>1. f[i] \in Rb \ live
    BY <1>4 DEF Relinkable
  <2>2. \A j \in (1..(i - 1)) \ {Len(tags)} : f[j] # f[i]
    <3>1. \A j \in (1..(i - 1)) \ {Len(tags)} : j \in 1..(Len(tags) - 1) /\ j # i
      BY <1>1
    <3> QED
      BY <1>4, <3>1 DEF Relinkable
  <2> QED
    BY <2>1, <2>2 DEF Relinking, IInv
<1>6. (first /\ ~last) \/ a.rb \in Buffers(a.rb_list) \cup old \cup {Null}
  <2>1. CASE i = 1
    <3>1. last => Len(tags) = 1 /\ k = 1 /\ i - 1 = 0
      BY <1>1, <1>3, <2>1 DEF Relinkable
    <3>2. last => a.rb \in old \cup {Null}
      BY <3>1 DEF LeftOver
    <3> QED
      BY <1>3, <2>1, <3>2
  <2>2. CASE i # 1
    <3>1. i - 1 > 0 /\ i - 1 < k
      BY <1>1, <2>2
    <3> QED
      BY <3>1 DEF Relinking
  <2> QED
    BY <2>1, <2>2
<1> HIDE DEF a, u, e
<1>7. Relinked(old, a, u, e, first, last, create, f[i])
  BY <1>1, <1>2, <1>3, <1>5, <1>6, ElItemLinkIs
<1>8. Sound(old, u) /\ \A x \in El : IsListed(u, x) <=> IsListed(p, x)
  BY <1>7 DEF Relinked, Relinking, a
<1>9. /\ Buffers(p.rb_list) \subseteq Buffers(u.rb_list)
      /\ Buffers(u.rb_list) \subseteq Buffers(p.rb_list) \cup {f[j] : j \in (1..i) \ {Len(tags)}}
  <2>1. /\ \A j \in (1..(i - 1)) \ {Len(tags)} : j \in (1..i) \ {Len(tags)}
        /\ create => i \in (1..i) \ {Len(tags)}
    BY <1>1, <1>4
  <2>2. Buffers(u.rb_list) = Buffers(a.rb_list) \cup (IF create THEN {f[i]} ELSE {})
    BY <1>7 DEF Relinked
  <2>3. /\ Buffers(p.rb_list) \subseteq Buffers(a.rb_list)
        /\ Buffers(a.rb_list) \subseteq Buffers(p.rb_list) \cup {f[j] : j \in (1..(i - 1)) \ {Len(tags)}}
    BY DEF Relinking, a
  <2> QED
    BY <2>1, <2>2, <2>3
<1>10. i > 0 /\ i < k => u.rb \in Buffers(u.rb_list) \cup old \cup {Null}
  <2> SUFFICES ASSUME i < k
               PROVE  u.rb \in Buffers(u.rb_list)
    OBVIOUS
  <2>1. ~last
    BY <1>1, <1>3 DEF Relinkable
  <2>2. u.output_rb[e] # Null /\ u.rb = u.output_rb[e]
    BY <1>7, <2>1 DEF Relinked
  <2> QED
    BY <1>1, <1>8, <2>2 DEF Sound, Outputs, Buffers
<1>11. Relinking(old, u, tags, i, k, f)
  BY <1>8, <1>9, <1>10 DEF Relinking
<1> QED
  BY <1>3, <1>7, <1>11 DEF a, u, e

\* One step that fails.
LEMMA MissingStep ==
  ASSUME NEW old, NEW tags, NEW k, NEW f, Relinkable(tags, k, f), NEW i \in 1..k, NEW loop,
         LeftOver(old, loop, tags, k, f), Relinking(old, loop[i - 1], tags, i - 1, k, f),
         loop[i] = RelinkStep(loop[i - 1], tags, i, f), Fails(loop, tags, f, i)
  PROVE  Relinking(old, loop[i], tags, i, k, f)
<1> DEFINE a == loop[i - 1]
           u == loop[i]
           e == tags[i]
<1>1. /\ Len(tags) \in Nat /\ i \in Nat /\ k \in Nat /\ i \in 1..Len(tags) /\ e \in El /\ IsListed(p, e)
  BY RelinkTags
<1>2. Sound(old, a) /\ IsListed(a, e)
  BY <1>1 DEF Relinking
<1>3. PICK last \in BOOLEAN : /\ last <=> i = Len(tags)
                              /\ Creates(a, e, last) /\ u = ElItemLink(a, e, i = 1, last, Null)
  <2>1. (i = Len(tags)) \in BOOLEAN /\ Creates(a, e, i = Len(tags))
        /\ u = ElItemLink(a, e, i = 1, i = Len(tags), Null)
    BY DEF Fails, RelinkStep
  <2> HIDE DEF u, e, a
  <2> QED
    BY <2>1
<1> HIDE DEF a, u, e
<1>4. Missed(old, a, u)
  BY <1>1, <1>2, <1>3, ElItemLinkFails
<1>5. i > 0 /\ i < k => u.rb \in Buffers(u.rb_list) \cup old \cup {Null}
  <2>1. CASE i = 1 /\ i < k
    <3>1. Len(tags) # 1 /\ k > 1
      BY <1>1, <2>1 DEF Relinkable
    <3>2. a.rb \in old \cup {Null}
      BY <2>1, <3>1 DEF LeftOver, a
    <3> QED
      BY <1>4, <3>2 DEF Missed
  <2>2. CASE i # 1 /\ i < k
    <3>1. i - 1 > 0 /\ i - 1 < k
      BY <1>1, <2>2
    <3>2. a.rb \in Buffers(a.rb_list) \cup old \cup {Null}
      BY <3>1 DEF Relinking, a
    <3> QED
      BY <1>4, <3>2 DEF Missed
  <2> QED
    BY <2>1, <2>2
<1>6. \A j \in (1..(i - 1)) \ {Len(tags)} : j \in (1..i) \ {Len(tags)}
  BY <1>1
<1>7. /\ Sound(old, u) /\ \A x \in El : IsListed(u, x) <=> IsListed(p, x)
      /\ Buffers(u.rb_list) = Buffers(a.rb_list)
  BY <1>4 DEF Missed, Relinking, a
<1>8. /\ Buffers(p.rb_list) \subseteq Buffers(a.rb_list)
      /\ Buffers(a.rb_list) \subseteq Buffers(p.rb_list) \cup {f[j] : j \in (1..(i - 1)) \ {Len(tags)}}
  BY DEF Relinking, a
<1>9. Relinking(old, u, tags, i, k, f)
  BY <1>5, <1>6, <1>7, <1>8 DEF Relinking
<1> QED
  BY <1>9 DEF u

\* The chain grows by an element that is linked.
LEMMA ChainingStep ==
  ASSUME NEW old, NEW tags, NEW k, NEW f, Relinkable(tags, k, f), NEW i \in 1..k,
         NEW a, Chaining(a, tags, i - 1), NEW u, NEW nb, NEW first, NEW last, NEW create,
         first <=> i = 1, last <=> i = Len(tags),
         Relinked(old, a, u, tags[i], first, last, create, nb), i = 1 => ~last
  PROVE  Chaining(u, tags, i)
<1> DEFINE e == tags[i]
<1>1. /\ Len(tags) \in Nat /\ i \in 1..Len(tags) /\ i \in Nat /\ e \in El
      /\ \A j \in 1..i : tags[j] \in El /\ (tags[j] = e => j = i)
  BY RelinkTags
<1>2. \A j \in 1..i : j # i => tags[j] \in El /\ tags[j] # e /\ j \in 1..(i - 1)
  BY <1>1
<1>3. i # 1 => /\ i - 1 \in 1..i /\ i - 1 # Len(tags) /\ tags[i - 1] \in El
               /\ a.rb = a.output_rb[tags[i - 1]]
  <2>1. i # 1 => i - 1 \in 1..i /\ i - 1 > 0 /\ i - 1 # Len(tags)
    BY <1>1
  <2> QED
    BY <1>1, <2>1 DEF Chaining
<1> HIDE DEF e
<1>4. /\ \A x \in El : IsLinked(u, x) <=> (x = e \/ IsLinked(a, x))
      /\ \A x \in El : u.input_rb[x] = IF x # e \/ (first /\ ~last) THEN a.input_rb[x] ELSE a.rb
      /\ \A x \in El : x # e => u.output_rb[x] = a.output_rb[x]
      /\ ~last => u.output_rb[e] # Null /\ u.rb = u.output_rb[e]
  BY DEF Relinked, e
<1>5. \A j \in 1..i : IsLinked(u, tags[j])
  BY <1>1, <1>2, <1>4 DEF Chaining, e
<1>6. ASSUME NEW j \in 1..i, j # Len(tags)
      PROVE  u.output_rb[tags[j]] # Null
  <2>1. CASE j = i
    BY <1>4, <1>6, <2>1 DEF e
  <2>2. CASE j # i
    BY <1>2, <1>4, <1>6, <2>2 DEF Chaining
  <2> QED
    BY <2>1, <2>2
<1>7. i > 0 /\ i # Len(tags) => u.rb = u.output_rb[tags[i]]
  BY <1>4 DEF e
<1>8. ASSUME NEW j \in 1..i, j # 1
      PROVE  u.input_rb[tags[j]] = u.output_rb[tags[j - 1]]
  <2>1. j - 1 \in 1..i /\ j - 1 # i
    BY <1>1, <1>8
  <2>2. u.output_rb[tags[j - 1]] = a.output_rb[tags[j - 1]]
    BY <1>2, <1>4, <2>1
  <2>3. CASE j = i
    BY <1>1, <1>3, <1>4, <1>8, <2>2, <2>3 DEF e
  <2>4. CASE j # i
    <3>1. u.input_rb[tags[j]] = a.input_rb[tags[j]]
      BY <1>2, <1>4, <2>4
    <3>2. a.input_rb[tags[j]] = a.output_rb[tags[j - 1]]
      BY <1>2, <1>8, <2>4 DEF Chaining
    <3> QED
      BY <2>2, <3>1, <3>2
  <2> QED
    BY <2>3, <2>4
<1>9. ASSUME NEW x \in El, u.input_rb[x] # Null
      PROVE  \E j \in 1..i : j # 1 /\ x = tags[j]
  <2>1. CASE x = e /\ i # 1
    BY <1>1, <2>1 DEF e
  <2>2. CASE x # e \/ i = 1
    <3>1. a.input_rb[x] # Null
      BY <1>4, <1>9, <2>2
    <3>2. PICK j \in 1..(i - 1) : j # 1 /\ x = tags[j]
      BY <3>1 DEF Chaining
    <3>3. j \in 1..i
      BY <1>1
    <3> QED
      BY <3>2, <3>3
  <2> QED
    BY <2>1, <2>2
<1> QED
  BY <1>5, <1>6, <1>7, <1>8, <1>9 DEF Chaining

\* All of the loop: sound in any case, and a chain if no step failed.
LEMMA RelinkLoopLinks ==
  ASSUME IInv, \A x \in El : ~IsLinked(p, x), NEW tags, NEW k, NEW f, Relinkable(tags, k, f),
         NEW old, stale \subseteq old, NEW left \in Rb \cup {Null}, NEW q, q = [p EXCEPT !.rb = left],
         NEW loop, IsRelinkLoop(loop, q, tags, k, f), LeftOver(old, loop, tags, k, f)
  PROVE  /\ Relinking(old, loop[k], tags, k, k, f)
         /\ Len(tags) > 1 /\ (\A i \in 1..k : ~Fails(loop, tags, f, i)) => Chaining(loop[k], tags, k)
<1>1. k \in Nat /\ loop[0] = q /\ \A i \in 1..k : loop[i] = RelinkStep(loop[i - 1], tags, i, f)
  BY DEF Relinkable, IsRelinkLoop
<1>2. Sound(stale, p) /\ p \in Pipelines
  BY DEF IInv, Sound
<1>3. Same(p, q)
  <2>1. PICK R : R = Rb \cup {Null}
    OBVIOUS
  <2>2. left \in R /\ Pipelines
        = [el_list : Seq(ElItem), rb_list : Seq(RbItem), linked : BOOLEAN,
           input_rb : [El -> R], output_rb : [El -> R], rb : R]
    BY <2>1 DEF Pipelines
  <2> QED
    BY <1>2, <2>2 DEF Same
<1>4. /\ Sound(old, q) /\ Buffers(q.rb_list) = Buffers(p.rb_list)
      /\ \A x \in El : IsListed(q, x) <=> IsListed(p, x)
      /\ \A x \in El : q.input_rb[x] = Null
  <2>1. Sound(old, p)
    BY <1>2, SoundWithMore
  <2>2. \A x \in El : p.input_rb[x] = Null
    BY <1>2 DEF Sound, Inputs
  <2> QED
    BY <1>3, <2>1, <2>2, SameIsSound DEF Same
<1> DEFINE X == {i \in 0..k : Relinking(old, loop[i], tags, i, k, f)}
           Y == {i \in 0..k : Chaining(loop[i], tags, i)}
<1>5. 0 \in X
  <2>1. Relinking(old, q, tags, 0, k, f)
    BY <1>4 DEF Relinking
  <2> QED
    BY <1>1, <2>1
<1>6. ASSUME NEW i \in 1..k, i - 1 \in X
      PROVE  i \in X
  <2>1. Relinking(old, loop[i], tags, i, k, f)
    <3>1. CASE Fails(loop, tags, f, i)
      BY <1>1, <1>6, <3>1, MissingStep
    <3>2. CASE ~Fails(loop, tags, f, i)
      BY <1>1, <1>6, <3>2, RelinkingStep
    <3> QED
      BY <3>1, <3>2
  <2> QED
    BY <1>1, <2>1
<1>7. \A i \in 0..k : i \in X
  <2> HIDE DEF X
  <2> QED
    BY <1>1, <1>5, <1>6, AfterEachStep
<1>8. ASSUME Len(tags) > 1, \A i \in 1..k : ~Fails(loop, tags, f, i)
      PROVE  Chaining(loop[k], tags, k)
  <2>1. 0 \in Y
    <3>1. \A j : j \notin 1..0
      OBVIOUS
    <3>2. Chaining(q, tags, 0)
      BY <1>4, <3>1 DEF Chaining
    <3> QED
      BY <1>1, <3>2
  <2>2. ASSUME NEW i \in 1..k, i - 1 \in Y
        PROVE  i \in Y
    <3>1. Relinking(old, loop[i - 1], tags, i - 1, k, f)
      <4>1. i - 1 \in 0..k
        BY <1>1
      <4>2. i - 1 \in X
        BY <1>7, <4>1, Zenon
      <4> QED
        BY <4>2
    <3>2. PICK first, last, create \in BOOLEAN :
            /\ first <=> i = 1
            /\ last <=> i = Len(tags)
            /\ Relinked(old, loop[i - 1], loop[i], tags[i], first, last, create, f[i])
      BY <1>1, <1>8, <3>1, RelinkingStep
    <3>3. i = 1 => ~last
      <4>1. Len(tags) # 1
        BY <1>8 DEF Relinkable
      <4> QED
        BY <3>2, <4>1
    <3>4. Chaining(loop[i - 1], tags, i - 1)
      BY <2>2
    <3>5. Chaining(loop[i], tags, i)
      BY <3>2, <3>3, <3>4, ChainingStep
    <3> QED
      BY <1>1, <3>5
  <2>3. k \in Y
    <3> HIDE DEF Y
    <3>1. \A i \in 0..k : i \in Y
      BY <1>1, <2>1, <2>2, AfterEachStep
    <3> QED
      BY <1>1, <3>1
  <2> QED
    BY <2>3
<1> QED
  BY <1>1, <1>7, <1>8

\* When all tags are known the elements are one chain.
LEMMA ChainingChains ==
  ASSUME NEW old, NEW tags \in Chains, NEW a, Sound(old, a), Len(tags) # 1,
         Chaining(a, tags, Len(tags))
  PROVE  Chained(old, a, tags)
<1> DEFINE n == Len(tags)
<1>1. /\ tags \in Seq(El) /\ n \in Nat /\ n > 1 /\ DOMAIN tags = 1..n
      /\ \A i \in 1..n : tags[i] \in El
      /\ \A i, j \in 1..n : tags[i] = tags[j] => i = j
  <2>1. n \in Nat /\ n > 0
    BY ChainsAre
  <2>2. n > 1
    BY <2>1
  <2> QED
    BY <2>2, ChainsAre
<1>2. ASSUME NEW i \in 1..(n - 1)
      PROVE  Feeds(old, a, tags, i)
  <2>0. \A m \in Nat : \A j \in 1..(m - 1) :
          j \in 1..m /\ j # m /\ j + 1 \in 1..m /\ j + 1 # 1 /\ (j + 1) - 1 = j
    OBVIOUS
  <2>1. i \in 1..n /\ i # n /\ i + 1 \in 1..n /\ i + 1 # 1 /\ (i + 1) - 1 = i
    BY <1>1, <2>0, Zenon
  <2>2. a.output_rb[tags[i]] # Null
    BY <2>1 DEF Chaining
  <2>3. a.input_rb[tags[i + 1]] = a.output_rb[tags[i]]
    <3>1. a.input_rb[tags[i + 1]] = a.output_rb[tags[(i + 1) - 1]]
      BY <2>1, Zenon DEF Chaining
    <3> QED
      BY <2>1, <3>1
  <2>4. ASSUME NEW x \in El, a.input_rb[x] = a.output_rb[tags[i]]
        PROVE  x = tags[i + 1]
    <3>1. PICK j \in 1..n : j # 1 /\ x = tags[j]
      BY <2>2, <2>4 DEF Chaining
    <3>0. \A m \in Nat : \A l \in 1..m : l # 1 => l - 1 \in 1..m
      OBVIOUS
    <3>2. j - 1 \in 1..n /\ tags[j - 1] \in El /\ tags[i] \in El
      BY <1>1, <2>1, <3>0, <3>1, Zenon
    <3>3. a.output_rb[tags[j - 1]] = a.output_rb[tags[i]]
      BY <2>4, <3>1 DEF Chaining
    <3>4. tags[j - 1] = tags[i]
      BY <2>2, <3>2, <3>3, OneWriter
    <3>5. j - 1 = i
      BY <1>1, <2>1, <3>2, <3>4
    <3> QED
      BY <2>1, <3>1, <3>5
  <2> QED
    BY <2>2, <2>3, <2>4 DEF Feeds
<1>3. \A i \in 1..n : IsLinked(a, tags[i])
  BY DEF Chaining
<1> QED
  BY <1>1, <1>2, <1>3 DEF Chained

\* audio_pipeline_relink.
LEMMA RelinkKeepsIInv ==
  ASSUME IInv, NEW tags \in Chains, NEW k \in 0..Len(tags), Relink(tags, k)
  PROVE  IInv'
<1> DEFINE n == Len(tags)
           Loop(f, left) == RelinkLoop([p EXCEPT !.rb = left], tags, k, f)
           Failed(l, f) == {i \in 1..k : Fails(l, tags, f, i)}
<1>1. PICK f \in Allocations(n - 1) : \E left \in Left(n = 1 \/ f[1] = Null) :
        LET loop == Loop(f, left)
        IN  /\ p' = [loop[k] EXCEPT !.linked = (k = n), !.rb = Null]
            /\ live' = live \cup Buffers(loop[k].rb_list)
            /\ chain' = IF k = n /\ k > 1 /\ Failed(loop, f) = {} THEN tags ELSE <<>>
            /\ stale' = stale \cup Used(left, IF n = 1 THEN k = 1 ELSE k > 1 /\ 1 \in Failed(loop, f))
  BY DEF Relink, Fails
<1>2. PICK left \in Left(n = 1 \/ f[1] = Null) :
        LET loop == Loop(f, left)
        IN  /\ p' = [loop[k] EXCEPT !.linked = (k = n), !.rb = Null]
            /\ live' = live \cup Buffers(loop[k].rb_list)
            /\ chain' = IF k = n /\ k > 1 /\ Failed(loop, f) = {} THEN tags ELSE <<>>
            /\ stale' = stale \cup Used(left, IF n = 1 THEN k = 1 ELSE k > 1 /\ 1 \in Failed(loop, f))
  BY <1>1
<1> DEFINE loop == Loop(f, left)
           q == loop[k]
<1>3. /\ p' = [q EXCEPT !.linked = (k = n), !.rb = Null]
      /\ live' = live \cup Buffers(q.rb_list)
      /\ chain' = IF k = n /\ k > 1 /\ Failed(loop, f) = {} THEN tags ELSE <<>>
      /\ stale' = stale \cup Used(left, IF n = 1 THEN k = 1 ELSE k > 1 /\ 1 \in Failed(loop, f))
  BY <1>2
<1>4. /\ n \in Nat /\ n > 0 /\ k \in Nat
      /\ \A i \in 1..n : tags[i] \in El
      /\ \A i, j \in 1..n : tags[i] = tags[j] => i = j
  BY ChainsAre
<1>5. Relinkable(tags, k, f)
  <2>1. \A i \in 1..k : IsListed(p, tags[i])
    BY RegisteredIs DEF Relink, Registered
  <2>2. /\ \A i \in 1..(n - 1) : f[i] = Null \/ f[i] \in Rb \ live
        /\ \A i, j \in 1..(n - 1) : i # j /\ f[i] = f[j] => f[i] = Null
    BY DEF Allocations
  <2> QED
    BY <1>4, <2>1, <2>2 DEF Relinkable
<1>6. left \in Rb \cup {Null}
  BY DEF Left
<1>7. IsRelinkLoop(loop, [p EXCEPT !.rb = left], tags, k, f)
  BY <1>4, RelinkLoopRuns
<1>8. \A x \in El : ~IsLinked(p, x)
  BY DEF Relink, IsLinked
<1> HIDE DEF loop
<1>9. loop[0].rb = left
  <2>1. p \in Pipelines
    BY DEF IInv, Sound
  <2> QED
    BY <1>7, <2>1 DEF IsRelinkLoop, Pipelines
<1>10. LeftOver(stale', loop, tags, k, f) /\ stale \subseteq stale'
  <2>1. stale \subseteq stale'
    BY <1>3
  <2>2. ASSUME IF n = 1 THEN k = 1 ELSE k > 1 /\ Fails(loop, tags, f, 1)
        PROVE  left \in stale' \cup {Null}
    <3>1. 1 \in 1..k /\ (n # 1 => 1 \in Failed(loop, f))
      BY <1>4, <2>2
    <3> QED
      BY <1>3, <2>2, <3>1 DEF Used
  <2> QED
    BY <1>9, <2>1, <2>2 DEF LeftOver
<1>11. /\ Relinking(stale', q, tags, k, k, f)
       /\ n > 1 /\ Failed(loop, f) = {} => Chaining(q, tags, k)
  <2>1. Failed(loop, f) = {} => \A i \in 1..k : ~Fails(loop, tags, f, i)
    OBVIOUS
  <2> HIDE DEF Failed
  <2> QED
    BY <1>5, <1>6, <1>7, <1>8, <1>10, <2>1, RelinkLoopLinks
<1> HIDE DEF q
<1>12. Sound(stale', q) /\ q \in Pipelines
  BY <1>11 DEF Relinking, Sound
<1>13. Same(q, p')
  <2>1. PICK l \in BOOLEAN, nothing \in Rb \cup {Null} :
          p' = [q EXCEPT !.linked = l, !.rb = nothing]
    BY <1>3
  <2> QED
    BY <1>12, <2>1, EndOfLoop
<1>14. Sound(stale', p') /\ Buffers(p'.rb_list) = Buffers(q.rb_list)
  BY <1>12, <1>13, SameIsSound
<1>15. Chained(stale', p', chain')
  <2>1. CASE k = n /\ k > 1 /\ Failed(loop, f) = {}
    <3>1. chain' = tags
      BY <1>3, <2>1
    <3>2. n > 1 /\ n # 1 /\ Chaining(q, tags, n)
      BY <1>4, <1>11, <2>1
    <3>3. Chained(stale', q, tags)
      BY <1>12, <3>2, ChainingChains
    <3> QED
      BY <1>12, <1>13, <3>1, <3>3, SameIsChained
  <2>2. CASE ~(k = n /\ k > 1 /\ Failed(loop, f) = {})
    <3>1. chain' = <<>>
      BY <1>3, <2>2
    <3> QED
      BY <3>1, NoChain
  <2> QED
    BY <2>1, <2>2
<1>16. Buffers(p.rb_list) \subseteq Buffers(q.rb_list)
  BY <1>11 DEF Relinking
<1> QED
  BY <1>3, <1>14, <1>15, <1>16 DEF IInv


-----------------------------------------------------------------------------
(* The theorems. *)

\* Every action preserves the invariant.
LEMMA NextKeepsIInv ==
  ASSUME IInv, [Next]_vars
  PROVE  IInv'
<1>1. ASSUME NEW e \in El, Register(e)
      PROVE  IInv'
  BY <1>1, RegisterKeepsIInv
<1>2. ASSUME NEW e \in El, RegisterMore(e)
      PROVE  IInv'
  BY <1>2, RegisterMoreKeepsIInv
<1>3. ASSUME NEW e \in El, Unregister(e) \/ UnregisterMore(e)
      PROVE  IInv'
  BY <1>3, UnregisterKeepsIInv
<1>4. ASSUME NEW e \in El, ResetKeptState(e)
      PROVE  IInv'
  BY <1>4, ResetKeptStateKeepsIInv
<1>5. CASE Unlink
  BY <1>5, UnlinkKeepsIInv
<1>6. CASE Deinit
  BY <1>6, DeinitKeepsIInv
<1>7. ASSUME NEW tags \in Chains, Link(tags)
      PROVE  IInv'
  BY <1>7, LinkKeepsIInv
<1>8. ASSUME NEW tags \in Chains, LinkFails(tags)
      PROVE  IInv'
  <2>1. ASSUME NEW k \in 0..(Len(tags) - 1), LinkUnknownTag(tags, k)
        PROVE  IInv'
    BY <2>1, LinkUnknownTagKeepsIInv
  <2>2. ASSUME NEW k \in 0..(Len(tags) - 2), LinkNoMemory(tags, k)
        PROVE  IInv'
    BY <2>2, LinkNoMemoryKeepsIInv
  <2>3. /\ Len(tags) - 1 \in 0..(Len(tags) - 1)
        /\ Len(tags) > 1 => Len(tags) - 2 \in 0..(Len(tags) - 2)
    BY <1>8, ChainsAre
  <2> QED
    BY <1>8, <2>1, <2>2, <2>3 DEF LinkFails
<1>9. ASSUME NEW tags \in Chains, NEW k \in {Len(tags) - 1, Len(tags)}, Relink(tags, k)
      PROVE  IInv'
  <2>1. k \in 0..Len(tags)
    BY <1>9, ChainsAre
  <2> QED
    BY <1>9, <2>1, RelinkKeepsIInv
<1>10. ASSUME NEW k \in El \cup {Null}, NEW W \in SUBSET {e \in El : p.output_rb[e] # Null},
              BreakupElements(k, W)
       PROVE  IInv'
  BY <1>10, BreakupKeepsIInv
<1>11. ASSUME NEW e \in El, NEW f \in El, LinkInsert(e, f)
       PROVE  IInv'
  BY <1>11, LinkInsertKeepsIInv
<1>12. CASE UNCHANGED vars
  <2>1. p' = p /\ live' = live /\ chain' = chain /\ stale' = stale
    BY <1>12 DEF vars
  <2> QED
    BY <2>1 DEF IInv
<1> QED
  BY <1>1, <1>2, <1>3, <1>4, <1>5, <1>6, <1>7, <1>8, <1>9, <1>10, <1>11, <1>12 DEF Next

\* The lists and the connections of a pipeline are in every state as the next
\* call to audio_pipeline.c needs them, also when allocations in link and relink
\* fail, the latter unnoticed (audio_pipeline.c:970, :1012), and calls use what an
\* earlier one left in a static variable.
THEOREM LinkInvariance == Spec => []IInv
BY InitIInv, NextKeepsIInv, PTL DEF Spec

\* The invariant leaves no element of the list with a destroyed buffer.
LEMMA NothingDangles ==
  ASSUME IInv
  PROVE  NoDangling
<1>1. \A e \in El : /\ p.input_rb[e] # Null => p.input_rb[e] \in Buffers(p.rb_list) \cup stale
                    /\ p.output_rb[e] # Null => p.output_rb[e] \in Buffers(p.rb_list)
  BY DEF IInv, Sound, Inputs, Outputs, Buffers
<1>2. \A i \in DOMAIN p.el_list : p.el_list[i].el \in El
  <2>1. p.el_list \in Seq(ElItem)
    BY PipelineFields DEF IInv, Sound
  <2>2. \A it \in ElItem : it.el \in El
    BY DEF ElItem
  <2> QED
    BY <2>1, <2>2
<1>3. Buffers(p.rb_list) \subseteq live
  BY DEF IInv
<1> QED
  BY <1>1, <1>2, <1>3 DEF NoDangling

\* No element of the list is left with a buffer that unlink or deinit destroyed
\* (audio_pipeline_unlink), but for an input taken from a static variable as an
\* earlier call had left it: such an input is in `stale', whether the buffer
\* still exists or not.
THEOREM NoDanglingHolds == Spec => []NoDangling
BY LinkInvariance, NothingDangles, PTL

\* A kept element that is not linked again has a buffer that is marked as kept.
LEMMA KeptHasItsBuffer ==
  ASSUME IInv
  PROVE  KeptIsHeld
<1> SUFFICES ASSUME NEW i \in DOMAIN p.el_list, ~p.el_list[i].linked,
                    p.output_rb[p.el_list[i].el] # Null
             PROVE  LET e == p.el_list[i].el
                    IN  /\ \E j \in DOMAIN p.rb_list :
                             /\ p.rb_list[j].rb = p.output_rb[e]
                             /\ p.rb_list[j].host_el = e /\ p.rb_list[j].kept_ctx
                        /\ {f \in El : Registered(f) /\ p.output_rb[f] = p.output_rb[e]} = {e}
  BY DEF KeptIsHeld
<1> DEFINE e == p.el_list[i].el
<1>1. Sound(stale, p) /\ ElementsDiffer(p)
  BY DEF IInv, Sound
<1>2. e \in El /\ Registered(e) /\ ~IsLinked(p, e)
  <2>1. p.el_list \in Seq(ElItem)
    BY PipelineFields DEF IInv, Sound
  <2>2. \A it \in ElItem : it.el \in El
    BY DEF ElItem
  <2>3. IsListed(p, e)
    BY DEF IsListed
  <2>4. ~IsLinked(p, e)
    BY <1>1 DEF IsLinked, ElementsDiffer
  <2> QED
    BY <2>1, <2>2, <2>3, <2>4, RegisteredIs DEF Registered
<1> HIDE DEF e
<1>3. p.output_rb[e] # Null
  BY DEF e
<1>4. \E j \in DOMAIN p.rb_list :
        p.rb_list[j].rb = p.output_rb[e] /\ p.rb_list[j].host_el = e /\ p.rb_list[j].kept_ctx
  BY <1>1, <1>2, <1>3 DEF Sound, Outputs, Owned
<1>5. \A f \in El : p.output_rb[f] = p.output_rb[e] => f = e
  BY <1>1, <1>2, <1>3, OneWriter
<1>6. {f \in El : Registered(f) /\ p.output_rb[f] = p.output_rb[e]} = {e}
  BY <1>2, <1>5
<1> QED
  BY <1>4, <1>6 DEF e

\* An element that breakup kept holds on to its buffer, and no relink of other
\* elements takes it (audio_pipeline_breakup_elements, _el_item_link).
THEOREM KeptIsHeldHolds == Spec => []KeptIsHeld
BY LinkInvariance, KeptHasItsBuffer, PTL

\* The invariant makes a linked pipeline one chain.
LEMMA ChainConnects ==
  ASSUME IInv
  PROVE  ChainIsConnected
<1> SUFFICES ASSUME stale = {}, NEW i \in 1..(Len(chain) - 1)
             PROVE  LET r == p.output_rb[chain[i]]
                    IN  /\ r \in live /\ r = p.input_rb[chain[i + 1]]
                        /\ {e \in El : Registered(e) /\ p.output_rb[e] = r} = {chain[i]}
                        /\ {e \in El : Registered(e) /\ p.input_rb[e] = r} = {chain[i + 1]}
  BY DEF ChainIsConnected
<1> DEFINE x == chain[i]
           y == chain[i + 1]
           r == p.output_rb[x]
<1>1. Sound(stale, p) /\ Chained(stale, p, chain) /\ Buffers(p.rb_list) \subseteq live
  BY DEF IInv
<1>2. x \in El /\ y \in El /\ IsLinked(p, x) /\ IsLinked(p, y)
  <2>1. chain \in Seq(El) /\ Len(chain) \in Nat /\ DOMAIN chain = 1..Len(chain)
    BY <1>1 DEF Chained
  <2>2. i \in DOMAIN chain /\ i + 1 \in DOMAIN chain
    BY <2>1
  <2> QED
    BY <1>1, <2>1, <2>2 DEF Chained
<1>3. r # Null /\ r = p.input_rb[y] /\ \A e \in El : p.input_rb[e] = r => e = y
  BY <1>1 DEF Chained, Feeds
<1> HIDE DEF x, y
<1>4. Registered(x) /\ Registered(y)
  <2>1. IsListed(p, x) /\ IsListed(p, y)
    BY <1>2 DEF IsListed, IsLinked
  <2> QED
    BY <2>1, RegisteredIs DEF Registered
<1>5. r \in live
  BY <1>1, <1>2, <1>3 DEF Sound, Outputs, Buffers
<1>6. {e \in El : Registered(e) /\ p.output_rb[e] = r} = {x}
  BY <1>1, <1>2, <1>3, <1>4, OneWriter
<1>7. {e \in El : Registered(e) /\ p.input_rb[e] = r} = {y}
  BY <1>2, <1>3, <1>4
<1> QED
  BY <1>3, <1>5, <1>6, <1>7 DEF x, y

\* After a link or relink that allocated what it needed each element feeds the
\* next one, through a buffer with one writer and one reader (audio_pipeline_link,
\* _relink), as long as no left-over buffer is in use.  A relink that lacked memory
\* reports success with a broken chain; `chain' is empty then.
THEOREM ChainIsConnectedHolds == Spec => []ChainIsConnected
BY LinkInvariance, ChainConnects, PTL

\* The invariant lists every buffer once.
LEMMA NothingLeaks ==
  ASSUME IInv, ~MayAbandon
  PROVE  NoLeak
<1> DEFINE n == Len(p.rb_list)
           f == [i \in 1..n |-> p.rb_list[i].rb]
<1>1. n \in Nat /\ DOMAIN p.rb_list = 1..n
  <2>1. p.rb_list \in Seq(RbItem)
    BY PipelineFields DEF IInv, Sound
  <2> QED
    BY <2>1
<1>2. live = Buffers(p.rb_list)
  BY DEF IInv
<1>3. f \in Bijection(1..n, live)
  <2>1. f \in [1..n -> live] /\ \A b \in live : \E i \in 1..n : f[i] = b
    BY <1>1, <1>2 DEF Buffers
  <2>2. \A i, j \in 1..n : f[i] = f[j] => i = j
    BY <1>1 DEF IInv, Sound, BuffersDiffer
  <2> QED
    BY <2>1, <2>2 DEF Bijection, Injection, Surjection, IsInjective
<1>4. Cardinality(live) = n
  BY <1>1, <1>3, FS_CountingElements DEF ExistsBijection
<1> QED
  BY <1>2, <1>4 DEF NoLeak

\* Every buffer is in the list once, so that unlink or deinit destroys it, unless
\* a pipeline that is not linked is given up (audio_pipeline_deinit).
THEOREM NoLeakHolds ==
  ASSUME ~MayAbandon
  PROVE  Spec => []NoLeak
<1>1. IInv => NoLeak
  BY NothingLeaks
<1> QED
  BY <1>1, LinkInvariance, PTL
=============================================================================
