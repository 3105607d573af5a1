------------------------ MODULE SubscriptionsProofs ------------------------
(***************************************************************************)
(* Proofs about Subscriptions, and about the traversal of links that it    *)
(* rests on, for every sequence of trees that a server may serve.          *)
(***************************************************************************)
EXTENDS Subscriptions, SequenceFacts

-----------------------------------------------------------------------------
(* What the traversal finds. *)
FoundT ==
  {link \in [href : Nat \ {0}, kind : Kinds, rate : PollRates] : Named(link.kind, link.href)}

-----------------------------------------------------------------------------
(* What is found within a set of hrefs. *)

Within(found, hrefs) == \A link \in Range(found) : link.href \in hrefs

(* What is found in one half or the other is found in the whole. *)
LEMMA WithinConcat ==
  ASSUME NEW s \in Seq(FoundT), NEW t \in Seq(FoundT), NEW hrefs
  PROVE  /\ s \o t \in Seq(FoundT)
         /\ Within(s \o t, hrefs) <=> Within(s, hrefs) /\ Within(t, hrefs)
<1>1. s \o t \in Seq(FoundT) /\ Range(s \o t) = Range(s) \cup Range(t)
  BY Concat
<1>2. QED
  BY <1>1, Zenon DEF Within

(* The same, for sequences that are made of two each. *)
LEMMA JoinedWithin ==
  ASSUME NEW s \in Seq(FoundT), NEW t \in Seq(FoundT)
  PROVE  \E all \in Seq(FoundT) :
           all = s \o t /\ \A hrefs : Within(all, hrefs) <=> Within(s, hrefs) /\ Within(t, hrefs)
<1>1. PICK all : all = s \o t
  OBVIOUS
<1>2. all \in Seq(FoundT)
  BY <1>1
<1>3. ASSUME NEW hrefs
      PROVE  Within(all, hrefs) <=> Within(s, hrefs) /\ Within(t, hrefs)
  BY <1>1, WithinConcat
<1>4. QED
  BY <1>1, <1>2, <1>3, Zenon

(* The same, for any number of sequences. *)
LEMMA WithinFlatten ==
  ASSUME NEW ss \in Seq(Seq(FoundT)), NEW hrefs
  PROVE  /\ FlattenSeq(ss) \in Seq(FoundT)
         /\ Within(FlattenSeq(ss), hrefs) <=> \A i \in DOMAIN ss : Within(ss[i], hrefs)
<1>1. FlattenSeq(ss) \in Seq(FoundT)
  BY Flatten
<1>2. \A x : x \in Range(FlattenSeq(ss)) <=> \E i \in DOMAIN ss : x \in Range(ss[i])
  BY FlattenMember
<1>3. QED
  BY <1>1, <1>2, Zenon DEF Within

(* The forms that the traversal is written in: what follows from each of a *)
(* sequence of n.                                                          *)
LEMMA EachFollows ==
  ASSUME NEW n \in Nat, NEW f, f = [i \in 1 .. n |-> f[i]],
         \A i \in 1 .. n : f[i] \in Seq(FoundT), NEW hrefs
  PROVE  /\ FlattenSeq(f) \in Seq(FoundT)
         /\ Within(FlattenSeq(f), hrefs) <=> \A i \in 1 .. n : Within(f[i], hrefs)
<1>1. f \in Seq(Seq(FoundT)) /\ DOMAIN f = 1 .. n
  BY MadeOf
<1>2. QED
  BY <1>1, WithinFlatten

(* A resource that is named is a link that is found. *)
LEMMA ResourceLinkType ==
  ASSUME NEW kind \in Kinds, NEW href \in Nat \ {0}, NEW rate \in PollRates, Named(kind, href),
         NEW hrefs
  PROVE  /\ ResourceLink(href, kind, rate) \in Seq(FoundT)
         /\ Within(ResourceLink(href, kind, rate), hrefs) <=> href \in hrefs
<1> DEFINE link == [href |-> href, kind |-> kind, rate |-> rate]
<1>1. link \in FoundT /\ link.href = href
  BY DEF FoundT
<1>2. ResourceLink(href, kind, rate) = <<link>>
  BY DEF ResourceLink
<1> HIDE DEF link
<1>3. <<link>> \in Seq(FoundT) /\ Range(<<link>>) = {link}
  BY <1>1, RangeOne
<1>4. QED
  BY <1>1, <1>2, <1>3, Zenon DEF Within

(* The links of a kind are links, and of that kind. *)
LEMMA LinksOfType ==
  ASSUME NEW links \in Seq(LinkT), NEW kind
  PROVE  LinksOf(links, kind) \in Seq({link \in LinkT : link.kind = kind})
<1> DEFINE X == {link \in LinkT : link.kind = kind}
           f == [i \in DOMAIN links |-> IF links[i].kind = kind THEN <<links[i]>> ELSE <<>>]
<1>1. Len(links) \in Nat /\ DOMAIN links = 1 .. Len(links) /\ \A i \in 1 .. Len(links) : links[i] \in LinkT
  OBVIOUS
<1>2. \A i \in 1 .. Len(links) : f[i] \in Seq(X)
  <2> TAKE i \in 1 .. Len(links)
  <2>1. CASE links[i].kind = kind
    <3>1. links[i] \in X /\ f[i] = <<links[i]>>
      BY <1>1, <2>1
    <3> HIDE DEF X, f
    <3>2. QED
      BY <3>1
  <2>2. CASE links[i].kind # kind
    <3>1. f[i] = <<>>
      BY <1>1, <2>2
    <3> HIDE DEF X, f
    <3>2. QED
      BY <3>1
  <2>3. QED
    BY <2>1, <2>2
<1>3. f = [i \in 1 .. Len(links) |-> f[i]]
  BY <1>1
<1>4. LinksOf(links, kind) = FlattenSeq(f)
  BY DEF LinksOf
<1> HIDE DEF X, f
<1>5. f \in Seq(Seq(X))
  BY <1>1, <1>2, <1>3, MadeOf
<1>6. LinksOf(links, kind) \in Seq(X)
  BY <1>4, <1>5, Flatten
<1>7. QED
  BY <1>6 DEF X

(* What is known of a list, or that nothing is. *)
LEMMA ListType ==
  ASSUME NEW m, ModelOK(m), NEW kind \in LinkedKinds, NEW href \in Nat
  PROVE  List(m, kind, href) \in ListT
<1>1. CASE <<kind, href>> \in DOMAIN m.lists
  BY <1>1 DEF List, ModelOK, ListsOK
<1>2. CASE <<kind, href>> \notin DOMAIN m.lists
  <2>1. NoRate \in PollRates /\ <<>> \in Seq(STRING)
    BY DEF PollRates
  <2>2. QED
    BY <1>2, <2>1 DEF List, ListT
<1>3. QED
  BY <1>1, <1>2

(* The items of a list that are known are items of its kind. *)
LEMMA ListItemsType ==
  ASSUME NEW m, ModelOK(m), NEW kind \in ListKinds, NEW ids \in Seq(STRING)
  PROVE  /\ ListItems(m, kind, ids) \in Seq(ItemT(ItemKind(kind)))
         /\ \A i \in DOMAIN ids :
              LET key == <<ItemKind(kind), ids[i]>>
              IN key \in DOMAIN m.items => m.items[key] \in Range(ListItems(m, kind, ids))
<1> DEFINE k == ItemKind(kind)
           X == ItemT(k)
           f == [i \in DOMAIN ids |->
                   IF <<k, ids[i]>> \in DOMAIN m.items THEN <<m.items[<<k, ids[i]>>]>> ELSE <<>>]
<1>1. Len(ids) \in Nat /\ DOMAIN ids = 1 .. Len(ids) /\ \A i \in 1 .. Len(ids) : ids[i] \in STRING
  OBVIOUS
<1>2. k \in ItemKinds
  BY DEF ItemKinds
<1>3. ListItems(m, kind, ids) = FlattenSeq(f)
  BY DEF ListItems
<1> HIDE DEF k
<1>4. \A i \in 1 .. Len(ids) : <<k, ids[i]>> \in DOMAIN m.items => m.items[<<k, ids[i]>>] \in X
  BY <1>1, <1>2 DEF ModelOK, ItemsOK
<1>5. \A i \in 1 .. Len(ids) :
        /\ f[i] \in Seq(X)
        /\ <<k, ids[i]>> \in DOMAIN m.items => m.items[<<k, ids[i]>>] \in Range(f[i])
  <2> TAKE i \in 1 .. Len(ids)
  <2>1. CASE <<k, ids[i]>> \in DOMAIN m.items
    <3>1. PICK item \in X : item = m.items[<<k, ids[i]>>]
      BY <1>4, <2>1
    <3>2. f[i] = <<item>>
      BY <1>1, <2>1, <3>1
    <3> HIDE DEF X, f
    <3>3. <<item>> \in Seq(X) /\ Range(<<item>>) = {item}
      BY RangeOne
    <3>4. QED
      BY <3>1, <3>2, <3>3
  <2>2. CASE <<k, ids[i]>> \notin DOMAIN m.items
    <3>1. f[i] = <<>>
      BY <1>1, <2>2
    <3> HIDE DEF X, f
    <3>2. QED
      BY <2>2, <3>1
  <2>3. QED
    BY <2>1, <2>2
<1>6. f = [i \in 1 .. Len(ids) |-> f[i]]
  BY <1>1
<1> HIDE DEF X, f
<1>7. f \in Seq(Seq(X)) /\ DOMAIN f = DOMAIN ids
  BY <1>1, <1>5, <1>6, MadeOf
<1>8. FlattenSeq(f) \in Seq(X)
  BY <1>7, Flatten
<1>9. \A x : x \in Range(FlattenSeq(f)) <=> \E i \in DOMAIN f : x \in Range(f[i])
  BY <1>7, FlattenMember
<1>10. \A i \in DOMAIN ids :
         <<k, ids[i]>> \in DOMAIN m.items => m.items[<<k, ids[i]>>] \in Range(FlattenSeq(f))
  BY <1>1, <1>5, <1>7, <1>9, Zenon
<1>11. QED
  BY <1>3, <1>8, <1>10 DEF X, k

(* list_links finds links, where those below the items are links. *)
LEMMA ListLinksType ==
  ASSUME NEW kind \in ListKinds, NEW href \in Nat \ {0}, Named(kind, href), NEW rate \in PollRates,
         NEW items \in Seq(ItemT(ItemKind(kind))),
         NEW below, \A i \in DOMAIN items : below[i] \in Seq(FoundT), NEW hrefs
  PROVE  /\ ListLinks(href, kind, rate, items, below) \in Seq(FoundT)
         /\ Within(ListLinks(href, kind, rate, items, below), hrefs) <=>
              /\ href \in hrefs
              /\ \A i \in DOMAIN items : items[i].href \in hrefs /\ Within(below[i], hrefs)
<1> DEFINE own == ResourceLink(href, kind, rate)
           One(i) == ResourceLink(items[i].href, ItemKind(kind), rate)
           f == [i \in DOMAIN items |-> One(i) \o below[i]]
<1>1. kind \in Kinds /\ ItemKind(kind) \in Kinds
  BY DEF Kinds, ItemKinds, LinkedKinds
<1>2. own \in Seq(FoundT) /\ (Within(own, hrefs) <=> href \in hrefs)
  BY <1>1, ResourceLinkType
<1>3. /\ Len(items) \in Nat /\ DOMAIN items = 1 .. Len(items)
      /\ \A i \in 1 .. Len(items) : items[i] \in ItemT(ItemKind(kind))
  OBVIOUS
<1>4. \A i \in 1 .. Len(items) : items[i].href \in Nat \ {0} /\ Named(ItemKind(kind), items[i].href)
  BY <1>3 DEF ItemT
<1>5. ASSUME NEW i \in 1 .. Len(items)
      PROVE  /\ f[i] \in Seq(FoundT)
             /\ Within(f[i], hrefs) <=> items[i].href \in hrefs /\ Within(below[i], hrefs)
  <2>1. One(i) \in Seq(FoundT) /\ (Within(One(i), hrefs) <=> items[i].href \in hrefs)
    BY <1>1, <1>4, ResourceLinkType
  <2>2. below[i] \in Seq(FoundT)
    BY <1>3
  <2>3. f[i] = One(i) \o below[i]
    BY <1>3
  <2> HIDE DEF f, One
  <2>4. One(i) \o below[i] \in Seq(FoundT)
        /\ (Within(One(i) \o below[i], hrefs) <=> Within(One(i), hrefs) /\ Within(below[i], hrefs))
    BY <2>1, <2>2, WithinConcat
  <2>5. QED
    BY <2>1, <2>3, <2>4
<1>6. f = [i \in 1 .. Len(items) |-> f[i]]
  BY <1>3
<1>7. ListLinks(href, kind, rate, items, below) = own \o FlattenSeq(f)
  BY DEF ListLinks
<1> HIDE DEF own, One, f
<1>8. FlattenSeq(f) \in Seq(FoundT)
      /\ (Within(FlattenSeq(f), hrefs) <=> \A i \in 1 .. Len(items) : Within(f[i], hrefs))
  BY <1>3, <1>5, <1>6, EachFollows
<1>9. PICK all \in Seq(FoundT) : all = FlattenSeq(f)
  BY <1>8
<1>10. own \o all \in Seq(FoundT)
       /\ (Within(own \o all, hrefs) <=> Within(own, hrefs) /\ Within(all, hrefs))
  BY <1>2, WithinConcat
<1>11. Within(own \o all, hrefs) <=>
         href \in hrefs /\ \A i \in DOMAIN items : items[i].href \in hrefs /\ Within(below[i], hrefs)
  BY <1>2, <1>3, <1>5, <1>8, <1>9, <1>10, Zenon
<1>12. QED
  BY <1>7, <1>9, <1>10, <1>11

-----------------------------------------------------------------------------
(* What is dropped from a model, for any links. *)

(* drop_untracked_resources, field by field. *)
LEMMA Dropped ==
  ASSUME NEW m, ModelOK(m), NEW links
  PROVE  /\ Drop(m, links).dcap = m.dcap /\ Drop(m, links).time = m.time /\ Drop(m, links).edl = m.edl
         /\ Drop(m, links).mupl = (IF m.mupl.href \in DOMAIN links THEN m.mupl ELSE NoList)
         /\ Drop(m, links).lists =
              [key \in {k \in DOMAIN m.lists : k[2] \in DOMAIN links} |-> m.lists[key]]
         /\ Drop(m, links).items =
              [key \in {k \in DOMAIN m.items : m.items[k].href \in DOMAIN links} |-> m.items[key]]
         /\ Drop(m, links) = [dcap |-> Drop(m, links).dcap, time |-> Drop(m, links).time,
                              edl |-> Drop(m, links).edl, mupl |-> Drop(m, links).mupl,
                              lists |-> Drop(m, links).lists, items |-> Drop(m, links).items]
<1>1. PICK a, b, c, e, f, g :
        m = [dcap |-> a, time |-> b, edl |-> c, mupl |-> e, lists |-> f, items |-> g]
  BY DEF ModelOK
<1>2. m.dcap = a /\ m.time = b /\ m.edl = c /\ m.mupl = e /\ m.lists = f /\ m.items = g
  BY <1>1
<1>3. PICK newLists : newLists = Restrict(m.lists, {key \in DOMAIN m.lists : key[2] \in DOMAIN links})
  OBVIOUS
<1>4. PICK newMupl : newMupl = IF m.mupl.href \in DOMAIN links THEN m.mupl ELSE NoList
  OBVIOUS
<1>5. PICK newItems :
        newItems = Restrict(m.items, {key \in DOMAIN m.items : m.items[key].href \in DOMAIN links})
  OBVIOUS
<1>6. Drop(m, links) = [m EXCEPT !.lists = newLists, !.mupl = newMupl, !.items = newItems]
  BY <1>3, <1>4, <1>5, Zenon DEF Drop
<1>7. Drop(m, links) = [dcap |-> a, time |-> b, edl |-> c, mupl |-> newMupl, lists |-> newLists,
                        items |-> newItems]
  BY <1>1, <1>6
<1>8. /\ newLists = [key \in {k \in DOMAIN m.lists : k[2] \in DOMAIN links} |-> m.lists[key]]
      /\ newItems = [key \in {k \in DOMAIN m.items : m.items[k].href \in DOMAIN links} |-> m.items[key]]
  BY <1>3, <1>5, Zenon DEF Restrict
<1>9. PICK d : d = Drop(m, links)
  OBVIOUS
<1>10. d.dcap = a /\ d.time = b /\ d.edl = c /\ d.mupl = newMupl /\ d.lists = newLists /\ d.items = newItems
  BY <1>7, <1>9
<1>11. d = [dcap |-> d.dcap, time |-> d.time, edl |-> d.edl, mupl |-> d.mupl,
            lists |-> d.lists, items |-> d.items]
  BY <1>7, <1>9, <1>10, Zenon
<1>12. QED
  BY <1>2, <1>4, <1>8, <1>9, <1>10, <1>11, Zenon

(* The fields that are not tables. *)
LEMMA DroppedOnes ==
  ASSUME NEW m, ModelOK(m), NEW links, NEW d, d = Drop(m, links)
  PROVE  /\ d.dcap = m.dcap /\ d.time = m.time /\ d.edl = m.edl
         /\ m.mupl.href \in DOMAIN links => d.mupl = m.mupl
         /\ m.mupl.href \notin DOMAIN links => d.mupl = NoList
<1>1. /\ d.dcap = m.dcap /\ d.time = m.time /\ d.edl = m.edl
      /\ d.mupl = IF m.mupl.href \in DOMAIN links THEN m.mupl ELSE NoList
      /\ d.lists = [key \in {k \in DOMAIN m.lists : k[2] \in DOMAIN links} |-> m.lists[key]]
      /\ d.items = [key \in {k \in DOMAIN m.items : m.items[k].href \in DOMAIN links} |-> m.items[key]]
      /\ d = [dcap |-> d.dcap, time |-> d.time, edl |-> d.edl, mupl |-> d.mupl,
              lists |-> d.lists, items |-> d.items]
  BY Dropped
<1>2. QED
  BY <1>1, Zenon

(* What is left is a model. *)
LEMMA DropType ==
  ASSUME NEW m, ModelOK(m), NEW links
  PROVE  ModelOK(Drop(m, links))
<1> DEFINE d == Drop(m, links)
<1>1. /\ d.dcap = m.dcap /\ d.time = m.time /\ d.edl = m.edl
      /\ d.mupl = IF m.mupl.href \in DOMAIN links THEN m.mupl ELSE NoList
      /\ d.lists = [key \in {k \in DOMAIN m.lists : k[2] \in DOMAIN links} |-> m.lists[key]]
      /\ d.items = [key \in {k \in DOMAIN m.items : m.items[k].href \in DOMAIN links} |-> m.items[key]]
      /\ d = [dcap |-> d.dcap, time |-> d.time, edl |-> d.edl, mupl |-> d.mupl,
              lists |-> d.lists, items |-> d.items]
  BY Dropped
<1> HIDE DEF d
<1>2. OneOK(d.mupl, "MirrorUsagePointList")
  <2>1. NoList \in [href : Nat, rate : PollRates, ids : Seq(STRING)]
    BY DEF NoList, PollRates
  <2>2. QED
    BY <1>1, <2>1 DEF ModelOK, OneOK
<1>3. ListsOK(d.lists)
  BY <1>1 DEF ModelOK, ListsOK
<1>4. ItemsOK(d.items)
  BY <1>1 DEF ModelOK, ItemsOK
<1>5. d.dcap \in Seq(LinkT) /\ d.time \in PollRates /\ OneOK(d.edl, "EndDeviceList")
  BY <1>1 DEF ModelOK
<1>6. ModelOK(d)
  BY <1>1, <1>2, <1>3, <1>4, <1>5, Zenon DEF ModelOK
<1>7. QED
  BY <1>6 DEF d

(* What is dropped twice by the same links is what is dropped once. *)
LEMMA DropIdempotent ==
  ASSUME NEW m, ModelOK(m), NEW links
  PROVE  Drop(Drop(m, links), links) = Drop(m, links)
<1>1. PICK d : d = Drop(m, links)
  OBVIOUS
<1>2. ModelOK(d)
  BY <1>1, DropType
<1>3. PICK e : e = Drop(d, links)
  OBVIOUS
<1>4. /\ d.mupl = IF m.mupl.href \in DOMAIN links THEN m.mupl ELSE NoList
      /\ d.lists = [key \in {k \in DOMAIN m.lists : k[2] \in DOMAIN links} |-> m.lists[key]]
      /\ d.items = [key \in {k \in DOMAIN m.items : m.items[k].href \in DOMAIN links} |-> m.items[key]]
      /\ d = [dcap |-> d.dcap, time |-> d.time, edl |-> d.edl, mupl |-> d.mupl,
              lists |-> d.lists, items |-> d.items]
  BY <1>1, Dropped
<1>5. /\ e.dcap = d.dcap /\ e.time = d.time /\ e.edl = d.edl
      /\ e.mupl = IF d.mupl.href \in DOMAIN links THEN d.mupl ELSE NoList
      /\ e.lists = [key \in {k \in DOMAIN d.lists : k[2] \in DOMAIN links} |-> d.lists[key]]
      /\ e.items = [key \in {k \in DOMAIN d.items : d.items[k].href \in DOMAIN links} |-> d.items[key]]
      /\ e = [dcap |-> e.dcap, time |-> e.time, edl |-> e.edl, mupl |-> e.mupl,
              lists |-> e.lists, items |-> e.items]
  BY <1>2, <1>3, Dropped
<1>6. e.mupl = d.mupl
  BY <1>4, <1>5
<1>7. e.lists = d.lists
  BY <1>4, <1>5
<1>8. e.items = d.items
  <2>1. \A k \in DOMAIN d.items : d.items[k].href \in DOMAIN links
    BY <1>4
  <2>2. DOMAIN e.items = DOMAIN d.items
    BY <1>5, <2>1
  <2>3. \A k \in DOMAIN d.items : e.items[k] = d.items[k]
    BY <1>5, <2>1
  <2>4. /\ e.items = [k \in DOMAIN e.items |-> e.items[k]]
        /\ d.items = [k \in DOMAIN d.items |-> d.items[k]]
    BY <1>4, <1>5
  <2>5. QED
    BY <2>2, <2>3, <2>4
<1>9. e = d
  BY <1>4, <1>5, <1>6, <1>7, <1>8, Zenon
<1>10. QED
  BY <1>1, <1>3, <1>9

(* A list that is linked is kept. *)
LEMMA KeptList ==
  ASSUME NEW m, ModelOK(m), NEW links, NEW kind, NEW href, href \in DOMAIN links
  PROVE  List(Drop(m, links), kind, href) = List(m, kind, href)
<1>1. PICK d : d = Drop(m, links)
  OBVIOUS
<1>2. d.lists = [key \in {k \in DOMAIN m.lists : k[2] \in DOMAIN links} |-> m.lists[key]]
  BY <1>1, Dropped
<1>3. <<kind, href>> \in DOMAIN d.lists <=> <<kind, href>> \in DOMAIN m.lists
  BY <1>2
<1>4. <<kind, href>> \in DOMAIN d.lists => d.lists[<<kind, href>>] = m.lists[<<kind, href>>]
  BY <1>2
<1>5. List(d, kind, href) = List(m, kind, href)
  BY <1>3, <1>4 DEF List
<1>6. QED
  BY <1>1, <1>5

(* The items of a list are kept where each is linked. *)
LEMMA KeptItems ==
  ASSUME NEW m, ModelOK(m), NEW links, NEW kind \in ListKinds, NEW ids \in Seq(STRING),
         \A i \in DOMAIN ListItems(m, kind, ids) : ListItems(m, kind, ids)[i].href \in DOMAIN links
  PROVE  ListItems(Drop(m, links), kind, ids) = ListItems(m, kind, ids)
<1>1. PICK d : d = Drop(m, links)
  OBVIOUS
<1>2. d.items = [key \in {k \in DOMAIN m.items : m.items[k].href \in DOMAIN links} |-> m.items[key]]
  BY <1>1, Dropped
<1> DEFINE k == ItemKind(kind)
<1>3. \A i \in DOMAIN ids : <<k, ids[i]>> \in DOMAIN m.items =>
        m.items[<<k, ids[i]>>] \in Range(ListItems(m, kind, ids))
  BY ListItemsType
<1>4. \A x \in Range(ListItems(m, kind, ids)) : x.href \in DOMAIN links
  BY DEF Range
<1>5. \A i \in DOMAIN ids : <<k, ids[i]>> \in DOMAIN m.items =>
        m.items[<<k, ids[i]>>].href \in DOMAIN links
  BY <1>3, <1>4, Zenon
<1>6. [i \in DOMAIN ids |->
         IF <<k, ids[i]>> \in DOMAIN d.items THEN <<d.items[<<k, ids[i]>>]>> ELSE <<>>] =
      [i \in DOMAIN ids |->
         IF <<k, ids[i]>> \in DOMAIN m.items THEN <<m.items[<<k, ids[i]>>]>> ELSE <<>>]
  <2> HIDE DEF k
  <2>1. ASSUME NEW i \in DOMAIN ids
        PROVE  (IF <<k, ids[i]>> \in DOMAIN d.items THEN <<d.items[<<k, ids[i]>>]>> ELSE <<>>) =
               (IF <<k, ids[i]>> \in DOMAIN m.items THEN <<m.items[<<k, ids[i]>>]>> ELSE <<>>)
    <3>1. <<k, ids[i]>> \in DOMAIN d.items <=> <<k, ids[i]>> \in DOMAIN m.items
      BY <1>2, <1>5
    <3>2. <<k, ids[i]>> \in DOMAIN d.items => d.items[<<k, ids[i]>>] = m.items[<<k, ids[i]>>]
      BY <1>2
    <3>3. QED
      BY <3>1, <3>2, Zenon
  <2>2. QED
    BY <2>1, Zenon
<1>7. ListItems(d, kind, ids) = ListItems(m, kind, ids)
  BY <1>6, Zenon DEF ListItems
<1>8. QED
  BY <1>1, <1>7

-----------------------------------------------------------------------------
(* The traversal, from its leaves: what each level finds has its type, and *)
(* a model that drops none of what a level finds finds the same.           *)

(* Links that are followed no further. *)
LEMMA LeafLinksType ==
  ASSUME NEW links \in Seq(LinkT), NEW rate \in PollRates, NEW hrefs
  PROVE  /\ LeafLinks(links, rate) \in Seq(FoundT)
         /\ Within(LeafLinks(links, rate), hrefs) <=> \A i \in DOMAIN links : links[i].href \in hrefs
<1> DEFINE f == [i \in DOMAIN links |-> ResourceLink(links[i].href, links[i].kind, rate)]
<1>1. /\ Len(links) \in Nat /\ DOMAIN links = 1 .. Len(links)
      /\ \A i \in 1 .. Len(links) : links[i] \in LinkT
  OBVIOUS
<1>2. \A i \in 1 .. Len(links) :
        /\ links[i].kind \in Kinds /\ links[i].href \in Nat \ {0}
        /\ Named(links[i].kind, links[i].href)
  BY <1>1 DEF LinkT, Kinds
<1>3. \A i \in 1 .. Len(links) :
        f[i] \in Seq(FoundT) /\ (Within(f[i], hrefs) <=> links[i].href \in hrefs)
  BY <1>1, <1>2, ResourceLinkType
<1>4. f = [i \in 1 .. Len(links) |-> f[i]]
  BY <1>1
<1>5. LeafLinks(links, rate) = FlattenSeq(f)
  BY DEF LeafLinks
<1> HIDE DEF f
<1>6. FlattenSeq(f) \in Seq(FoundT)
      /\ (Within(FlattenSeq(f), hrefs) <=> \A i \in 1 .. Len(links) : Within(f[i], hrefs))
  BY <1>1, <1>3, <1>4, EachFollows
<1>7. QED
  BY <1>1, <1>3, <1>5, <1>6, Zenon

(* The traversal of each level finds links, and finds the same in what is *)
(* left when what it found is kept.                                       *)
LEMMA LeafListTraversal ==
  ASSUME NEW m, ModelOK(m), NEW rate \in PollRates,
         NEW link \in LinkT, link.kind \in {"DERControlList", "DERCurveList"}
  PROVE  /\ LeafListLinks(m, rate, link) \in Seq(FoundT)
         /\ \A links : Within(LeafListLinks(m, rate, link), DOMAIN links) =>
              LeafListLinks(Drop(m, links), rate, link) = LeafListLinks(m, rate, link)
<1>1. PICK kind, href : kind = link.kind /\ href = link.href
  OBVIOUS
<1>2. kind \in ListKinds /\ kind \in LinkedKinds /\ href \in Nat \ {0} /\ Named(kind, href)
  BY <1>1 DEF LinkT, ListKinds
<1>3. PICK list \in ListT : list = List(m, kind, href)
  BY <1>2, ListType
<1>4. list.ids \in Seq(STRING)
  BY DEF ListT
<1>5. PICK items \in Seq(ItemT(ItemKind(kind))) : items = ListItems(m, kind, list.ids)
  BY <1>2, <1>4, ListItemsType
<1>6. PICK below : below = [i \in DOMAIN items |-> <<>>]
  OBVIOUS
<1>7. \A i \in DOMAIN items : below[i] \in Seq(FoundT)
  BY <1>6
<1>8. LeafListLinks(m, rate, link) = ListLinks(href, kind, rate, items, below)
  BY <1>1, <1>3, <1>5, <1>6, Zenon DEF LeafListLinks
<1>9. \A hrefs :
        /\ ListLinks(href, kind, rate, items, below) \in Seq(FoundT)
        /\ Within(ListLinks(href, kind, rate, items, below), hrefs) <=>
             /\ href \in hrefs
             /\ \A i \in DOMAIN items : items[i].href \in hrefs /\ Within(below[i], hrefs)
  BY <1>2, <1>7, ListLinksType
<1>10. ASSUME NEW links, Within(LeafListLinks(m, rate, link), DOMAIN links)
       PROVE  LeafListLinks(Drop(m, links), rate, link) = LeafListLinks(m, rate, link)
  <2>1. href \in DOMAIN links /\ \A i \in DOMAIN items : items[i].href \in DOMAIN links
    BY <1>8, <1>9, <1>10, Zenon
  <2>2. List(Drop(m, links), kind, href) = list
    BY <1>3, <2>1, KeptList
  <2>3. ListItems(Drop(m, links), kind, list.ids) = items
    BY <1>2, <1>4, <1>5, <2>1, KeptItems
  <2>4. LeafListLinks(Drop(m, links), rate, link) = ListLinks(href, kind, rate, items, below)
    BY <1>1, <1>6, <2>2, <2>3, Zenon DEF LeafListLinks
  <2>5. QED
    BY <1>8, <2>4
<1>11. QED
  BY <1>8, <1>9, <1>10, Zenon

(* The same, of a sequence of lists. *)
LEMMA LeafListsTraversal ==
  ASSUME NEW m, ModelOK(m), NEW rate \in PollRates, NEW kind \in {"DERControlList", "DERCurveList"},
         NEW below \in Seq({link \in LinkT : link.kind = kind})
  PROVE  /\ LeafListsLinks(m, rate, below) \in Seq(FoundT)
         /\ \A links : Within(LeafListsLinks(m, rate, below), DOMAIN links) =>
              LeafListsLinks(Drop(m, links), rate, below) = LeafListsLinks(m, rate, below)
<1>1. /\ Len(below) \in Nat /\ DOMAIN below = 1 .. Len(below)
      /\ \A i \in 1 .. Len(below) : below[i] \in LinkT /\ below[i].kind \in {"DERControlList", "DERCurveList"}
  OBVIOUS
<1>2. \A i \in 1 .. Len(below) :
        /\ LeafListLinks(m, rate, below[i]) \in Seq(FoundT)
        /\ \A links : Within(LeafListLinks(m, rate, below[i]), DOMAIN links) =>
             LeafListLinks(Drop(m, links), rate, below[i]) = LeafListLinks(m, rate, below[i])
  BY <1>1, LeafListTraversal
<1>3. PICK f : f = [i \in 1 .. Len(below) |-> LeafListLinks(m, rate, below[i])]
  OBVIOUS
<1>4. LeafListsLinks(m, rate, below) = FlattenSeq(f)
  BY <1>1, <1>3, Zenon DEF LeafListsLinks
<1>5. f = [i \in 1 .. Len(below) |-> f[i]]
      /\ \A i \in 1 .. Len(below) : f[i] = LeafListLinks(m, rate, below[i])
  BY <1>3
<1>6. \A i \in 1 .. Len(below) : f[i] \in Seq(FoundT)
  BY <1>2, <1>5
<1>7. \A hrefs :
        /\ FlattenSeq(f) \in Seq(FoundT)
        /\ Within(FlattenSeq(f), hrefs) <=> \A i \in 1 .. Len(below) : Within(f[i], hrefs)
  BY <1>1, <1>5, <1>6, EachFollows
<1>8. ASSUME NEW links, Within(LeafListsLinks(m, rate, below), DOMAIN links)
      PROVE  LeafListsLinks(Drop(m, links), rate, below) = LeafListsLinks(m, rate, below)
  <2>1. \A i \in 1 .. Len(below) :
          LeafListLinks(Drop(m, links), rate, below[i]) = LeafListLinks(m, rate, below[i])
    BY <1>2, <1>4, <1>5, <1>7, <1>8, Zenon
  <2>2. [i \in DOMAIN below |-> LeafListLinks(Drop(m, links), rate, below[i])] = f
    BY <1>1, <1>3, <2>1, Zenon
  <2>3. QED
    BY <1>4, <2>2, Zenon DEF LeafListsLinks
<1>9. QED
  BY <1>4, <1>7, <1>8, Zenon

(* The same, below a DERProgram. *)
LEMMA DERProgramTraversal ==
  ASSUME NEW m, ModelOK(m), NEW rate \in PollRates, NEW program, program.links \in Seq(LinkT)
  PROVE  /\ DERProgramLinks(m, rate, program) \in Seq(FoundT)
         /\ \A links : Within(DERProgramLinks(m, rate, program), DOMAIN links) =>
              DERProgramLinks(Drop(m, links), rate, program) = DERProgramLinks(m, rate, program)
<1>1. PICK ders, controls, curves :
        /\ ders = LinksOf(program.links, "DefaultDERControl")
        /\ controls = LinksOf(program.links, "DERControlList")
        /\ curves = LinksOf(program.links, "DERCurveList")
  OBVIOUS
<1>2. ders \in Seq(LinkT)
  <2>1. ders \in Seq({link \in LinkT : link.kind = "DefaultDERControl"})
    BY <1>1, LinksOfType
  <2>2. QED
    BY <2>1
<1>3. controls \in Seq({link \in LinkT : link.kind = "DERControlList"})
  BY <1>1, LinksOfType
<1>4. curves \in Seq({link \in LinkT : link.kind = "DERCurveList"})
  BY <1>1, LinksOfType
<1>5. PICK a \in Seq(FoundT) : a = LeafLinks(ders, rate)
  BY <1>2, LeafLinksType
<1>6. /\ LeafListsLinks(m, rate, controls) \in Seq(FoundT)
      /\ \A links : Within(LeafListsLinks(m, rate, controls), DOMAIN links) =>
           LeafListsLinks(Drop(m, links), rate, controls) = LeafListsLinks(m, rate, controls)
  BY <1>3, LeafListsTraversal
<1>7. /\ LeafListsLinks(m, rate, curves) \in Seq(FoundT)
      /\ \A links : Within(LeafListsLinks(m, rate, curves), DOMAIN links) =>
           LeafListsLinks(Drop(m, links), rate, curves) = LeafListsLinks(m, rate, curves)
  BY <1>4, LeafListsTraversal
<1>8. PICK b \in Seq(FoundT) : b = LeafListsLinks(m, rate, controls)
  BY <1>6
<1>9. PICK c \in Seq(FoundT) : c = LeafListsLinks(m, rate, curves)
  BY <1>7
<1>10. DERProgramLinks(m, rate, program) = (a \o b) \o c
  BY <1>1, <1>5, <1>8, <1>9, Zenon DEF DERProgramLinks
<1>11. PICK ab \in Seq(FoundT) :
         ab = a \o b /\ \A hrefs : Within(ab, hrefs) <=> Within(a, hrefs) /\ Within(b, hrefs)
  BY JoinedWithin
<1>12. PICK abc \in Seq(FoundT) :
         abc = ab \o c /\ \A hrefs : Within(abc, hrefs) <=> Within(ab, hrefs) /\ Within(c, hrefs)
  BY JoinedWithin
<1>13. DERProgramLinks(m, rate, program) = abc
  BY <1>10, <1>11, <1>12, Zenon
<1>14. ASSUME NEW links, Within(abc, DOMAIN links)
       PROVE  DERProgramLinks(Drop(m, links), rate, program) = abc
  <2>1. LeafListsLinks(Drop(m, links), rate, controls) = b
    BY <1>6, <1>8, <1>11, <1>12, <1>14, Zenon
  <2>2. LeafListsLinks(Drop(m, links), rate, curves) = c
    BY <1>7, <1>9, <1>11, <1>12, <1>14, Zenon
  <2>3. DERProgramLinks(Drop(m, links), rate, program) = (a \o b) \o c
    BY <1>1, <1>5, <2>1, <2>2, Zenon DEF DERProgramLinks
  <2>4. QED
    BY <1>10, <1>13, <2>3, Zenon
<1>15. QED
  BY <1>13, <1>14, Zenon

(* The same, of a DERProgramList. *)
LEMMA DERProgramListTraversal ==
  ASSUME NEW m, ModelOK(m), NEW link \in LinkT, link.kind = "DERProgramList"
  PROVE  /\ DERProgramListLinks(m, link) \in Seq(FoundT)
         /\ \A links : Within(DERProgramListLinks(m, link), DOMAIN links) =>
              DERProgramListLinks(Drop(m, links), link) = DERProgramListLinks(m, link)
<1>1. PICK kind, href : kind = link.kind /\ href = link.href
  OBVIOUS
<1>2. kind \in ListKinds /\ kind \in LinkedKinds /\ href \in Nat \ {0} /\ Named(kind, href)
  BY <1>1 DEF LinkT, ListKinds
<1>3. PICK list \in ListT : list = List(m, kind, href)
  BY <1>2, ListType
<1>4. list.ids \in Seq(STRING) /\ list.rate \in PollRates
  BY DEF ListT
<1>5. PICK items \in Seq(ItemT(ItemKind(kind))) : items = ListItems(m, kind, list.ids)
  BY <1>2, <1>4, ListItemsType
<1>6. \A i \in DOMAIN items : items[i].links \in Seq(LinkT)
  BY DEF ItemT
<1>7. \A i \in DOMAIN items :
        /\ DERProgramLinks(m, list.rate, items[i]) \in Seq(FoundT)
        /\ \A links : Within(DERProgramLinks(m, list.rate, items[i]), DOMAIN links) =>
             DERProgramLinks(Drop(m, links), list.rate, items[i]) = DERProgramLinks(m, list.rate, items[i])
  BY <1>4, <1>6, DERProgramTraversal
<1>8. PICK below : below = [i \in DOMAIN items |-> DERProgramLinks(m, list.rate, items[i])]
  OBVIOUS
<1>9. \A i \in DOMAIN items : below[i] = DERProgramLinks(m, list.rate, items[i])
  BY <1>8
<1>10. DERProgramListLinks(m, link) = ListLinks(href, kind, list.rate, items, below)
  BY <1>1, <1>3, <1>5, <1>8, Zenon DEF DERProgramListLinks
<1>11. \A i \in DOMAIN items : below[i] \in Seq(FoundT)
  BY <1>7, <1>9, Zenon
<1>12. \A hrefs :
         /\ ListLinks(href, kind, list.rate, items, below) \in Seq(FoundT)
         /\ Within(ListLinks(href, kind, list.rate, items, below), hrefs) <=>
              /\ href \in hrefs
              /\ \A i \in DOMAIN items : items[i].href \in hrefs /\ Within(below[i], hrefs)
  BY <1>2, <1>4, <1>11, ListLinksType
<1>13. ASSUME NEW links, Within(DERProgramListLinks(m, link), DOMAIN links)
       PROVE  DERProgramListLinks(Drop(m, links), link) = DERProgramListLinks(m, link)
  <2>1. /\ href \in DOMAIN links
        /\ \A i \in DOMAIN items : items[i].href \in DOMAIN links /\ Within(below[i], DOMAIN links)
    BY <1>10, <1>12, <1>13, Zenon
  <2>2. List(Drop(m, links), kind, href) = list
    BY <1>3, <2>1, KeptList
  <2>3. ListItems(Drop(m, links), kind, list.ids) = items
    BY <1>2, <1>4, <1>5, <2>1, KeptItems
  <2>4. \A i \in DOMAIN items :
          DERProgramLinks(Drop(m, links), list.rate, items[i]) = DERProgramLinks(m, list.rate, items[i])
    BY <1>7, <1>9, <2>1, Zenon
  <2>5. [i \in DOMAIN items |-> DERProgramLinks(Drop(m, links), list.rate, items[i])] = below
    BY <1>8, <2>4, Zenon
  <2>6. DERProgramListLinks(Drop(m, links), link) = ListLinks(href, kind, list.rate, items, below)
    BY <1>1, <2>2, <2>3, <2>5, Zenon DEF DERProgramListLinks
  <2>7. QED
    BY <1>10, <2>6
<1>14. QED
  BY <1>10, <1>12, <1>13, Zenon

(* The same, below a FunctionSetAssignments. *)
LEMMA FunctionSetAssignmentsTraversal ==
  ASSUME NEW m, ModelOK(m), NEW assignments, assignments.links \in Seq(LinkT)
  PROVE  /\ FunctionSetAssignmentsLinks(m, assignments) \in Seq(FoundT)
         /\ \A links : Within(FunctionSetAssignmentsLinks(m, assignments), DOMAIN links) =>
              FunctionSetAssignmentsLinks(Drop(m, links), assignments) =
                FunctionSetAssignmentsLinks(m, assignments)
<1>1. PICK below : below = LinksOf(assignments.links, "DERProgramList")
  OBVIOUS
<1>2. below \in Seq({link \in LinkT : link.kind = "DERProgramList"})
  BY <1>1, LinksOfType
<1>3. /\ Len(below) \in Nat /\ DOMAIN below = 1 .. Len(below)
      /\ \A i \in 1 .. Len(below) : below[i] \in LinkT /\ below[i].kind = "DERProgramList"
  BY <1>2
<1>4. \A i \in 1 .. Len(below) :
        /\ DERProgramListLinks(m, below[i]) \in Seq(FoundT)
        /\ \A links : Within(DERProgramListLinks(m, below[i]), DOMAIN links) =>
             DERProgramListLinks(Drop(m, links), below[i]) = DERProgramListLinks(m, below[i])
  BY <1>3, DERProgramListTraversal
<1>5. PICK f : f = [i \in 1 .. Len(below) |-> DERProgramListLinks(m, below[i])]
  OBVIOUS
<1>6. FunctionSetAssignmentsLinks(m, assignments) = FlattenSeq(f)
  BY <1>1, <1>3, <1>5, Zenon DEF FunctionSetAssignmentsLinks
<1>7. f = [i \in 1 .. Len(below) |-> f[i]]
      /\ \A i \in 1 .. Len(below) : f[i] = DERProgramListLinks(m, below[i])
  BY <1>5
<1>8. \A i \in 1 .. Len(below) : f[i] \in Seq(FoundT)
  BY <1>4, <1>7
<1>9. \A hrefs :
        /\ FlattenSeq(f) \in Seq(FoundT)
        /\ Within(FlattenSeq(f), hrefs) <=> \A i \in 1 .. Len(below) : Within(f[i], hrefs)
  BY <1>3, <1>7, <1>8, EachFollows
<1>10. ASSUME NEW links, Within(FunctionSetAssignmentsLinks(m, assignments), DOMAIN links)
       PROVE  FunctionSetAssignmentsLinks(Drop(m, links), assignments) =
                FunctionSetAssignmentsLinks(m, assignments)
  <2>1. \A i \in 1 .. Len(below) :
          DERProgramListLinks(Drop(m, links), below[i]) = DERProgramListLinks(m, below[i])
    BY <1>4, <1>6, <1>7, <1>9, <1>10, Zenon
  <2>2. [i \in DOMAIN below |-> DERProgramListLinks(Drop(m, links), below[i])] = f
    BY <1>3, <1>5, <2>1, Zenon
  <2>3. QED
    BY <1>1, <1>6, <2>2, Zenon DEF FunctionSetAssignmentsLinks
<1>11. QED
  BY <1>6, <1>9, <1>10, Zenon

(* The same, of a FunctionSetAssignmentsList. *)
LEMMA FunctionSetAssignmentsListTraversal ==
  ASSUME NEW m, ModelOK(m), NEW link \in LinkT, link.kind = "FunctionSetAssignmentsList"
  PROVE  /\ FunctionSetAssignmentsListLinks(m, link) \in Seq(FoundT)
         /\ \A links : Within(FunctionSetAssignmentsListLinks(m, link), DOMAIN links) =>
              FunctionSetAssignmentsListLinks(Drop(m, links), link) =
                FunctionSetAssignmentsListLinks(m, link)
<1>1. PICK kind, href : kind = link.kind /\ href = link.href
  OBVIOUS
<1>2. kind \in ListKinds /\ kind \in LinkedKinds /\ href \in Nat \ {0} /\ Named(kind, href)
  BY <1>1 DEF LinkT, ListKinds
<1>3. PICK list \in ListT : list = List(m, kind, href)
  BY <1>2, ListType
<1>4. list.ids \in Seq(STRING) /\ list.rate \in PollRates
  BY DEF ListT
<1>5. PICK items \in Seq(ItemT(ItemKind(kind))) : items = ListItems(m, kind, list.ids)
  BY <1>2, <1>4, ListItemsType
<1>6. \A i \in DOMAIN items : items[i].links \in Seq(LinkT)
  BY DEF ItemT
<1>7. \A i \in DOMAIN items :
        /\ FunctionSetAssignmentsLinks(m, items[i]) \in Seq(FoundT)
        /\ \A links : Within(FunctionSetAssignmentsLinks(m, items[i]), DOMAIN links) =>
             FunctionSetAssignmentsLinks(Drop(m, links), items[i]) =
               FunctionSetAssignmentsLinks(m, items[i])
  BY <1>6, FunctionSetAssignmentsTraversal
<1>8. PICK below : below = [i \in DOMAIN items |-> FunctionSetAssignmentsLinks(m, items[i])]
  OBVIOUS
<1>9. \A i \in DOMAIN items : below[i] = FunctionSetAssignmentsLinks(m, items[i])
  BY <1>8
<1>10. FunctionSetAssignmentsListLinks(m, link) = ListLinks(href, kind, list.rate, items, below)
  BY <1>1, <1>3, <1>5, <1>8, Zenon DEF FunctionSetAssignmentsListLinks
<1>11. \A i \in DOMAIN items : below[i] \in Seq(FoundT)
  BY <1>7, <1>9, Zenon
<1>12. \A hrefs :
         /\ ListLinks(href, kind, list.rate, items, below) \in Seq(FoundT)
         /\ Within(ListLinks(href, kind, list.rate, items, below), hrefs) <=>
              /\ href \in hrefs
              /\ \A i \in DOMAIN items : items[i].href \in hrefs /\ Within(below[i], hrefs)
  BY <1>2, <1>4, <1>11, ListLinksType
<1>13. ASSUME NEW links, Within(FunctionSetAssignmentsListLinks(m, link), DOMAIN links)
       PROVE  FunctionSetAssignmentsListLinks(Drop(m, links), link) =
                FunctionSetAssignmentsListLinks(m, link)
  <2>1. /\ href \in DOMAIN links
        /\ \A i \in DOMAIN items : items[i].href \in DOMAIN links /\ Within(below[i], DOMAIN links)
    BY <1>10, <1>12, <1>13, Zenon
  <2>2. List(Drop(m, links), kind, href) = list
    BY <1>3, <2>1, KeptList
  <2>3. ListItems(Drop(m, links), kind, list.ids) = items
    BY <1>2, <1>4, <1>5, <2>1, KeptItems
  <2>4. \A i \in DOMAIN items :
          FunctionSetAssignmentsLinks(Drop(m, links), items[i]) =
            FunctionSetAssignmentsLinks(m, items[i])
    BY <1>7, <1>9, <2>1, Zenon
  <2>5. [i \in DOMAIN items |-> FunctionSetAssignmentsLinks(Drop(m, links), items[i])] = below
    BY <1>8, <2>4, Zenon
  <2>6. FunctionSetAssignmentsListLinks(Drop(m, links), link) =
          ListLinks(href, kind, list.rate, items, below)
    BY <1>1, <2>2, <2>3, <2>5, Zenon DEF FunctionSetAssignmentsListLinks
  <2>7. QED
    BY <1>10, <2>6
<1>14. QED
  BY <1>10, <1>12, <1>13, Zenon

(* The same, below an EndDevice. *)
LEMMA EndDeviceTraversal ==
  ASSUME NEW m, ModelOK(m), NEW device, device.links \in Seq(LinkT)
  PROVE  /\ EndDeviceLinks(m, device) \in Seq(FoundT)
         /\ \A links : Within(EndDeviceLinks(m, device), DOMAIN links) =>
              EndDeviceLinks(Drop(m, links), device) = EndDeviceLinks(m, device)
<1>1. PICK lists, ders :
        /\ lists = LinksOf(device.links, "FunctionSetAssignmentsList")
        /\ ders = LinksOf(device.links, "DERList")
  OBVIOUS
<1>2. /\ Len(lists) \in Nat /\ DOMAIN lists = 1 .. Len(lists)
      /\ \A i \in 1 .. Len(lists) : lists[i] \in LinkT /\ lists[i].kind = "FunctionSetAssignmentsList"
  <2>1. lists \in Seq({link \in LinkT : link.kind = "FunctionSetAssignmentsList"})
    BY <1>1, LinksOfType
  <2>2. QED
    BY <2>1
<1>3. /\ Len(ders) \in Nat /\ DOMAIN ders = 1 .. Len(ders)
      /\ \A i \in 1 .. Len(ders) : ders[i] \in LinkT
  <2>1. ders \in Seq({link \in LinkT : link.kind = "DERList"})
    BY <1>1, LinksOfType
  <2>2. QED
    BY <2>1
<1>4. \A i \in 1 .. Len(lists) :
        /\ FunctionSetAssignmentsListLinks(m, lists[i]) \in Seq(FoundT)
        /\ \A links : Within(FunctionSetAssignmentsListLinks(m, lists[i]), DOMAIN links) =>
             FunctionSetAssignmentsListLinks(Drop(m, links), lists[i]) =
               FunctionSetAssignmentsListLinks(m, lists[i])
  BY <1>2, FunctionSetAssignmentsListTraversal
<1>5. ASSUME NEW i \in 1 .. Len(ders)
      PROVE  /\ DERListLinks(m, ders[i]) \in Seq(FoundT)
             /\ \A links : Within(DERListLinks(m, ders[i]), DOMAIN links) =>
                  DERListLinks(Drop(m, links), ders[i]) = DERListLinks(m, ders[i])
  <2>1. PICK kind, href : kind = ders[i].kind /\ href = ders[i].href
    OBVIOUS
  <2>2. kind \in LinkedKinds /\ kind \in Kinds /\ href \in Nat \ {0} /\ Named(kind, href)
    BY <1>3, <2>1 DEF LinkT, Kinds
  <2>3. PICK rate \in PollRates : rate = List(m, kind, href).rate
    BY <2>2, ListType DEF ListT
  <2>4. DERListLinks(m, ders[i]) = ResourceLink(href, kind, rate)
    BY <2>1, <2>3, Zenon DEF DERListLinks
  <2>5. \A hrefs : /\ ResourceLink(href, kind, rate) \in Seq(FoundT)
                   /\ Within(ResourceLink(href, kind, rate), hrefs) <=> href \in hrefs
    BY <2>2, ResourceLinkType
  <2>6. ASSUME NEW links, href \in DOMAIN links
        PROVE  DERListLinks(Drop(m, links), ders[i]) = DERListLinks(m, ders[i])
    <3>1. List(Drop(m, links), kind, href) = List(m, kind, href)
      BY <2>6, KeptList
    <3>2. QED
      BY <2>1, <3>1, Zenon DEF DERListLinks
  <2>7. QED
    BY <2>4, <2>5, <2>6, Zenon
<1>6. PICK f : f = [i \in 1 .. Len(lists) |-> FunctionSetAssignmentsListLinks(m, lists[i])]
  OBVIOUS
<1>7. PICK g : g = [i \in 1 .. Len(ders) |-> DERListLinks(m, ders[i])]
  OBVIOUS
<1>8. f = [i \in 1 .. Len(lists) |-> f[i]]
      /\ \A i \in 1 .. Len(lists) : f[i] = FunctionSetAssignmentsListLinks(m, lists[i])
  BY <1>6
<1>9. g = [i \in 1 .. Len(ders) |-> g[i]] /\ \A i \in 1 .. Len(ders) : g[i] = DERListLinks(m, ders[i])
  BY <1>7
<1>10. \A i \in 1 .. Len(lists) : f[i] \in Seq(FoundT)
  BY <1>4, <1>8
<1>11. \A i \in 1 .. Len(ders) : g[i] \in Seq(FoundT)
  BY <1>5, <1>9
<1>12. \A hrefs :
         /\ FlattenSeq(f) \in Seq(FoundT)
         /\ Within(FlattenSeq(f), hrefs) <=> \A i \in 1 .. Len(lists) : Within(f[i], hrefs)
  BY <1>2, <1>8, <1>10, EachFollows
<1>13. \A hrefs :
         /\ FlattenSeq(g) \in Seq(FoundT)
         /\ Within(FlattenSeq(g), hrefs) <=> \A i \in 1 .. Len(ders) : Within(g[i], hrefs)
  BY <1>3, <1>9, <1>11, EachFollows
<1>14. EndDeviceLinks(m, device) = FlattenSeq(f) \o FlattenSeq(g)
  BY <1>1, <1>2, <1>3, <1>6, <1>7, Zenon DEF EndDeviceLinks
<1>15. PICK s \in Seq(FoundT), t \in Seq(FoundT) : s = FlattenSeq(f) /\ t = FlattenSeq(g)
  BY <1>12, <1>13
<1>16. PICK all \in Seq(FoundT) :
         all = s \o t /\ \A hrefs : Within(all, hrefs) <=> Within(s, hrefs) /\ Within(t, hrefs)
  BY JoinedWithin
<1>17. EndDeviceLinks(m, device) = all
  BY <1>14, <1>15, <1>16, Zenon
<1>18. ASSUME NEW links, Within(all, DOMAIN links)
       PROVE  EndDeviceLinks(Drop(m, links), device) = all
  <2>1. Within(s, DOMAIN links) /\ Within(t, DOMAIN links)
    BY <1>16, <1>18
  <2>2. \A i \in 1 .. Len(lists) :
          FunctionSetAssignmentsListLinks(Drop(m, links), lists[i]) =
            FunctionSetAssignmentsListLinks(m, lists[i])
    BY <1>4, <1>8, <1>12, <1>15, <2>1, Zenon
  <2>3. \A i \in 1 .. Len(ders) :
          DERListLinks(Drop(m, links), ders[i]) = DERListLinks(m, ders[i])
    BY <1>5, <1>9, <1>13, <1>15, <2>1, Zenon
  <2>4. [i \in DOMAIN lists |-> FunctionSetAssignmentsListLinks(Drop(m, links), lists[i])] = f
    BY <1>2, <1>6, <2>2, Zenon
  <2>5. [i \in DOMAIN ders |-> DERListLinks(Drop(m, links), ders[i])] = g
    BY <1>3, <1>7, <2>3, Zenon
  <2>6. EndDeviceLinks(Drop(m, links), device) = FlattenSeq(f) \o FlattenSeq(g)
    BY <1>1, <2>4, <2>5, Zenon DEF EndDeviceLinks
  <2>7. QED
    BY <1>14, <1>17, <2>6, Zenon
<1>19. QED
  BY <1>17, <1>18, Zenon

(* The same, of the EndDeviceList. *)
LEMMA EndDeviceListTraversal ==
  ASSUME NEW m, ModelOK(m)
  PROVE  /\ EndDeviceListLinks(m) \in Seq(FoundT)
         /\ \A links : Within(EndDeviceListLinks(m), DOMAIN links) =>
              EndDeviceListLinks(Drop(m, links)) = EndDeviceListLinks(m)
<1>1. PICK edl : edl = m.edl
  OBVIOUS
<1>2. OneOK(edl, "EndDeviceList") /\ \A links : Drop(m, links).edl = edl
  BY <1>1, Dropped DEF ModelOK
<1>3. CASE edl = NoList
  <2>1. EndDeviceListLinks(m) = <<>> /\ \A links : EndDeviceListLinks(Drop(m, links)) = <<>>
    BY <1>1, <1>2, <1>3, Zenon DEF EndDeviceListLinks
  <2>2. QED
    BY <2>1
<1>4. CASE edl # NoList
  <2>1. PICK kind, href, rate, ids :
          kind = "EndDeviceList" /\ href = edl.href /\ rate = edl.rate /\ ids = edl.ids
    OBVIOUS
  <2>2. /\ kind \in ListKinds /\ href \in Nat \ {0} /\ Named(kind, href)
        /\ rate \in PollRates /\ ids \in Seq(STRING)
    BY <1>2, <1>4, <2>1 DEF OneOK, ListKinds
  <2>3. PICK items \in Seq(ItemT(ItemKind(kind))) : items = ListItems(m, kind, ids)
    BY <2>2, ListItemsType
  <2>4. \A i \in DOMAIN items : items[i].links \in Seq(LinkT)
    BY DEF ItemT
  <2>5. \A i \in DOMAIN items :
          /\ EndDeviceLinks(m, items[i]) \in Seq(FoundT)
          /\ \A links : Within(EndDeviceLinks(m, items[i]), DOMAIN links) =>
               EndDeviceLinks(Drop(m, links), items[i]) = EndDeviceLinks(m, items[i])
    BY <2>4, EndDeviceTraversal
  <2>6. PICK below : below = [i \in DOMAIN items |-> EndDeviceLinks(m, items[i])]
    OBVIOUS
  <2>7. \A i \in DOMAIN items : below[i] = EndDeviceLinks(m, items[i])
    BY <2>6
  <2>8. EndDeviceListLinks(m) = ListLinks(href, kind, rate, items, below)
    BY <1>1, <1>4, <2>1, <2>3, <2>6, Zenon DEF EndDeviceListLinks
  <2>9. \A i \in DOMAIN items : below[i] \in Seq(FoundT)
    BY <2>5, <2>7, Zenon
  <2>10. \A hrefs :
           /\ ListLinks(href, kind, rate, items, below) \in Seq(FoundT)
           /\ Within(ListLinks(href, kind, rate, items, below), hrefs) <=>
                /\ href \in hrefs
                /\ \A i \in DOMAIN items : items[i].href \in hrefs /\ Within(below[i], hrefs)
    BY <2>2, <2>9, ListLinksType
  <2>11. ASSUME NEW links, Within(EndDeviceListLinks(m), DOMAIN links)
         PROVE  EndDeviceListLinks(Drop(m, links)) = EndDeviceListLinks(m)
    <3>1. \A i \in DOMAIN items : items[i].href \in DOMAIN links /\ Within(below[i], DOMAIN links)
      BY <2>8, <2>10, <2>11, Zenon
    <3>2. ListItems(Drop(m, links), kind, ids) = items
      BY <2>2, <2>3, <3>1, KeptItems
    <3>3. \A i \in DOMAIN items :
            EndDeviceLinks(Drop(m, links), items[i]) = EndDeviceLinks(m, items[i])
      BY <2>5, <2>7, <3>1, Zenon
    <3>4. [i \in DOMAIN items |-> EndDeviceLinks(Drop(m, links), items[i])] = below
      BY <2>6, <3>3, Zenon
    <3>5. PICK d : d = Drop(m, links)
      OBVIOUS
    <3>6. d.edl = edl
      BY <1>2, <3>5, Zenon
    <3>7. ListItems(d, "EndDeviceList", d.edl.ids) = items
      BY <2>1, <3>2, <3>5, <3>6, Zenon
    <3>8. [i \in DOMAIN items |-> EndDeviceLinks(d, items[i])] = below
      BY <3>4, <3>5, Zenon
    <3>9. EndDeviceListLinks(d) = ListLinks(href, kind, rate, items, below)
      BY <1>4, <2>1, <3>6, <3>7, <3>8, Zenon DEF EndDeviceListLinks
    <3>10. QED
      BY <2>8, <3>5, <3>9, Zenon
  <2>12. QED
    BY <2>8, <2>10, <2>11, Zenon
<1>5. QED
  BY <1>3, <1>4

(* Where the MirrorUsagePointList stays where it is, one that the          *)
(* DeviceCapability links is the one the model has.                        *)
LEMMA DcapTraversal ==
  ASSUME NEW m, ModelOK(m)
  PROVE  /\ DcapLinks(m) \in Seq(FoundT)
         /\ \A links : MirrorsStay(Trees) /\ Within(DcapLinks(m), DOMAIN links) =>
              DcapLinks(Drop(m, links)) = DcapLinks(m)
<1>1. PICK times, edls, mupls :
        /\ times = LinksOf(m.dcap, "Time")
        /\ edls = LinksOf(m.dcap, "EndDeviceList")
        /\ mupls = LinksOf(m.dcap, "MirrorUsagePointList")
  OBVIOUS
<1>2. m.dcap \in Seq(LinkT)
  BY DEF ModelOK
<1>3. times \in Seq(LinkT)
  <2>1. times \in Seq({link \in LinkT : link.kind = "Time"})
    BY <1>1, <1>2, LinksOfType
  <2>2. QED
    BY <2>1
<1>4. edls \in Seq(LinkT)
  <2>1. edls \in Seq({link \in LinkT : link.kind = "EndDeviceList"})
    BY <1>1, <1>2, LinksOfType
  <2>2. QED
    BY <2>1
<1>5. mupls \in Seq(LinkT) /\ \A i \in DOMAIN mupls : mupls[i].kind = "MirrorUsagePointList"
  <2>1. mupls \in Seq({link \in LinkT : link.kind = "MirrorUsagePointList"})
    BY <1>1, <1>2, LinksOfType
  <2>2. QED
    BY <2>1
<1>6. m.time \in PollRates /\ m.edl.rate \in PollRates /\ m.mupl.rate \in PollRates
  BY DEF ModelOK, OneOK
<1>7. PICK a \in Seq(FoundT) : a = LeafLinks(times, m.time)
  BY <1>3, <1>6, LeafLinksType
<1>8. PICK b \in Seq(FoundT) : b = LeafLinks(edls, m.edl.rate)
  BY <1>4, <1>6, LeafLinksType
<1>9. \A hrefs :
        /\ LeafLinks(mupls, m.mupl.rate) \in Seq(FoundT)
        /\ Within(LeafLinks(mupls, m.mupl.rate), hrefs) <=> \A i \in DOMAIN mupls : mupls[i].href \in hrefs
  BY <1>5, <1>6, LeafLinksType
<1>10. PICK c \in Seq(FoundT) : c = LeafLinks(mupls, m.mupl.rate)
  BY <1>9
<1>11. PICK ab \in Seq(FoundT) :
         ab = a \o b /\ \A hrefs : Within(ab, hrefs) <=> Within(a, hrefs) /\ Within(b, hrefs)
  BY JoinedWithin
<1>12. PICK abc \in Seq(FoundT) :
         abc = ab \o c /\ \A hrefs : Within(abc, hrefs) <=> Within(ab, hrefs) /\ Within(c, hrefs)
  BY JoinedWithin
<1>13. DcapLinks(m) = (a \o b) \o c
  BY <1>1, <1>7, <1>8, <1>10, Zenon DEF DcapLinks
<1>14. DcapLinks(m) = abc
  BY <1>11, <1>12, <1>13, Zenon
<1>15. ASSUME NEW links, MirrorsStay(Trees), Within(abc, DOMAIN links)
       PROVE  DcapLinks(Drop(m, links)) = abc
  <2>1. PICK d : d = Drop(m, links)
    OBVIOUS
  <2>2. /\ d.dcap = m.dcap /\ d.time = m.time /\ d.edl = m.edl
        /\ m.mupl.href \in DOMAIN links => d.mupl = m.mupl
        /\ m.mupl.href \notin DOMAIN links => d.mupl = NoList
    BY <2>1, DroppedOnes
  <2>3. \A i \in DOMAIN mupls : mupls[i].href \in DOMAIN links
    BY <1>9, <1>10, <1>12, <1>15, Zenon
  <2>4. LeafLinks(mupls, d.mupl.rate) = c
    <3>1. CASE d.mupl = m.mupl
      BY <1>10, <3>1, Zenon
    <3>2. CASE d.mupl # m.mupl
      <4>1. m.mupl # NoList /\ m.mupl.href \notin DOMAIN links
        BY <2>2, <3>2, Zenon
      <4>2. Named("MirrorUsagePointList", m.mupl.href)
        BY <4>1 DEF ModelOK, OneOK
      <4>3. ASSUME NEW i \in DOMAIN mupls
            PROVE  FALSE
        <5>1. mupls[i] \in LinkT /\ mupls[i].kind = "MirrorUsagePointList"
          BY <1>5
        <5>2. Named("MirrorUsagePointList", mupls[i].href)
          BY <5>1 DEF LinkT
        <5>3. mupls[i].href = m.mupl.href
          BY <1>15, <4>2, <5>2 DEF MirrorsStay, Named
        <5>4. QED
          BY <2>3, <4>1, <5>3
      <4>4. DOMAIN mupls = {}
        BY <4>3
      <4>5. [i \in DOMAIN mupls |-> ResourceLink(mupls[i].href, mupls[i].kind, d.mupl.rate)] =
            [i \in DOMAIN mupls |-> ResourceLink(mupls[i].href, mupls[i].kind, m.mupl.rate)]
        BY <4>3, Zenon
      <4>6. QED
        BY <1>10, <4>5, Zenon DEF LeafLinks
    <3>3. QED
      BY <3>1, <3>2
  <2>5. DcapLinks(d) = (a \o b) \o c
    BY <1>1, <1>7, <1>8, <2>2, <2>4, Zenon DEF DcapLinks
  <2>6. QED
    BY <1>13, <1>14, <2>1, <2>5, Zenon
<1>16. QED
  BY <1>14, <1>15, Zenon

(* resource_links as a whole. *)
LEMMA Traversal ==
  ASSUME NEW m, ModelOK(m)
  PROVE  /\ AllLinks(m) \in Seq(FoundT)
         /\ \A links : MirrorsStay(Trees) /\ Within(AllLinks(m), DOMAIN links) =>
              AllLinks(Drop(m, links)) = AllLinks(m)
<1>1. /\ DcapLinks(m) \in Seq(FoundT)
      /\ \A links : MirrorsStay(Trees) /\ Within(DcapLinks(m), DOMAIN links) =>
           DcapLinks(Drop(m, links)) = DcapLinks(m)
  BY DcapTraversal
<1>2. /\ EndDeviceListLinks(m) \in Seq(FoundT)
      /\ \A links : Within(EndDeviceListLinks(m), DOMAIN links) =>
           EndDeviceListLinks(Drop(m, links)) = EndDeviceListLinks(m)
  BY EndDeviceListTraversal
<1>3. PICK s \in Seq(FoundT), t \in Seq(FoundT) : s = DcapLinks(m) /\ t = EndDeviceListLinks(m)
  BY <1>1, <1>2
<1>4. PICK all \in Seq(FoundT) :
        all = s \o t /\ \A hrefs : Within(all, hrefs) <=> Within(s, hrefs) /\ Within(t, hrefs)
  BY JoinedWithin
<1>5. AllLinks(m) = all
  BY <1>3, <1>4, Zenon DEF AllLinks
<1>6. ASSUME NEW links, MirrorsStay(Trees), Within(all, DOMAIN links)
      PROVE  AllLinks(Drop(m, links)) = all
  <2>1. DcapLinks(Drop(m, links)) = s /\ EndDeviceListLinks(Drop(m, links)) = t
    BY <1>1, <1>2, <1>3, <1>4, <1>6, Zenon
  <2>2. QED
    BY <1>4, <2>1, Zenon DEF AllLinks
<1>7. QED
  BY <1>5, <1>6, Zenon

(* A table of links: of finitely many, so that there is a greatest.        *)
LinksOK(links) ==
  /\ \A href \in DOMAIN links :
       /\ href \in Nat \ {0}
       /\ links[href] \in [kind : Kinds, rate : PollRates]
       /\ Named(links[href].kind, href)
  /\ \E b \in Nat : \A href \in DOMAIN links : href <= b

(* Links is a table of what is found, and every href that is found is in   *)
(* it.                                                                     *)
LEMMA LinksTable ==
  ASSUME NEW m, ModelOK(m)
  PROVE  /\ LinksOK(Links(m))
         /\ Within(AllLinks(m), DOMAIN Links(m))
<1>1. PICK all \in Seq(FoundT) : all = AllLinks(m)
  BY Traversal
<1>2. Len(all) \in Nat /\ DOMAIN all = 1 .. Len(all) /\ \A i \in 1 .. Len(all) : all[i] \in FoundT
  OBVIOUS
<1> DEFINE Latest(href) == Max({i \in DOMAIN all : all[i].href = href})
<1>3. Links(m) = [href \in {all[i].href : i \in DOMAIN all} |->
                    [kind |-> all[Latest(href)].kind, rate |-> all[Latest(href)].rate]]
  BY <1>1, Zenon DEF Links
<1>4. ASSUME NEW href \in {all[i].href : i \in DOMAIN all}
      PROVE  Latest(href) \in 1 .. Len(all) /\ all[Latest(href)].href = href
  <2>1. PICK S : S = {i \in DOMAIN all : all[i].href = href}
    OBVIOUS
  <2>2. S # {} /\ S \subseteq 0 .. Len(all)
    BY <1>2, <2>1
  <2>3. Max(S) \in S
    BY <1>2, <2>2, MaxTo
  <2>4. QED
    BY <1>2, <2>1, <2>3
<1> HIDE DEF Latest
<1>5. PICK links : links = Links(m)
  OBVIOUS
<1>6. /\ DOMAIN links = {all[i].href : i \in DOMAIN all}
      /\ \A href \in DOMAIN links :
           links[href] = [kind |-> all[Latest(href)].kind, rate |-> all[Latest(href)].rate]
      /\ links = [href \in DOMAIN links |-> links[href]]
  BY <1>3, <1>5
<1>7. Within(all, DOMAIN links)
  BY <1>2, <1>6 DEF Within, Range
<1>8. ASSUME NEW href \in DOMAIN links
      PROVE  /\ href \in Nat \ {0}
             /\ links[href] \in [kind : Kinds, rate : PollRates]
             /\ Named(links[href].kind, href)
  <2>1. PICK i \in 1 .. Len(all) : i = Latest(href) /\ all[i].href = href
    BY <1>4, <1>6
  <2>2. all[i] \in FoundT
    BY <1>2
  <2>3. links[href] = [kind |-> all[i].kind, rate |-> all[i].rate]
    BY <1>6, <2>1
  <2>4. /\ all[i].href \in Nat \ {0} /\ all[i].kind \in Kinds /\ all[i].rate \in PollRates
        /\ Named(all[i].kind, all[i].href)
    BY <2>2 DEF FoundT
  <2>5. QED
    BY <2>1, <2>3, <2>4
<1>9. \E b \in Nat : \A href \in DOMAIN links : href <= b
  <2>1. PICK f : f = [i \in 1 .. Len(all) |-> all[i].href]
    OBVIOUS
  <2>2. \A i \in 1 .. Len(all) : f[i] \in Nat /\ f[i] = all[i].href
    BY <1>2, <2>1 DEF FoundT
  <2>3. PICK b \in Nat : \A i \in 1 .. Len(all) : f[i] <= b
    BY <1>2, <2>2, Bounded
  <2>4. \A href \in DOMAIN links : \E i \in 1 .. Len(all) : href = f[i]
    BY <1>2, <1>6, <2>2
  <2>5. \A href \in DOMAIN links : href <= b
    BY <2>3, <2>4
  <2>6. QED
    BY <2>5
<1>10. LinksOK(links)
  BY <1>8, <1>9, Zenon DEF LinksOK
<1>11. QED
  BY <1>1, <1>5, <1>7, <1>10, Zenon

(* What drop_untracked_resources drops has none of the links.              *)
LEMMA LinksKept ==
  ASSUME NEW m, ModelOK(m), MirrorsStay(Trees)
  PROVE  Links(Drop(m, Links(m))) = Links(m)
<1>1. Within(AllLinks(m), DOMAIN Links(m))
  BY LinksTable
<1>2. AllLinks(Drop(m, Links(m))) = AllLinks(m)
  BY <1>1, Traversal, Zenon
<1>3. QED
  BY <1>2, Zenon DEF Links

-----------------------------------------------------------------------------
(* Applying a resource. *)

(* A resource that the server has at some time, and what it names. *)
LEMMA DocType ==
  ASSUME NEW doc \in Docs
  PROVE  /\ doc \in Resources
         /\ Named(doc.kind, doc.href)
         /\ doc.kind \in LinkedKinds \cup {"DeviceCapability"}
         /\ doc.href \in Nat \ {0} /\ doc.rate \in PollRates
         /\ Len(doc.items) \in Nat /\ DOMAIN doc.items = 1 .. Len(doc.items)
         /\ \A i \in 1 .. Len(doc.items) :
              /\ doc.items[i].id \in STRING /\ doc.items[i].href \in Nat \ {0}
              /\ doc.items[i].links \in Seq(LinkT)
              /\ doc.kind \in ListKinds => Named(ItemKind(doc.kind), doc.items[i].href)
         /\ doc.kind = "DeviceCapability" => Len(doc.items) = 1
         /\ doc.kind \notin ListKinds \cup {"DeviceCapability"} => doc.items = <<>>
<1> DEFINE Link == [kind : LinkedKinds, href : Nat \ {0}]
           Item == [id : STRING, href : Nat \ {0}, links : Seq(Link)]
<1>1. doc \in Resources
  <2>1. Trees \in Seq(Seq(Resources))
    BY SubscriptionsAssumption
  <2>2. PICK t \in DOMAIN Trees : doc \in Range(Trees[t])
    BY DEF Docs
  <2>3. Trees[t] \in Seq(Resources)
    BY <2>1
  <2>4. QED
    BY <2>2, <2>3 DEF Range
<1>2. NamedBy(doc) \subseteq Names(Trees)
  BY Zenon DEF Docs, Names
<1>3. /\ doc.kind \in LinkedKinds \cup {"DeviceCapability"} /\ doc.href \in Nat \ {0}
      /\ doc.rate \in PollRates /\ doc.items \in Seq(Item)
      /\ doc.kind = "DeviceCapability" => Len(doc.items) = 1
      /\ doc.kind \notin ListKinds \cup {"DeviceCapability"} => doc.items = <<>>
  BY <1>1 DEF Resources
<1>4. Named(doc.kind, doc.href)
  BY <1>2 DEF NamedBy, Named
<1> HIDE DEF Item
<1>5. /\ Len(doc.items) \in Nat /\ DOMAIN doc.items = 1 .. Len(doc.items)
      /\ \A i \in 1 .. Len(doc.items) : doc.items[i] \in Item
  BY <1>3
<1>6. ASSUME NEW i \in 1 .. Len(doc.items)
      PROVE  /\ doc.items[i].id \in STRING /\ doc.items[i].href \in Nat \ {0}
             /\ doc.items[i].links \in Seq(LinkT)
             /\ doc.kind \in ListKinds => Named(ItemKind(doc.kind), doc.items[i].href)
  <2>1. /\ doc.items[i].id \in STRING /\ doc.items[i].href \in Nat \ {0}
        /\ doc.items[i].links \in Seq(Link)
    BY <1>5 DEF Item
  <2>2. Range(doc.items[i].links) \subseteq Names(Trees)
    <3>1. Range(doc.items[i].links) \subseteq Linked(doc)
      BY <1>5 DEF Linked
    <3>2. QED
      BY <1>2, <3>1 DEF NamedBy
  <2>3. PICK links \in Seq(Link) : links = doc.items[i].links
    BY <2>1
  <2>4. \A n \in DOMAIN links : links[n] \in Link /\ links[n] \in Names(Trees)
    <3> HIDE DEF Link
    <3>1. \A n \in DOMAIN links : links[n] \in Link
      OBVIOUS
    <3>2. \A n \in DOMAIN links : links[n] \in Range(links)
      BY DEF Range
    <3>3. QED
      BY <2>2, <2>3, <3>1, <3>2, Zenon
  <2>5. \A n \in DOMAIN links : links[n] \in LinkT
    <3> TAKE n \in DOMAIN links
    <3>1. PICK link \in Link : link = links[n]
      BY <2>4
    <3>2. link = [kind |-> link.kind, href |-> link.href]
      OBVIOUS
    <3>3. QED
      BY <2>4, <3>1, <3>2 DEF LinkT, Named
  <2> HIDE DEF Link
  <2>6. links \in Seq(LinkT)
    BY <2>5
  <2>7. doc.kind \in ListKinds => Named(ItemKind(doc.kind), doc.items[i].href)
    <3>1. doc.kind \in ListKinds =>
            [kind |-> ItemKind(doc.kind), href |-> doc.items[i].href] \in NamedBy(doc)
      BY <1>5 DEF NamedBy
    <3>2. QED
      BY <1>2, <3>1 DEF Named
  <2>8. QED
    BY <2>1, <2>3, <2>6, <2>7
<1>7. QED
  BY <1>1, <1>3, <1>4, <1>5, <1>6

(* The items of a list are put into the table of items. *)
LEMMA WithItemsType ==
  ASSUME NEW items, ItemsOK(items), NEW doc \in Docs,
         doc.kind \in ListKinds \/ doc.items = <<>>
  PROVE  ItemsOK(WithItems(items, doc))
<1> DEFINE k == ItemKind(doc.kind)
           Key(i) == <<k, doc.items[i].id>>
           Said(key) == {i \in DOMAIN doc.items : Key(i) = key}
           New(key) == [href |-> doc.items[Max(Said(key))].href,
                        links |-> doc.items[Max(Said(key))].links]
<1>1. /\ Len(doc.items) \in Nat /\ DOMAIN doc.items = 1 .. Len(doc.items)
      /\ \A i \in 1 .. Len(doc.items) :
           /\ doc.items[i].href \in Nat \ {0} /\ doc.items[i].links \in Seq(LinkT)
           /\ doc.kind \in ListKinds => Named(ItemKind(doc.kind), doc.items[i].href)
  BY DocType
<1>2. WithItems(items, doc) =
        [key \in DOMAIN items \cup {Key(i) : i \in DOMAIN doc.items} |->
           IF Said(key) = {} THEN items[key] ELSE New(key)]
  BY Zenon DEF WithItems
<1>3. ASSUME NEW kind, NEW id, Said(<<kind, id>>) # {}
      PROVE  New(<<kind, id>>) \in ItemT(kind)
  <2>1. PICK S : S = Said(<<kind, id>>)
    OBVIOUS
  <2>2. S # {} /\ S \subseteq 0 .. Len(doc.items)
    BY <1>1, <1>3, <2>1
  <2>3. PICK n \in S : n = Max(S)
    BY <1>1, <2>2, MaxTo
  <2>4. n \in 1 .. Len(doc.items) /\ <<k, doc.items[n].id>> = <<kind, id>>
    BY <1>1, <2>1
  <2>5. kind = k
    BY <2>4
  <2>6. New(<<kind, id>>) = [href |-> doc.items[n].href, links |-> doc.items[n].links]
    BY <2>1, <2>3, Zenon
  <2>7. doc.items # <<>>
    BY <1>1, <2>4
  <2>8. doc.items[n].href \in Nat \ {0} /\ doc.items[n].links \in Seq(LinkT) /\ Named(k, doc.items[n].href)
    BY <1>1, <2>4, <2>7
  <2> HIDE DEF k, New
  <2>9. QED
    BY <2>5, <2>6, <2>8 DEF ItemT
<1>4. PICK all : all = WithItems(items, doc)
  OBVIOUS
<1>5. ASSUME NEW key, Said(key) = {}
      PROVE  key \in DOMAIN all => key \in DOMAIN items /\ all[key] = items[key]
  BY <1>2, <1>4, <1>5
<1>6. all = [key \in DOMAIN all |-> all[key]]
  BY <1>2, <1>4
<1>7. \A key \in DOMAIN all : Said(key) # {} => all[key] = New(key)
  BY <1>2, <1>4
<1>8. ASSUME NEW key, Said(key) # {}
      PROVE  \E id \in STRING : key = <<k, id>> /\ k \in ItemKinds
  <2>1. PICK i \in 1 .. Len(doc.items) : key = <<k, doc.items[i].id>>
    BY <1>1, <1>8
  <2>2. doc.items[i].id \in STRING /\ doc.items # <<>>
    BY <1>1, <2>1, DocType
  <2>3. QED
    BY <2>1, <2>2 DEF ItemKinds
<1> HIDE DEF Said, New, k
<1>9. ASSUME NEW key \in DOMAIN all
      PROVE  key \in ItemKinds \X STRING /\ all[key] \in ItemT(key[1])
  <2>1. CASE Said(key) = {}
    BY <1>5, <2>1 DEF ItemsOK
  <2>2. CASE Said(key) # {}
    <3>1. PICK id \in STRING : key = <<k, id>> /\ k \in ItemKinds
      BY <1>8, <2>2
    <3>2. all[key] \in ItemT(k)
      BY <1>3, <1>7, <2>2, <3>1
    <3>3. QED
      BY <3>1, <3>2
  <2>3. QED
    BY <2>1, <2>2
<1>10. QED
  BY <1>4, <1>6, <1>9 DEF ItemsOK

(* Whatever is set, what is left is a model. *)
LEMMA SetType ==
  ASSUME NEW m, ModelOK(m), NEW doc \in Docs
  PROVE  ModelOK(Set(m, doc))
<1>1. /\ Named(doc.kind, doc.href)
      /\ doc.href \in Nat \ {0} /\ doc.rate \in PollRates
      /\ Len(doc.items) \in Nat /\ DOMAIN doc.items = 1 .. Len(doc.items)
      /\ \A i \in 1 .. Len(doc.items) :
           doc.items[i].id \in STRING /\ doc.items[i].links \in Seq(LinkT)
  BY DocType
<1>2. /\ doc.kind \in LinkedKinds \cup {"DeviceCapability"}
      /\ doc.kind = "DeviceCapability" => Len(doc.items) = 1
      /\ doc.kind \notin ListKinds \cup {"DeviceCapability"} => doc.items = <<>>
  BY DocType
<1>3. PICK a, b, c, e, f, g :
        /\ m = [dcap |-> a, time |-> b, edl |-> c, mupl |-> e, lists |-> f, items |-> g]
        /\ m.dcap = a /\ m.time = b /\ m.edl = c /\ m.mupl = e /\ m.lists = f /\ m.items = g
  BY DEF ModelOK
<1>4. /\ a \in Seq(LinkT) /\ b \in PollRates
      /\ OneOK(c, "EndDeviceList") /\ OneOK(e, "MirrorUsagePointList")
      /\ ListsOK(f) /\ ItemsOK(g)
  BY <1>3 DEF ModelOK
<1>5. ASSUME NEW a2 \in Seq(LinkT), NEW b2 \in PollRates, NEW c2, OneOK(c2, "EndDeviceList"),
             NEW e2, OneOK(e2, "MirrorUsagePointList"), NEW f2, ListsOK(f2), NEW g2, ItemsOK(g2)
      PROVE  ModelOK([dcap |-> a2, time |-> b2, edl |-> c2, mupl |-> e2, lists |-> f2, items |-> g2])
  <2>1. PICK n : n = [dcap |-> a2, time |-> b2, edl |-> c2, mupl |-> e2, lists |-> f2, items |-> g2]
    OBVIOUS
  <2>2. n.dcap = a2 /\ n.time = b2 /\ n.edl = c2 /\ n.mupl = e2 /\ n.lists = f2 /\ n.items = g2
    BY <2>1
  <2>3. n = [dcap |-> n.dcap, time |-> n.time, edl |-> n.edl, mupl |-> n.mupl,
             lists |-> n.lists, items |-> n.items]
    BY <2>1, <2>2, Zenon
  <2>4. n.dcap \in Seq(LinkT) /\ n.time \in PollRates
    BY <2>2
  <2>5. ModelOK(n)
    BY <1>5, <2>2, <2>3, <2>4, Zenon DEF ModelOK
  <2>6. QED
    BY <2>1, <2>5
<1>6. PICK ids : ids = Ids(doc)
  OBVIOUS
<1>7. ids \in Seq(STRING)
  BY <1>1, <1>6, MadeOf DEF Ids
<1>8. PICK withItems : withItems = WithItems(g, doc)
  OBVIOUS
<1>9. doc.kind # "DeviceCapability" => ItemsOK(withItems)
  BY <1>2, <1>4, <1>8, WithItemsType
<1>10. PICK new : new = Set(m, doc)
  OBVIOUS
<1>11. CASE doc.kind = "DeviceCapability"
  <2>1. "DeviceCapability" \notin ListKinds
    BY DEF ListKinds
  <2>2. Len(doc.items) # 0
    BY <1>2, <1>11, <2>1
  <2>3. PICK links \in Seq(LinkT) : links = doc.items[1].links
    BY <1>1, <2>2
  <2>4. new = [m EXCEPT !.dcap = links]
    BY <1>10, <1>11, <2>3 DEF Set
  <2>5. new = [dcap |-> links, time |-> b, edl |-> c, mupl |-> e, lists |-> f, items |-> g]
    BY <1>3, <2>4
  <2>6. QED
    BY <1>4, <1>5, <1>10, <2>5
<1>12. CASE doc.kind = "Time"
  <2>1. new = [m EXCEPT !.time = doc.rate]
    BY <1>10, <1>12 DEF Set
  <2>2. PICK rate \in PollRates : rate = doc.rate
    BY <1>1
  <2>3. new = [dcap |-> a, time |-> rate, edl |-> c, mupl |-> e, lists |-> f, items |-> g]
    BY <1>3, <2>1, <2>2
  <2>4. QED
    BY <1>4, <1>5, <1>10, <2>3
<1>13. CASE doc.kind = "MirrorUsagePointList"
  <2>1. PICK one : one = [href |-> doc.href, rate |-> doc.rate, ids |-> <<>>]
    OBVIOUS
  <2>2. new = [m EXCEPT !.mupl = one]
    BY <1>10, <1>13, <2>1 DEF Set
  <2>3. new = [dcap |-> a, time |-> b, edl |-> c, mupl |-> one, lists |-> f, items |-> g]
    BY <1>3, <2>2
  <2>4. OneOK(one, "MirrorUsagePointList")
    BY <1>1, <1>13, <2>1 DEF OneOK
  <2>5. QED
    BY <1>4, <1>5, <1>10, <2>3, <2>4
<1>14. CASE doc.kind = "EndDeviceList"
  <2>1. PICK one : one = [href |-> doc.href, rate |-> doc.rate, ids |-> ids]
    OBVIOUS
  <2>2. new = [m EXCEPT !.edl = one, !.items = withItems]
    BY <1>3, <1>6, <1>8, <1>10, <1>14, <2>1 DEF Set
  <2>3. new = [dcap |-> a, time |-> b, edl |-> one, mupl |-> e, lists |-> f, items |-> withItems]
    BY <1>3, <2>2
  <2>4. OneOK(one, "EndDeviceList")
    BY <1>1, <1>7, <1>14, <2>1 DEF OneOK
  <2>5. QED
    BY <1>4, <1>5, <1>9, <1>10, <1>14, <2>3, <2>4
<1>15. CASE doc.kind \notin {"DeviceCapability", "Time", "MirrorUsagePointList", "EndDeviceList"}
  <2>1. PICK list : list = [rate |-> KeptRate(doc), ids |-> ids]
    OBVIOUS
  <2>2. list \in ListT
    BY <1>1, <1>7, <2>1 DEF ListT, KeptRate, PollRates
  <2>3. PICK key : key = <<doc.kind, doc.href>>
    OBVIOUS
  <2>4. PICK lists : lists = Inserted(f, key, list)
    OBVIOUS
  <2>5. new = [m EXCEPT !.lists = lists, !.items = withItems]
    BY <1>3, <1>6, <1>8, <1>10, <1>15, <2>1, <2>3, <2>4 DEF Set
  <2>6. new = [dcap |-> a, time |-> b, edl |-> c, mupl |-> e, lists |-> lists, items |-> withItems]
    BY <1>3, <2>5
  <2>7. ListsOK(lists)
    <3>1. lists = [k \in DOMAIN f \cup {key} |-> IF k = key THEN list ELSE f[k]]
      BY <2>4, Zenon DEF Inserted
    <3>2. key \in LinkedKinds \X Nat
      BY <1>1, <1>2, <1>15, <2>3
    <3>3. QED
      BY <1>4, <2>2, <3>1, <3>2 DEF ListsOK
  <2>8. QED
    BY <1>4, <1>5, <1>9, <1>10, <1>15, <2>6, <2>7
<1>16. QED
  BY <1>11, <1>12, <1>13, <1>14, <1>15

(* The model that a new installation starts with. *)
LEMMA EmptyModelType == ModelOK(EmptyModel)
<1>1. OneOK(NoList, "EndDeviceList") /\ OneOK(NoList, "MirrorUsagePointList")
  <2>1. NoList \in [href : Nat, rate : PollRates, ids : Seq(STRING)]
    BY DEF NoList, PollRates
  <2>2. QED
    BY <2>1, Zenon DEF OneOK
<1>2. ListsOK(<<>>) /\ ItemsOK(<<>>)
  <2>1. DOMAIN <<>> = {} /\ <<>> = [key \in {} |-> <<>>[key]]
    OBVIOUS
  <2>2. QED
    BY <2>1 DEF ListsOK, ItemsOK
<1>3. PICK n : n = EmptyModel
  OBVIOUS
<1>4. n.dcap = <<>> /\ n.time = NoRate /\ n.edl = NoList /\ n.mupl = NoList /\ n.lists = <<>> /\ n.items = <<>>
  BY <1>3 DEF EmptyModel
<1>5. n = [dcap |-> n.dcap, time |-> n.time, edl |-> n.edl, mupl |-> n.mupl,
           lists |-> n.lists, items |-> n.items]
  BY <1>3, <1>4, Zenon DEF EmptyModel
<1>6. n.dcap \in Seq(LinkT) /\ n.time \in PollRates
  BY <1>4 DEF PollRates
<1>7. ModelOK(n)
  BY <1>1, <1>2, <1>4, <1>5, <1>6, Zenon DEF ModelOK
<1>8. QED
  BY <1>3, <1>7

(* apply_update: the links of what is kept are those the events are about. *)
LEMMA AppliedKeeps ==
  ASSUME NEW m, ModelOK(m), NEW doc \in Docs
  PROVE  /\ ModelOK(Set(m, doc)) /\ ModelOK(Applied(m, doc))
         /\ MirrorsStay(Trees) =>
              /\ Links(Applied(m, doc)) = Links(Set(m, doc))
              /\ Drop(Applied(m, doc), Links(Applied(m, doc))) = Applied(m, doc)
<1>1. PICK set : set = Set(m, doc)
  OBVIOUS
<1>2. ModelOK(set)
  BY <1>1, SetType
<1>3. Applied(m, doc) = Drop(set, Links(set))
  BY <1>1, Zenon DEF Applied
<1>4. ModelOK(Applied(m, doc))
  BY <1>2, <1>3, DropType
<1>5. MirrorsStay(Trees) => Links(Applied(m, doc)) = Links(set)
  BY <1>2, <1>3, LinksKept
<1>6. Drop(Applied(m, doc), Links(set)) = Applied(m, doc)
  BY <1>2, <1>3, DropIdempotent
<1>7. QED
  BY <1>1, <1>2, <1>4, <1>5, <1>6

-----------------------------------------------------------------------------
(* The events that a change of the links makes. *)

(* What there is to say of an href. *)
Said(href, links) ==
  IF href \in DOMAIN links THEN AddedOrUpdated(href, links[href]) ELSE Removed(href)

(* The DeviceCapability is named as what it is. *)
LEMMA RootNamed == Named("DeviceCapability", Root)
<1>1. Trees \in Seq(Seq(Resources)) /\ Trees # <<>>
  BY SubscriptionsAssumption
<1>2. 1 \in DOMAIN Trees
  BY <1>1
<1>3. PICK doc \in Range(Trees[1]) : doc.kind = "DeviceCapability" /\ doc.href = Root
  BY <1>2, SubscriptionsAssumption
<1>4. doc \in Docs
  BY <1>2 DEF Docs
<1>5. QED
  BY <1>3, <1>4, DocType

(* Nothing links the DeviceCapability. *)
LEMMA RootNotLinked ==
  ASSUME KindsStay(Trees), NEW kind \in Kinds, NEW href, Named(kind, href)
  PROVE  href # Root
<1>1. "DeviceCapability" \notin Kinds
  BY DEF Kinds, LinkedKinds, ItemKinds, ListKinds, ItemKind
<1>2. Named("DeviceCapability", Root)
  BY RootNamed
<1>3. QED
  BY <1>1, <1>2 DEF KindsStay, Named

(* InOrder has the numbers of a set and no others. *)
LEMMA InOrderRange ==
  ASSUME NEW b \in Nat, NEW hrefs, hrefs \subseteq 1 .. b
  PROVE  /\ InOrder(hrefs) \in Seq(Nat) /\ Range(InOrder(hrefs)) = hrefs
<1>1. PICK n : n = Max(hrefs \cup {0})
  OBVIOUS
<1>2. n \in Nat /\ \A href \in hrefs : href <= n
  <2>1. PICK S : S = hrefs \cup {0}
    OBVIOUS
  <2>2. S \subseteq 0 .. b /\ S # {}
    BY <2>1
  <2>3. Max(S) \in S /\ \A y \in S : Max(S) >= y
    BY <2>2, MaxTo
  <2>4. n = Max(S)
    BY <1>1, <2>1, Zenon
  <2>5. n \in S /\ \A y \in S : n >= y
    BY <2>3, <2>4, Zenon
  <2>6. n \in Nat /\ \A y \in S : y \in Nat
    BY <2>2, <2>5
  <2>7. \A href \in hrefs : href \in S
    BY <2>1
  <2>8. QED
    BY <2>5, <2>6, <2>7
<1>3. PICK f : f = [i \in 1 .. n |-> IF i \in hrefs THEN <<i>> ELSE <<>>]
  OBVIOUS
<1>4. InOrder(hrefs) = FlattenSeq(f)
  BY <1>1, <1>3, Zenon DEF InOrder
<1>5. \A i \in 1 .. n :
        /\ f[i] \in Seq(Nat)
        /\ \A x : x \in Range(f[i]) <=> (i \in hrefs /\ x = i)
  <2> TAKE i \in 1 .. n
  <2>1. <<i>> \in Seq(Nat) /\ Range(<<i>>) = {i} /\ <<>> \in Seq(Nat)
    <3>1. i \in Nat /\ <<>> \in Seq(Nat)
      BY <1>2
    <3>2. QED
      BY <3>1, RangeOne
  <2>2. Range(<<>>) = {}
    BY DEF Range
  <2>3. i \in hrefs => f[i] = <<i>>
    BY <1>3
  <2>4. i \notin hrefs => f[i] = <<>>
    BY <1>3
  <2>5. QED
    BY <2>1, <2>2, <2>3, <2>4
<1>6. f \in Seq(Seq(Nat)) /\ DOMAIN f = 1 .. n
  <2>1. f = [i \in 1 .. n |-> f[i]]
    BY <1>3
  <2>2. f \in Seq(Seq(Nat)) /\ Len(f) = n
    BY <1>2, <1>5, <2>1, MadeOf
  <2>3. DOMAIN f = 1 .. n
    BY <1>3
  <2>4. QED
    BY <2>2, <2>3
<1>7. FlattenSeq(f) \in Seq(Nat)
  BY <1>6, Flatten
<1>8. \A x : x \in Range(FlattenSeq(f)) <=> \E i \in 1 .. n : x \in Range(f[i])
  BY <1>6, FlattenMember
<1>9. \A x : x \in Range(FlattenSeq(f)) <=> x \in hrefs
  <2>1. \A x \in hrefs : x \in 1 .. n
    BY <1>2
  <2>2. \A x : (\E i \in 1 .. n : x \in Range(f[i])) <=> x \in hrefs
    BY <1>5, <2>1, Zenon
  <2>3. QED
    BY <1>8, <2>2
<1>10. QED
  BY <1>4, <1>7, <1>9

(* What is made of each of a sequence. *)
LEMMA EachRange ==
  ASSUME NEW X, NEW Y, NEW s \in Seq(X), NEW f, f = [i \in DOMAIN s |-> f[i]],
         \A i \in DOMAIN s : f[i] \in Y
  PROVE  f \in Seq(Y)
<1>1. Len(s) \in Nat /\ DOMAIN s = 1 .. Len(s)
  OBVIOUS
<1>2. QED
  BY <1>1, MadeOf

(* resource_link_events: every event says what there is to say after the *)
(* change, and there is one wherever that is not what there was before.  *)
LEMMA LinkEventsSay ==
  ASSUME KindsStay(Trees), NEW prior, LinksOK(prior), NEW post, LinksOK(post)
  PROVE  /\ LinkEvents(prior, post) \in Seq(RequestT)
         /\ \A event \in Range(LinkEvents(prior, post)) : event = Said(event.href, post)
         /\ \A href : Said(href, prior) # Said(href, post) =>
              \E event \in Range(LinkEvents(prior, post)) : event.href = href
<1>1. PICK gone, new : gone = DOMAIN prior \ DOMAIN post /\ new = Changed(prior, post)
  OBVIOUS
<1>2. PICK b \in Nat : gone \subseteq 1 .. b
  BY <1>1 DEF LinksOK
<1>3. PICK c \in Nat : new \subseteq 1 .. c
  BY <1>1 DEF LinksOK, Changed
<1>4. PICK s \in Seq(Nat) : s = InOrder(gone) /\ Range(s) = gone
  BY <1>2, InOrderRange
<1>5. PICK t \in Seq(Nat) : t = InOrder(new) /\ Range(t) = new
  BY <1>3, InOrderRange
<1>6. PICK f, g : /\ f = [i \in DOMAIN s |-> Removed(s[i])]
                  /\ g = [i \in DOMAIN t |-> AddedOrUpdated(t[i], post[t[i]])]
  OBVIOUS
<1>7. LinkEvents(prior, post) = f \o g
  BY <1>1, <1>4, <1>5, <1>6, Zenon DEF LinkEvents
<1>8. \A href \in DOMAIN prior \cup DOMAIN post : href \in Others
  BY RootNotLinked DEF LinksOK, Others
<1>9. f \in Seq(RequestT)
  <2>1. \A i \in DOMAIN s : s[i] \in Others
    BY <1>1, <1>4, <1>8 DEF Range
  <2>2. \A i \in DOMAIN s : f[i] \in RequestT
    BY <1>6, <2>1 DEF RequestT, Removed
  <2>3. f = [i \in DOMAIN s |-> f[i]]
    BY <1>6
  <2>4. QED
    BY <2>2, <2>3, EachRange
<1>10. g \in Seq(RequestT)
  <2>1. ASSUME NEW i \in DOMAIN t
        PROVE  g[i] \in RequestT
    <3>1. PICK href \in DOMAIN post : href = t[i]
      BY <1>1, <1>5 DEF Range, Changed
    <3>2. PICK link \in [kind : Kinds, rate : PollRates] : link = post[href] /\ Named(link.kind, href)
      BY DEF LinksOK
    <3>3. href \in Others /\ href \in Nat \ {0}
      BY <1>8 DEF Others
    <3>4. PICK request : request = AddedOrUpdated(href, link)
      OBVIOUS
    <3>5. request \in RequestT
      BY <3>2, <3>3, <3>4 DEF AddedOrUpdated, RequestT
    <3>6. QED
      BY <1>6, <3>1, <3>2, <3>4, <3>5
  <2>2. g = [i \in DOMAIN t |-> g[i]]
    BY <1>6
  <2>3. QED
    BY <2>1, <2>2, EachRange
<1>11. PICK all \in Seq(RequestT) : all = f \o g /\ Range(all) = Range(f) \cup Range(g)
  BY <1>9, <1>10, Concat
<1>12. \A event : event \in Range(f) <=> \E href \in gone : event = Removed(href)
  BY <1>4, <1>6 DEF Range
<1>13. \A event : event \in Range(g) <=> \E href \in new : event = AddedOrUpdated(href, post[href])
  BY <1>5, <1>6 DEF Range
<1>14. ASSUME NEW event \in Range(all)
       PROVE  event = Said(event.href, post)
  <2>1. CASE event \in Range(f)
    <3>1. PICK href \in gone : event = Removed(href)
      BY <1>12, <2>1
    <3>2. event.href = href
      BY <3>1 DEF Removed
    <3>3. QED
      BY <1>1, <3>1, <3>2 DEF Said
  <2>2. CASE event \in Range(g)
    <3>1. PICK href \in new : event = AddedOrUpdated(href, post[href])
      BY <1>13, <2>2
    <3>2. event.href = href
      BY <3>1 DEF AddedOrUpdated
    <3>3. QED
      BY <1>1, <3>1, <3>2 DEF Said, Changed
  <2>3. QED
    BY <1>11, <2>1, <2>2
<1>15. ASSUME NEW href, Said(href, prior) # Said(href, post)
       PROVE  \E event \in Range(all) : event.href = href
  <2>1. href \in gone \/ href \in new
    BY <1>1, <1>15, Zenon DEF Said, Changed
  <2>2. CASE href \in gone
    <3>1. Removed(href) \in Range(all) /\ Removed(href).href = href
      BY <1>11, <1>12, <2>2 DEF Removed
    <3>2. QED
      BY <3>1, Zenon
  <2>3. CASE href \in new
    <3>1. PICK event : event = AddedOrUpdated(href, post[href])
      OBVIOUS
    <3>2. event \in Range(all) /\ event.href = href
      BY <1>11, <1>13, <2>3, <3>1 DEF AddedOrUpdated
    <3>3. QED
      BY <3>2, Zenon
  <2>4. QED
    BY <2>1, <2>2, <2>3
<1>16. QED
  BY <1>7, <1>11, <1>14, <1>15, Zenon

-----------------------------------------------------------------------------
(* The requests on their way, and the table of polls.                      *)

(* Follows, of any requests and any table. *)
About(rs, href) == {i \in DOMAIN rs : rs[i].href = href}

LastAbout(rs, href) == rs[Max(About(rs, href))]

FollowsIn(rs, table, href, links) ==
  IF About(rs, href) = {} THEN At(table, href) = Asked(links, href)
  ELSE LastAbout(rs, href) = Said(href, links)

(* The greatest of a set is the one that no other exceeds. *)
LEMMA MaxIs ==
  ASSUME NEW n \in Nat, NEW S, S \subseteq 1 .. n, NEW i \in S, \A j \in S : j <= i
  PROVE  Max(S) = i
<1>1. S \subseteq 0 .. n /\ S # {}
  OBVIOUS
<1>2. Max(S) \in S /\ \A y \in S : Max(S) >= y
  BY <1>1, MaxTo
<1>3. PICK k : k = Max(S)
  OBVIOUS
<1>4. k \in S /\ \A y \in S : k >= y
  BY <1>2, <1>3, Zenon
<1>5. k \in Nat /\ i \in Nat /\ k >= i /\ k <= i
  BY <1>4
<1>6. QED
  BY <1>3, <1>5

(* The last request about an href is about it. *)
LEMMA AboutMax ==
  ASSUME NEW X, NEW rs \in Seq(X), NEW href, About(rs, href) # {}
  PROVE  /\ Max(About(rs, href)) \in 1 .. Len(rs)
         /\ Max(About(rs, href)) \in About(rs, href)
         /\ \A j \in About(rs, href) : j <= Max(About(rs, href))
<1>1. PICK S : S = About(rs, href)
  OBVIOUS
<1>2. Len(rs) \in Nat /\ S \subseteq 0 .. Len(rs) /\ S \subseteq 1 .. Len(rs) /\ S # {}
  BY <1>1 DEF About
<1>3. Max(S) \in S /\ \A y \in S : Max(S) >= y
  BY <1>2, MaxTo
<1>4. \A y \in S : y <= Max(S)
  BY <1>2, <1>3
<1>5. QED
  BY <1>1, <1>2, <1>3, <1>4

(* What is added at the end that is about an href, is the last about it.   *)
LEMMA LastOfMore ==
  ASSUME NEW X, NEW rs \in Seq(X), NEW more \in Seq(X), NEW href, About(more, href) # {}
  PROVE  About(rs \o more, href) # {} /\ LastAbout(rs \o more, href) = LastAbout(more, href)
<1>1. PICK all : all = rs \o more
  OBVIOUS
<1>2. /\ Len(rs) \in Nat /\ Len(more) \in Nat /\ Len(all) = Len(rs) + Len(more)
      /\ DOMAIN rs = 1 .. Len(rs) /\ DOMAIN more = 1 .. Len(more) /\ DOMAIN all = 1 .. Len(all)
      /\ \A i \in 1 .. Len(more) : all[Len(rs) + i] = more[i]
      /\ all \in Seq(X)
  BY <1>1
<1>3. PICK m \in 1 .. Len(more) :
        m = Max(About(more, href)) /\ m \in About(more, href) /\ \A j \in About(more, href) : j <= m
  BY AboutMax
<1>4. PICK k : k = Len(rs) + m
  OBVIOUS
<1>5. k \in About(all, href) /\ all[k] = more[m]
  <2>1. k \in 1 .. Len(all)
    BY <1>2, <1>4
  <2>2. all[k] = more[m] /\ more[m].href = href
    BY <1>2, <1>3, <1>4 DEF About
  <2>3. QED
    BY <1>2, <2>1, <2>2 DEF About
<1>6. ASSUME NEW j \in About(all, href)
      PROVE  j <= k
  <2>1. j \in 1 .. Len(all) /\ all[j].href = href
    BY <1>2 DEF About
  <2>2. CASE j <= Len(rs)
    BY <1>2, <1>4, <2>1, <2>2
  <2>3. CASE ~(j <= Len(rs))
    <3>1. PICK i \in 1 .. Len(more) : i = j - Len(rs) /\ j = Len(rs) + i
      <4>1. j \in Nat /\ j <= Len(rs) + Len(more) /\ j > Len(rs)
        BY <1>2, <2>1, <2>3
      <4>2. j - Len(rs) \in 1 .. Len(more) /\ j = Len(rs) + (j - Len(rs))
        BY <1>2, <4>1
      <4>3. QED
        BY <4>2
    <3>2. i \in About(more, href)
      BY <1>2, <2>1, <3>1 DEF About
    <3>3. QED
      BY <1>2, <1>3, <1>4, <3>1, <3>2
  <2>4. QED
    BY <2>2, <2>3
<1>7. About(all, href) \subseteq 1 .. Len(all) /\ Len(all) \in Nat
  BY <1>2 DEF About
<1>8. Max(About(all, href)) = k
  BY <1>5, <1>6, <1>7, MaxIs
<1>9. LastAbout(all, href) = more[m]
  BY <1>5, <1>8, Zenon DEF LastAbout
<1>10. LastAbout(more, href) = more[m]
  BY <1>3, Zenon DEF LastAbout
<1>11. QED
  BY <1>1, <1>5, <1>9, <1>10

(* Nothing that is added about others changes what is the last about it.   *)
LEMMA LastWithout ==
  ASSUME NEW X, NEW rs \in Seq(X), NEW more \in Seq(X), NEW href, About(more, href) = {}
  PROVE  /\ About(rs \o more, href) = About(rs, href)
         /\ About(rs, href) # {} => LastAbout(rs \o more, href) = LastAbout(rs, href)
<1>1. PICK all : all = rs \o more
  OBVIOUS
<1>2. /\ Len(rs) \in Nat /\ Len(more) \in Nat /\ Len(all) = Len(rs) + Len(more)
      /\ DOMAIN rs = 1 .. Len(rs) /\ DOMAIN more = 1 .. Len(more) /\ DOMAIN all = 1 .. Len(all)
      /\ \A i \in 1 .. Len(rs) : all[i] = rs[i]
      /\ \A i \in 1 .. Len(more) : all[Len(rs) + i] = more[i]
  BY <1>1
<1>3. ASSUME NEW i \in About(all, href)
      PROVE  i \in About(rs, href)
  <2>1. i \in 1 .. Len(all) /\ all[i].href = href
    BY <1>2 DEF About
  <2>2. CASE i <= Len(rs)
    BY <1>2, <2>1, <2>2 DEF About
  <2>3. CASE ~(i <= Len(rs))
    <3>1. PICK j \in 1 .. Len(more) : i = Len(rs) + j
      <4>1. i \in Nat /\ i <= Len(rs) + Len(more) /\ i > Len(rs)
        BY <1>2, <2>1, <2>3
      <4>2. i - Len(rs) \in 1 .. Len(more) /\ i = Len(rs) + (i - Len(rs))
        BY <1>2, <4>1
      <4>3. QED
        BY <4>2
    <3>2. j \in About(more, href)
      BY <1>2, <2>1, <3>1 DEF About
    <3>3. QED
      BY <3>2
  <2>4. QED
    BY <2>2, <2>3
<1>4. ASSUME NEW i \in About(rs, href)
      PROVE  i \in About(all, href)
  BY <1>2 DEF About
<1>5. About(all, href) = About(rs, href)
  BY <1>3, <1>4
<1>6. ASSUME About(rs, href) # {}
      PROVE  LastAbout(all, href) = LastAbout(rs, href)
  <2>1. PICK m \in 1 .. Len(rs) : m = Max(About(rs, href))
    BY <1>6, AboutMax
  <2>2. all[m] = rs[m]
    BY <1>2
  <2>3. QED
    BY <1>5, <2>1, <2>2, Zenon DEF LastAbout
<1>7. QED
  BY <1>1, <1>5, <1>6

(* What is left when the first is taken. *)
LEMMA LastOfRest ==
  ASSUME NEW X, NEW rs \in Seq(X), rs # <<>>, NEW href
  PROVE  /\ Head(rs).href # href => (About(Tail(rs), href) = {} <=> About(rs, href) = {})
         /\ Head(rs).href = href => About(rs, href) # {}
         /\ About(Tail(rs), href) # {} => /\ About(rs, href) # {}
                                          /\ LastAbout(Tail(rs), href) = LastAbout(rs, href)
         /\ About(Tail(rs), href) = {} /\ Head(rs).href = href => LastAbout(rs, href) = Head(rs)
<1>1. PICK rest, first : rest = Tail(rs) /\ first = Head(rs)
  OBVIOUS
<1>2. /\ Len(rs) \in Nat /\ Len(rs) >= 1 /\ Len(rest) = Len(rs) - 1 /\ Len(rest) \in Nat
      /\ DOMAIN rs = 1 .. Len(rs) /\ DOMAIN rest = 1 .. Len(rest)
      /\ \A i \in 1 .. Len(rest) : rest[i] = rs[i + 1]
      /\ first = rs[1]
      /\ rest \in Seq(X)
  BY <1>1
<1>3. \A i \in 1 .. Len(rest) : i \in About(rest, href) <=> i + 1 \in About(rs, href)
  BY <1>2 DEF About
<1>4. 1 \in About(rs, href) <=> first.href = href
  BY <1>2 DEF About
<1>5. \A i \in About(rs, href) : i = 1 \/ (i - 1 \in 1 .. Len(rest) /\ i - 1 \in About(rest, href))
  BY <1>2 DEF About
<1>6. \A i \in About(rest, href) : i \in 1 .. Len(rest) /\ i + 1 \in About(rs, href)
  BY <1>2, <1>3 DEF About
<1>7. first.href # href => (About(rest, href) = {} <=> About(rs, href) = {})
  BY <1>4, <1>5, <1>6
<1>8. About(rs, href) \subseteq 1 .. Len(rs)
  BY <1>2 DEF About
<1>9. ASSUME About(rest, href) # {}
      PROVE  About(rs, href) # {} /\ LastAbout(rest, href) = LastAbout(rs, href)
  <2>1. PICK m \in 1 .. Len(rest) :
          m = Max(About(rest, href)) /\ m \in About(rest, href) /\ \A j \in About(rest, href) : j <= m
    BY <1>2, <1>9, AboutMax
  <2>2. PICK k \in About(rs, href) : k = m + 1
    BY <1>6, <2>1
  <2>3. \A j \in About(rs, href) : j <= k
    BY <1>2, <1>5, <1>8, <2>1, <2>2
  <2>4. Max(About(rs, href)) = k
    BY <1>2, <1>8, <2>3, MaxIs
  <2>5. rest[m] = rs[k]
    BY <1>2, <2>2
  <2>6. QED
    BY <2>1, <2>2, <2>4, <2>5, Zenon DEF LastAbout
<1>10. ASSUME About(rest, href) = {}, first.href = href
       PROVE  LastAbout(rs, href) = first
  <2>1. PICK k \in About(rs, href) : k = 1
    BY <1>4, <1>10
  <2>2. \A j \in About(rs, href) : j <= k
    BY <1>5, <1>10, <2>1
  <2>3. Max(About(rs, href)) = k
    BY <1>2, <1>8, <2>2, MaxIs
  <2>4. QED
    BY <1>2, <2>1, <2>3, Zenon DEF LastAbout
<1>11. QED
  BY <1>1, <1>4, <1>7, <1>9, <1>10

(* Links of which the same is said are the same. *)
LEMMA SameLinks ==
  ASSUME NEW prior, LinksOK(prior), NEW post, LinksOK(post), NEW href,
         Said(href, prior) = Said(href, post)
  PROVE  At(prior, href) = At(post, href)
<1>1. \A link : AddedOrUpdated(href, link).type # Removed(href).type
  BY DEF AddedOrUpdated, Removed
<1>2. href \in DOMAIN prior <=> href \in DOMAIN post
  BY <1>1 DEF Said
<1>3. CASE href \notin DOMAIN prior
  BY <1>2, <1>3 DEF At
<1>4. CASE href \in DOMAIN prior
  <2>1. PICK a \in [kind : Kinds, rate : PollRates] : a = prior[href]
    BY <1>4 DEF LinksOK
  <2>2. PICK b \in [kind : Kinds, rate : PollRates] : b = post[href]
    BY <1>2, <1>4 DEF LinksOK
  <2>3. AddedOrUpdated(href, a) = AddedOrUpdated(href, b)
    BY <1>2, <1>4, <2>1, <2>2 DEF Said
  <2>4. a.kind = b.kind /\ a.rate = b.rate
    BY <2>3 DEF AddedOrUpdated
  <2>5. a = b
    BY <2>4
  <2>6. At(prior, href) = {a} /\ At(post, href) = {b}
    BY <1>2, <1>4, <2>1, <2>2 DEF At
  <2>7. QED
    BY <2>5, <2>6
<1>5. QED
  BY <1>3, <1>4

(* The events bring a table that follows some links to follow those after. *)
LEMMA FollowsMore ==
  ASSUME KindsStay(Trees), NEW prior, LinksOK(prior), NEW post, LinksOK(post),
         NEW rs \in Seq(RequestT), NEW table, NEW href,
         Said(href, prior) = Said(href, post) => FollowsIn(rs, table, href, prior)
  PROVE  FollowsIn(rs \o LinkEvents(prior, post), table, href, post)
<1>1. PICK more \in Seq(RequestT) : more = LinkEvents(prior, post)
  BY LinkEventsSay
<1>2. /\ \A event \in Range(more) : event = Said(event.href, post)
      /\ Said(href, prior) # Said(href, post) => \E event \in Range(more) : event.href = href
  BY <1>1, LinkEventsSay
<1>3. CASE About(more, href) # {}
  <2>1. PICK m \in 1 .. Len(more) : m = Max(About(more, href)) /\ m \in About(more, href)
    BY <1>3, AboutMax
  <2>2. more[m] \in Range(more) /\ more[m].href = href
    BY <2>1 DEF Range, About
  <2>3. LastAbout(more, href) = Said(href, post)
    BY <1>2, <2>1, <2>2, Zenon DEF LastAbout
  <2>4. About(rs \o more, href) # {} /\ LastAbout(rs \o more, href) = LastAbout(more, href)
    BY <1>3, LastOfMore
  <2>5. QED
    BY <1>1, <2>3, <2>4 DEF FollowsIn
<1>4. CASE About(more, href) = {}
  <2>1. Said(href, prior) = Said(href, post)
    BY <1>2, <1>4 DEF About, Range
  <2>2. FollowsIn(rs, table, href, prior)
    BY <2>1
  <2>3. Asked(prior, href) = Asked(post, href)
    <3>1. At(prior, href) = At(post, href)
      BY <2>1, SameLinks
    <3>2. QED
      BY <3>1, Zenon DEF Asked
  <2>4. PICK all : all = rs \o more
    OBVIOUS
  <2>5. /\ About(all, href) = About(rs, href)
        /\ About(rs, href) # {} => LastAbout(all, href) = LastAbout(rs, href)
    BY <1>4, <2>4, LastWithout
  <2>6. FollowsIn(all, table, href, post)
    <3>1. CASE About(rs, href) = {}
      <4>1. At(table, href) = Asked(prior, href)
        BY <2>2, <3>1, Zenon DEF FollowsIn
      <4>2. QED
        BY <2>3, <2>5, <3>1, <4>1, Zenon DEF FollowsIn
    <3>2. CASE About(rs, href) # {}
      <4>1. LastAbout(rs, href) = Said(href, prior)
        BY <2>2, <3>2, Zenon DEF FollowsIn
      <4>2. QED
        BY <2>1, <2>5, <3>2, <4>1, Zenon DEF FollowsIn
    <3>3. QED
      BY <3>1, <3>2
  <2>7. QED
    BY <1>1, <2>4, <2>6
<1>5. QED
  BY <1>3, <1>4

(* A request removes a link, or names it. *)
LEMMA Requested ==
  ASSUME NEW r \in RequestT
  PROVE  \/ r.type = "LinkRemoved" /\ r.href \in Others
         \/ /\ r.type = "LinkAddedOrUpdated" /\ r.href \in Others
            /\ r.kind \in Kinds /\ r.rate \in PollRates /\ Named(r.kind, r.href)
BY DEF RequestT

(* What obeying a request makes of a table, by its parts. *)
LEMMA ObeyedRemoved ==
  ASSUME NEW table, PollsOK(table), NEW r \in RequestT, r.type = "LinkRemoved",
         NEW new, new = Obeyed(table, r)
  PROVE  new = [href \in DOMAIN table \ {r.href} |-> table[href]]
<1>1. new = Restrict(table, DOMAIN table \ {r.href})
  BY DEF Obeyed
<1>2. QED
  BY <1>1, Zenon DEF Restrict

(* A poll that exists keeps its kind and has the new rate. *)
LEMMA ObeyedUpdated ==
  ASSUME NEW table, PollsOK(table), NEW r \in RequestT, r.type = "LinkAddedOrUpdated",
         r.href \in DOMAIN table, NEW new, new = Obeyed(table, r)
  PROVE  new = [href \in DOMAIN table |->
                  IF href = r.href THEN [kind |-> table[href].kind, rate |-> Rate(r)] ELSE table[href]]
<1>1. PICK rate : rate = Rate(r)
  OBVIOUS
<1>2. PICK h \in DOMAIN table : h = r.href
  OBVIOUS
<1>3. new = [table EXCEPT ![h].rate = rate]
  BY <1>1, <1>2 DEF Obeyed
<1>4. PICK k, old : table[h] = [kind |-> k, rate |-> old] /\ table[h].kind = k
  BY DEF PollsOK
<1>5. [table[h] EXCEPT !.rate = rate] = [kind |-> k, rate |-> rate]
  BY <1>4
<1>6. table = [href \in DOMAIN table |-> table[href]]
  BY DEF PollsOK
<1>7. PICK entry : entry = [table[h] EXCEPT !.rate = rate]
  OBVIOUS
<1>8. new = [table EXCEPT ![h] = entry]
  BY <1>3, <1>7
<1>9. new = [href \in DOMAIN table |-> IF href = h THEN entry ELSE table[href]]
  BY <1>6, <1>8
<1>10. QED
  BY <1>1, <1>2, <1>4, <1>5, <1>7, <1>9

(* A poll is made for a resource that is polled. *)
LEMMA ObeyedAdded ==
  ASSUME NEW table, PollsOK(table), NEW r \in RequestT, r.type = "LinkAddedOrUpdated",
         r.href \notin DOMAIN table, NEW new, new = Obeyed(table, r)
  PROVE  /\ r.kind \in NotPolled => new = table
         /\ r.kind \notin NotPolled =>
              new = [href \in DOMAIN table \cup {r.href} |->
                       IF href = r.href THEN [kind |-> r.kind, rate |-> Rate(r)] ELSE table[href]]
  BY DEF Obeyed, Inserted

(* The rate of a request is that of a poll. *)
LEMMA RateType ==
  ASSUME NEW r \in RequestT, r.type = "LinkAddedOrUpdated"
  PROVE  Rate(r) \in Nat
<1>1. DefaultRate \in Nat
  BY SubscriptionsAssumption
<1>2. r.rate \in PollRates
  BY Requested
<1>3. QED
  BY <1>1, <1>2 DEF Rate, PollRates

(* A table of polls stays one. *)
LEMMA ObeyedPolls ==
  ASSUME NEW table, PollsOK(table), NEW r \in RequestT
  PROVE  PollsOK(Obeyed(table, r))
<1>1. PICK new : new = Obeyed(table, r)
  OBVIOUS
<1>2. r.href # Root
  BY Requested DEF Others
<1>3. CASE r.type = "LinkRemoved"
  <2>1. new = [href \in DOMAIN table \ {r.href} |-> table[href]]
    BY <1>1, <1>3, ObeyedRemoved
  <2>2. QED
    BY <1>1, <1>2, <2>1 DEF PollsOK
<1>4. CASE r.type = "LinkAddedOrUpdated" /\ r.href \in DOMAIN table
  <2>1. new = [href \in DOMAIN table |->
                 IF href = r.href THEN [kind |-> table[href].kind, rate |-> Rate(r)] ELSE table[href]]
    BY <1>1, <1>4, ObeyedUpdated
  <2>2. PICK rate \in Nat : rate = Rate(r)
    BY <1>4, RateType
  <2>3. QED
    BY <1>1, <1>2, <2>1, <2>2 DEF PollsOK
<1>5. CASE r.type = "LinkAddedOrUpdated" /\ r.href \notin DOMAIN table
  <2>1. /\ r.kind \in NotPolled => new = table
        /\ r.kind \notin NotPolled =>
             new = [href \in DOMAIN table \cup {r.href} |->
                      IF href = r.href THEN [kind |-> r.kind, rate |-> Rate(r)] ELSE table[href]]
    BY <1>1, <1>5, ObeyedAdded
  <2>2. Named(r.kind, r.href)
    BY <1>5, Requested
  <2>3. CASE r.kind \in NotPolled
    BY <1>1, <2>1, <2>3
  <2>4. CASE r.kind \notin NotPolled
    <3>1. PICK rate \in Nat : rate = Rate(r)
      BY <1>5, RateType
    <3>2. QED
      BY <1>1, <2>1, <2>2, <2>4, <3>1 DEF PollsOK
  <2>5. QED
    BY <2>3, <2>4
<1>6. QED
  BY <1>3, <1>4, <1>5, Requested

(* The same, for the href that is named and for any other. *)
LEMMA ObeyedHere ==
  ASSUME NEW table, PollsOK(table), NEW r \in RequestT, NEW new, new = Obeyed(table, r)
  PROVE  \/ r.type = "LinkRemoved" /\ r.href \notin DOMAIN new
         \/ /\ r.type = "LinkAddedOrUpdated"
            /\ r.href \in DOMAIN table /\ r.href \in DOMAIN new
            /\ new[r.href] = [kind |-> table[r.href].kind, rate |-> Rate(r)]
         \/ /\ r.type = "LinkAddedOrUpdated" /\ r.kind \in NotPolled
            /\ r.href \notin DOMAIN table /\ r.href \notin DOMAIN new
         \/ /\ r.type = "LinkAddedOrUpdated" /\ r.kind \notin NotPolled
            /\ r.href \notin DOMAIN table /\ r.href \in DOMAIN new
            /\ new[r.href] = [kind |-> r.kind, rate |-> Rate(r)]
<1>1. CASE r.type = "LinkRemoved"
  <2>1. new = [h \in DOMAIN table \ {r.href} |-> table[h]]
    BY <1>1, ObeyedRemoved
  <2>2. QED
    BY <1>1, <2>1
<1>2. CASE r.type = "LinkAddedOrUpdated" /\ r.href \in DOMAIN table
  <2>1. new = [h \in DOMAIN table |->
                 IF h = r.href THEN [kind |-> table[h].kind, rate |-> Rate(r)] ELSE table[h]]
    BY <1>2, ObeyedUpdated
  <2>2. QED
    BY <1>2, <2>1
<1>3. CASE r.type = "LinkAddedOrUpdated" /\ r.href \notin DOMAIN table
  <2>1. CASE r.kind \in NotPolled
    <3>1. new = table
      BY <1>3, <2>1, ObeyedAdded
    <3>2. QED
      BY <1>3, <2>1, <3>1
  <2>2. CASE r.kind \notin NotPolled
    <3>1. new = [h \in DOMAIN table \cup {r.href} |->
                   IF h = r.href THEN [kind |-> r.kind, rate |-> Rate(r)] ELSE table[h]]
      BY <1>3, <2>2, ObeyedAdded
    <3>2. QED
      BY <1>3, <2>2, <3>1
  <2>3. QED
    BY <2>1, <2>2
<1>4. QED
  BY <1>1, <1>2, <1>3, Requested

(* What a request does not name keeps its entry. *)
LEMMA ObeyedThere ==
  ASSUME NEW table, PollsOK(table), NEW r \in RequestT, NEW new, new = Obeyed(table, r),
         NEW href, href # r.href
  PROVE  /\ href \in DOMAIN new <=> href \in DOMAIN table
         /\ href \in DOMAIN table => new[href] = table[href]
<1>1. CASE r.type = "LinkRemoved"
  <2>1. new = [h \in DOMAIN table \ {r.href} |-> table[h]]
    BY <1>1, ObeyedRemoved
  <2>2. QED
    BY <1>1, <2>1
<1>2. CASE r.type = "LinkAddedOrUpdated" /\ r.href \in DOMAIN table
  <2>1. new = [h \in DOMAIN table |->
                 IF h = r.href THEN [kind |-> table[h].kind, rate |-> Rate(r)] ELSE table[h]]
    BY <1>2, ObeyedUpdated
  <2>2. QED
    BY <1>2, <2>1
<1>3. CASE r.type = "LinkAddedOrUpdated" /\ r.href \notin DOMAIN table
  <2>1. CASE r.kind \in NotPolled
    <3>1. new = table
      BY <1>3, <2>1, ObeyedAdded
    <3>2. QED
      BY <1>3, <2>1, <3>1
  <2>2. CASE r.kind \notin NotPolled
    <3>1. new = [h \in DOMAIN table \cup {r.href} |->
                   IF h = r.href THEN [kind |-> r.kind, rate |-> Rate(r)] ELSE table[h]]
      BY <1>3, <2>2, ObeyedAdded
    <3>2. QED
      BY <1>3, <2>2, <3>1
  <2>3. QED
    BY <2>1, <2>2
<1>4. QED
  BY <1>1, <1>2, <1>3, Requested

(* What a request does not name stays as it is. *)
LEMMA ObeyedElsewhere ==
  ASSUME NEW table, PollsOK(table), NEW r \in RequestT, NEW href, href # r.href
  PROVE  At(Obeyed(table, r), href) = At(table, href)
<1>1. PICK new : new = Obeyed(table, r)
  OBVIOUS
<1>2. href \in DOMAIN new <=> href \in DOMAIN table
  BY <1>1, ObeyedThere
<1>3. href \in DOMAIN table => new[href] = table[href]
  BY <1>1, ObeyedThere
<1>4. At(new, href) = At(table, href)
  BY <1>2, <1>3 DEF At
<1>5. QED
  BY <1>1, <1>4

(* What it does name is then what it asks for. *)
LEMMA ObeyedAsks ==
  ASSUME KindsStay(Trees), NEW links, LinksOK(links), NEW table, PollsOK(table),
         NEW r \in RequestT, r = Said(r.href, links)
  PROVE  At(Obeyed(table, r), r.href) = Asked(links, r.href)
<1>1. PICK new : new = Obeyed(table, r)
  OBVIOUS
<1>2. PICK h : h = r.href
  OBVIOUS
<1>3. \/ r.type = "LinkRemoved" /\ h \notin DOMAIN new
      \/ /\ r.type = "LinkAddedOrUpdated"
         /\ h \in DOMAIN table /\ h \in DOMAIN new
         /\ new[h] = [kind |-> table[h].kind, rate |-> Rate(r)]
      \/ /\ r.type = "LinkAddedOrUpdated" /\ r.kind \in NotPolled
         /\ h \notin DOMAIN table /\ h \notin DOMAIN new
      \/ /\ r.type = "LinkAddedOrUpdated" /\ r.kind \notin NotPolled
         /\ h \notin DOMAIN table /\ h \in DOMAIN new
         /\ new[h] = [kind |-> r.kind, rate |-> Rate(r)]
  BY <1>1, <1>2, ObeyedHere
<1>4. CASE r.type = "LinkRemoved"
  <2>1. h \notin DOMAIN links
    BY <1>2, <1>4 DEF Said, AddedOrUpdated
  <2>2. Asked(links, h) = {}
    BY <2>1 DEF Asked, At
  <2>3. h \notin DOMAIN new
    BY <1>2, <1>4, <1>3
  <2>4. QED
    BY <1>1, <1>2, <2>2, <2>3 DEF At
<1>5. CASE r.type = "LinkAddedOrUpdated"
  <2>1. h \in DOMAIN links
    BY <1>2, <1>5 DEF Said, Removed
  <2>2. PICK link \in [kind : Kinds, rate : PollRates] : link = links[h] /\ Named(link.kind, h)
    BY <2>1 DEF LinksOK
  <2>3. r.kind = link.kind /\ r.rate = link.rate
    BY <1>2, <2>1, <2>2 DEF Said, AddedOrUpdated
  <2>4. At(links, h) = {link}
    BY <2>1, <2>2 DEF At
  <2>5. Rate(r) = Rate(link)
    BY <2>3, Zenon DEF Rate
  <2>6. CASE link.kind \in NotPolled
    <3>1. Asked(links, h) = {}
      BY <2>4, <2>6 DEF Asked
    <3>2. h \notin DOMAIN table
      BY <2>2, <2>6 DEF PollsOK, KindsStay, Named
    <3>3. h \notin DOMAIN new
      BY <1>2, <1>5, <1>3, <2>3, <2>6, <3>2
    <3>4. QED
      BY <1>1, <1>2, <3>1, <3>2, <3>3 DEF At
  <2>7. CASE link.kind \notin NotPolled
    <3>1. Asked(links, h) = {[kind |-> link.kind, rate |-> Rate(link)]}
      BY <2>4, <2>7 DEF Asked
    <3>2. h \in DOMAIN new /\ new[h] = [kind |-> link.kind, rate |-> Rate(link)]
      <4>1. CASE h \in DOMAIN table
        <5>1. table[h].kind = link.kind
          BY <2>2, <4>1 DEF PollsOK, KindsStay, Named
        <5>2. QED
          BY <1>1, <1>2, <1>5, <2>5, <4>1, <1>3, <5>1
      <4>2. CASE h \notin DOMAIN table
        BY <1>1, <1>2, <1>5, <2>3, <2>5, <2>7, <1>3, <4>2
      <4>3. QED
        BY <4>1, <4>2
    <3>3. QED
      BY <1>1, <1>2, <3>1, <3>2 DEF At
  <2>8. QED
    BY <2>6, <2>7
<1>6. QED
  BY <1>4, <1>5, Requested

(* A request that is obeyed leaves the table following the same links. *)
LEMMA FollowsLess ==
  ASSUME KindsStay(Trees), NEW links, LinksOK(links), NEW table, PollsOK(table),
         NEW rs \in Seq(RequestT), rs # <<>>, NEW href, FollowsIn(rs, table, href, links)
  PROVE  FollowsIn(Tail(rs), Obeyed(table, Head(rs)), href, links)
<1>1. PICK r \in RequestT : r = Head(rs)
  OBVIOUS
<1>2. PICK rest \in Seq(RequestT) : rest = Tail(rs)
  <2>1. Tail(rs) \in Seq(RequestT)
    OBVIOUS
  <2>2. QED
    BY <2>1
<1>3. PICK new : new = Obeyed(table, r)
  OBVIOUS
<1>4. /\ r.href # href => (About(rest, href) = {} <=> About(rs, href) = {})
      /\ r.href = href => About(rs, href) # {}
      /\ About(rest, href) # {} => /\ About(rs, href) # {}
                                   /\ LastAbout(rest, href) = LastAbout(rs, href)
      /\ About(rest, href) = {} /\ r.href = href => LastAbout(rs, href) = r
  BY <1>1, <1>2, LastOfRest
<1>5. CASE About(rest, href) # {}
  BY <1>1, <1>2, <1>4, <1>5 DEF FollowsIn
<1>6. CASE About(rest, href) = {} /\ r.href # href
  <2>1. At(table, href) = Asked(links, href)
    BY <1>4, <1>6 DEF FollowsIn
  <2>2. At(Obeyed(table, r), href) = At(table, href)
    BY <1>6, ObeyedElsewhere
  <2>3. QED
    BY <1>1, <1>2, <1>6, <2>1, <2>2 DEF FollowsIn
<1>7. CASE About(rest, href) = {} /\ r.href = href
  <2>1. r = Said(r.href, links)
    BY <1>4, <1>7 DEF FollowsIn
  <2>2. At(Obeyed(table, r), r.href) = Asked(links, r.href)
    BY <2>1, ObeyedAsks
  <2>3. QED
    BY <1>1, <1>2, <1>7, <2>2 DEF FollowsIn
<1>8. QED
  BY <1>5, <1>6, <1>7

-----------------------------------------------------------------------------
(* The types of the variables. *)

(* Every href is a number above zero, and where every resource is. *)
LEMMA HrefsType ==
  /\ Hrefs \subseteq Nat \ {0}
  /\ \A doc \in Docs : doc.href \in Hrefs
<1>1. ASSUME NEW doc \in Docs, NEW link \in Linked(doc)
      PROVE  link.href \in Nat \ {0}
  <2>1. PICK i \in DOMAIN doc.items : link \in Range(doc.items[i].links)
    BY DEF Linked
  <2>2. PICK links \in Seq(LinkT) : links = doc.items[i].links
    BY DocType
  <2>3. PICK j \in DOMAIN links : link = links[j]
    BY <2>1, <2>2 DEF Range
  <2>4. links[j] \in LinkT
    OBVIOUS
  <2>5. QED
    BY <2>3, <2>4 DEF LinkT
<1>2. QED
  BY <1>1, DocType DEF Hrefs

(* Only linked resources and the DeviceCapability are polled. *)
LEMMA PolledHrefs ==
  ASSUME NEW table, PollsOK(table)
  PROVE  DOMAIN table \subseteq Hrefs
<1>1. ASSUME NEW href \in DOMAIN table
      PROVE  href \in Hrefs
  <2>1. table[href].kind \notin NotPolled /\ Named(table[href].kind, href)
    BY DEF PollsOK
  <2>2. PICK kind : kind = table[href].kind
    OBVIOUS
  <2>3. PICK doc \in Docs : [kind |-> kind, href |-> href] \in NamedBy(doc)
    BY <2>1, <2>2 DEF Named, Names, Docs
  <2>4. CASE [kind |-> kind, href |-> href] = [kind |-> doc.kind, href |-> doc.href]
    <3>1. href = doc.href
      BY <2>4
    <3>2. QED
      BY <3>1, HrefsType
  <2>5. CASE [kind |-> kind, href |-> href] \in Linked(doc)
    <3>1. PICK link \in Linked(doc) : link = [kind |-> kind, href |-> href]
      BY <2>5
    <3>2. link.href = href
      BY <3>1
    <3>3. href \in {l.href : l \in Linked(doc)}
      BY <3>1, <3>2
    <3>4. QED
      BY <3>3 DEF Hrefs
  <2>6. CASE \E i \in DOMAIN doc.items :
               /\ doc.kind \in ListKinds
               /\ [kind |-> kind, href |-> href]
                    = [kind |-> ItemKind(doc.kind), href |-> doc.items[i].href]
    <3>1. doc.kind \in ListKinds /\ kind = ItemKind(doc.kind)
      BY <2>6
    <3>2. ItemKind(doc.kind) \in NotPolled
      BY <3>1 DEF ItemKind, NotPolled, ListKinds
    <3>3. QED
      BY <2>1, <2>2, <3>1, <3>2
  <2>7. QED
    BY <2>3, <2>4, <2>5, <2>6 DEF NamedBy
<1>2. QED
  BY <1>1

(* What arrives, and what is taken. *)
LEMMA ArrivesType ==
  ASSUME NEW found \in [Hrefs -> Seq(Docs)], NEW doc \in Docs
  PROVE  [found EXCEPT ![doc.href] = Append(@, doc)] \in [Hrefs -> Seq(Docs)]
<1>1. doc.href \in Hrefs
  BY HrefsType
<1>2. Append(found[doc.href], doc) \in Seq(Docs)
  BY <1>1
<1>3. QED
  BY <1>1, <1>2

(* What is taken is one of the resources. *)
LEMMA TakenType ==
  ASSUME NEW found \in [Hrefs -> Seq(Docs)], NEW href \in Hrefs, found[href] # <<>>
  PROVE  /\ Head(found[href]) \in Docs
         /\ [found EXCEPT ![href] = Tail(@)] \in [Hrefs -> Seq(Docs)]
<1>1. found[href] \in Seq(Docs)
  OBVIOUS
<1>2. PICK s \in Seq(Docs) : s = found[href]
  BY <1>1
<1>3. Head(s) \in Docs
  BY <1>2
<1>4. Tail(s) \in Seq(Docs)
  BY <1>2
<1>5. QED
  BY <1>2, <1>3, <1>4

(* What is served is one of them too. *)
LEMMA FoundDocs ==
  ASSUME server \in DOMAIN Trees, NEW href, NEW kind, NEW doc \in Found(href, kind)
  PROVE  doc \in Docs
  BY DEF Found, Served, Docs

(* The DeviceCapability is polled from the start. *)
LEMMA RootPollOK == PollsOK(RootPoll)
<1>1. PICK poll : poll = [kind |-> "DeviceCapability", rate |-> DefaultRate]
  OBVIOUS
<1>2. poll.kind = "DeviceCapability" /\ poll = [kind |-> poll.kind, rate |-> poll.rate]
  BY <1>1
<1>3. RootPoll = [href \in {Root} |-> poll]
  BY <1>1 DEF RootPoll
<1>4. "DeviceCapability" \notin NotPolled
  BY DEF NotPolled
<1>5. PICK table : table = RootPoll
  OBVIOUS
<1>6. DOMAIN table = {Root} /\ table[Root] = poll /\ table = [href \in DOMAIN table |-> table[href]]
  BY <1>3, <1>5
<1>7. poll.rate \in Nat
  BY <1>1, SubscriptionsAssumption
<1>8. QED
  BY <1>2, <1>4, <1>5, <1>6, <1>7, RootNamed DEF PollsOK

(* RefreshActiveResources starts from no links. *)
LEMMA NoLinksOK == LinksOK(NoLinks)
  BY DEF LinksOK, NoLinks

(* The initial state has the types. *)
LEMMA InitTypeOK ==
  ASSUME Init
  PROVE  TypeOK
<1>1. server \in DOMAIN Trees
  BY SubscriptionsAssumption DEF Init
<1>2. used \in [crashes : 0 .. MaxCrashes, failures : 0 .. MaxFailures]
  BY SubscriptionsAssumption DEF Init
<1>3. results \in [Hrefs -> Seq(Docs)]
  BY DEF Init, NoResults
<1>4. requests \in Seq(RequestT) /\ refresh \in BOOLEAN
  BY DEF Init
<1>5. PollsOK(polls)
  BY RootPollOK DEF Init
<1>6. ModelOK(model)
  BY EmptyModelType DEF Init
<1>7. QED
  BY <1>1, <1>2, <1>3, <1>4, <1>5, <1>6 DEF TypeOK

(* What is used stays within the bounds. *)
LEMMA UsedType ==
  ASSUME NEW u \in [crashes : 0 .. MaxCrashes, failures : 0 .. MaxFailures]
  PROVE  /\ u.crashes < MaxCrashes =>
              [u EXCEPT !.crashes = @ + 1] \in [crashes : 0 .. MaxCrashes, failures : 0 .. MaxFailures]
         /\ u.failures < MaxFailures =>
              [u EXCEPT !.failures = @ + 1] \in [crashes : 0 .. MaxCrashes, failures : 0 .. MaxFailures]
<1>1. MaxCrashes \in Nat /\ MaxFailures \in Nat
  BY SubscriptionsAssumption
<1>2. ASSUME u.crashes < MaxCrashes
      PROVE  u.crashes + 1 \in 0 .. MaxCrashes
  BY <1>1, <1>2
<1>3. ASSUME u.failures < MaxFailures
      PROVE  u.failures + 1 \in 0 .. MaxFailures
  BY <1>1, <1>3
<1>4. QED
  BY <1>2, <1>3

(* A request, which is obeyed, and what it may have fetched. *)
LEMMA RequestTypeOK ==
  ASSUME TypeOK, TakeRequest
  PROVE  TypeOK'
<1>1. PICK r \in RequestT : r = Head(requests)
  BY DEF TypeOK, TakeRequest
<1>2. polls' = Obeyed(polls, r) /\ requests' = Tail(requests)
      /\ UNCHANGED <<server, model, refresh>>
  BY <1>1 DEF TakeRequest
<1>3. PollsOK(polls')
  BY <1>2, ObeyedPolls DEF TypeOK
<1>4. requests' \in Seq(RequestT)
  BY <1>2 DEF TypeOK, TakeRequest
<1>5. \/ UNCHANGED <<results, used>>
      \/ (\E doc \in Found(r.href, r.kind) : Arrives(doc)) /\ UNCHANGED used
      \/ /\ used.failures < MaxFailures
         /\ used' = [used EXCEPT !.failures = @ + 1]
         /\ UNCHANGED results
  BY <1>1, Zenon DEF TakeRequest
<1>6. results' \in [Hrefs -> Seq(Docs)] /\ used' \in [crashes : 0 .. MaxCrashes, failures : 0 .. MaxFailures]
  <2>1. CASE UNCHANGED <<results, used>>
    BY <2>1 DEF TypeOK
  <2>2. CASE (\E doc \in Found(r.href, r.kind) : Arrives(doc)) /\ UNCHANGED used
    <3>1. PICK doc \in Found(r.href, r.kind) : Arrives(doc)
      BY <2>2
    <3>2. doc \in Docs
      BY FoundDocs DEF TypeOK
    <3>3. results' \in [Hrefs -> Seq(Docs)]
      BY <3>1, <3>2, ArrivesType DEF Arrives, TypeOK
    <3>4. QED
      BY <2>2, <3>3 DEF TypeOK
  <2>3. CASE /\ used.failures < MaxFailures
             /\ used' = [used EXCEPT !.failures = @ + 1]
             /\ UNCHANGED results
    BY <2>3, UsedType DEF TypeOK
  <2>4. QED
    BY <1>5, <2>1, <2>2, <2>3
<1>7. QED
  BY <1>2, <1>3, <1>4, <1>6 DEF TypeOK

(* Every step keeps the types. *)
LEMMA NextTypeOK ==
  ASSUME KindsStay(Trees), TypeOK, [Next]_vars
  PROVE  TypeOK'
<1>1. CASE ServerChanges
  BY <1>1, SubscriptionsAssumption DEF ServerChanges, TypeOK
<1>2. CASE TakeRefresh
  <2>1. RefreshEvents(model) \in Seq(RequestT)
    BY NoLinksOK, LinksTable, LinkEventsSay DEF RefreshEvents, TypeOK
  <2>2. PICK more \in Seq(RequestT) : requests' = requests \o more /\ refresh' = FALSE
    BY <1>2, <2>1 DEF TakeRefresh, Refreshed
  <2>3. requests' \in Seq(RequestT)
    BY <2>2 DEF TypeOK
  <2>4. refresh' \in BOOLEAN
    BY <2>2
  <2>5. UNCHANGED <<server, model, results, polls, used>>
    BY <1>2 DEF TakeRefresh
  <2>6. QED
    BY <2>5, <2>3, <2>4 DEF TypeOK
<1>3. CASE TakeRequest
  BY <1>3, RequestTypeOK
<1>4. CASE CrashAndRestart
  <2>1. PollsOK(polls')
    BY <1>4, RootPollOK DEF CrashAndRestart
  <2>2. used' \in [crashes : 0 .. MaxCrashes, failures : 0 .. MaxFailures]
    BY <1>4, UsedType DEF CrashAndRestart, TypeOK
  <2>3. results' \in [Hrefs -> Seq(Docs)] /\ requests' \in Seq(RequestT) /\ refresh' \in BOOLEAN
    BY <1>4 DEF CrashAndRestart, NoResults
  <2>4. UNCHANGED <<server, model>>
    BY <1>4 DEF CrashAndRestart
  <2>5. QED
    BY <2>1, <2>2, <2>3, <2>4 DEF TypeOK
<1>5. ASSUME NEW href \in Hrefs, PollBrings(href)
      PROVE  TypeOK'
  <2>1. PICK doc \in Found(href, polls[href].kind) : Arrives(doc)
    BY <1>5 DEF PollBrings
  <2>2. doc \in Docs
    BY FoundDocs DEF TypeOK
  <2>3. results' \in [Hrefs -> Seq(Docs)]
    BY <2>1, <2>2, ArrivesType DEF Arrives, TypeOK
  <2>4. UNCHANGED <<server, model, refresh, requests, polls, used>>
    BY <1>5 DEF PollBrings
  <2>5. QED
    BY <2>3, <2>4 DEF TypeOK
<1>6. ASSUME NEW href \in Hrefs, TakeResult(href)
      PROVE  TypeOK'
  <2>1. /\ Head(results[href]) \in Docs
        /\ results' \in [Hrefs -> Seq(Docs)]
    BY <1>6, TakenType DEF TakeResult, ResultTaken, TypeOK
  <2>2. PICK doc \in Docs : doc = Head(results[href])
    BY <2>1
  <2>3. /\ model' = Applied(model, doc)
        /\ requests' = requests \o UpdateEvents(model, doc)
        /\ UNCHANGED <<server, refresh, polls, used>>
    BY <1>6, <2>2 DEF TakeResult
  <2>4. ModelOK(Set(model, doc)) /\ ModelOK(model')
    BY <2>3, AppliedKeeps DEF TypeOK
  <2>5. UpdateEvents(model, doc) \in Seq(RequestT)
    BY <2>4, LinksTable, LinkEventsSay DEF UpdateEvents, TypeOK
  <2>6. requests' \in Seq(RequestT)
    BY <2>3, <2>5 DEF TypeOK
  <2>7. QED
    BY <2>1, <2>3, <2>4, <2>6 DEF TypeOK
<1>7. CASE UNCHANGED vars
  BY <1>7 DEF vars, TypeOK
<1>8. QED
  BY <1>1, <1>2, <1>3, <1>4, <1>5, <1>6, <1>7 DEF Next

-----------------------------------------------------------------------------
(* The table of polls follows the model.                                   *)

(* Until the events of a restart are sent, of what nothing links: what was *)
(* removed meanwhile is removed, what was added or changed need not be.    *)
AllFollow(fresh, rs, table, links) ==
  \A href \in Nat \ {Root} :
    (~fresh \/ href \notin DOMAIN links) => FollowsIn(rs, table, href, links)

TablesInv ==
  /\ Drop(model, Links(model)) = model
  /\ AllFollow(refresh, requests, polls, Links(model))

(* A table with the DeviceCapability's poll only, as after a start. *)
LEMMA StartFollows ==
  ASSUME NEW links
  PROVE  AllFollow(TRUE, <<>>, RootPoll, links)
<1>1. ASSUME NEW href \in Nat \ {Root}, href \notin DOMAIN links
      PROVE  FollowsIn(<<>>, RootPoll, href, links)
  <2>1. About(<<>>, href) = {}
    BY DEF About
  <2>2. At(RootPoll, href) = {}
    BY DEF At, RootPoll
  <2>3. Asked(links, href) = {}
    BY <1>1 DEF Asked, At
  <2>4. QED
    BY <2>1, <2>2, <2>3 DEF FollowsIn
<1>2. QED
  BY <1>1 DEF AllFollow

(* There is nothing to drop from an empty model. *)
LEMMA EmptyModelDrops == Drop(EmptyModel, Links(EmptyModel)) = EmptyModel
<1>1. PICK m, d : m = EmptyModel /\ d = Drop(m, Links(m))
  OBVIOUS
<1>2. ModelOK(m)
  BY <1>1, EmptyModelType
<1>3. m.mupl = NoList /\ m.lists = <<>> /\ m.items = <<>>
  BY <1>1 DEF EmptyModel
<1>4. /\ d.dcap = m.dcap /\ d.time = m.time /\ d.edl = m.edl
      /\ d.mupl = IF m.mupl.href \in DOMAIN Links(m) THEN m.mupl ELSE NoList
      /\ d.lists = [key \in {k \in DOMAIN m.lists : k[2] \in DOMAIN Links(m)} |-> m.lists[key]]
      /\ d.items = [key \in {k \in DOMAIN m.items : m.items[k].href \in DOMAIN Links(m)} |-> m.items[key]]
      /\ d = [dcap |-> d.dcap, time |-> d.time, edl |-> d.edl, mupl |-> d.mupl,
              lists |-> d.lists, items |-> d.items]
  BY <1>1, <1>2, Dropped
<1>5. d.mupl = m.mupl
  BY <1>3, <1>4
<1>6. d.lists = m.lists /\ d.items = m.items
  BY <1>2, <1>3, <1>4 DEF ModelOK, ListsOK, ItemsOK
<1>7. d = m
  BY <1>2, <1>4, <1>5, <1>6, Zenon DEF ModelOK
<1>8. QED
  BY <1>1, <1>7

(* RefreshActiveResources brings the rest of the table to follow the model. *)
LEMMA RefreshFollows ==
  ASSUME KindsStay(Trees), NEW m, ModelOK(m), NEW rs \in Seq(RequestT), NEW table,
         AllFollow(TRUE, rs, table, Links(m))
  PROVE  AllFollow(FALSE, rs \o RefreshEvents(m), table, Links(m))
<1>1. PICK post : post = Links(m)
  OBVIOUS
<1>2. LinksOK(post)
  BY <1>1, LinksTable
<1>3. ASSUME NEW href \in Nat \ {Root}
      PROVE  FollowsIn(rs \o LinkEvents(NoLinks, post), table, href, post)
  <2>1. ASSUME Said(href, NoLinks) = Said(href, post)
        PROVE  FollowsIn(rs, table, href, NoLinks)
    <3>1. href \notin DOMAIN NoLinks
      BY DEF NoLinks
    <3>2. href \notin DOMAIN post
      BY <2>1, <3>1 DEF Said, AddedOrUpdated, Removed
    <3>3. FollowsIn(rs, table, href, post)
      BY <1>1, <3>2 DEF AllFollow
    <3>4. Asked(NoLinks, href) = Asked(post, href)
      BY <3>1, <3>2 DEF Asked, At
    <3>5. QED
      BY <2>1, <3>3, <3>4 DEF FollowsIn
  <2>2. QED
    BY <1>2, <2>1, NoLinksOK, FollowsMore
<1>4. QED
  BY <1>1, <1>3 DEF AllFollow, RefreshEvents

(* So does what is sent for a resource, whatever was on its way. *)
LEMMA UpdateFollows ==
  ASSUME KindsStay(Trees), NEW prior, LinksOK(prior), NEW post, LinksOK(post),
         NEW rs \in Seq(RequestT), NEW table, NEW fresh \in BOOLEAN,
         AllFollow(fresh, rs, table, prior)
  PROVE  AllFollow(fresh, rs \o LinkEvents(prior, post), table, post)
<1>1. ASSUME NEW href \in Nat \ {Root}, ~fresh \/ href \notin DOMAIN post
      PROVE  FollowsIn(rs \o LinkEvents(prior, post), table, href, post)
  <2>1. ASSUME Said(href, prior) = Said(href, post)
        PROVE  FollowsIn(rs, table, href, prior)
    <3>1. href \notin DOMAIN post => href \notin DOMAIN prior
      BY <2>1 DEF Said, AddedOrUpdated, Removed
    <3>2. QED
      BY <1>1, <3>1 DEF AllFollow
  <2>2. QED
    BY <2>1, FollowsMore
<1>2. QED
  BY <1>1 DEF AllFollow

(* Every step keeps the table following the model. *)
LEMMA NextTablesInv ==
  ASSUME KindsStay(Trees), MirrorsStay(Trees), TypeOK, TablesInv, [Next]_vars
  PROVE  TablesInv'
<1>1. CASE UNCHANGED <<model, refresh, requests, polls>>
  BY <1>1 DEF TablesInv
<1>2. CASE TakeRefresh
  <2>1. /\ refresh = TRUE /\ refresh' = FALSE
        /\ requests' = requests \o RefreshEvents(model) /\ model' = model /\ polls' = polls
    BY <1>2 DEF TakeRefresh, Refreshed, TypeOK
  <2>2. AllFollow(FALSE, requests \o RefreshEvents(model), polls, Links(model))
    BY <2>1, RefreshFollows DEF TypeOK, TablesInv
  <2>3. QED
    BY <2>1, <2>2, Zenon DEF TablesInv
<1>3. CASE TakeRequest
  <2>1. /\ requests # <<>> /\ requests' = Tail(requests) /\ polls' = Obeyed(polls, Head(requests))
        /\ UNCHANGED <<model, refresh>>
    BY <1>3 DEF TakeRequest
  <2>2. LinksOK(Links(model))
    BY LinksTable DEF TypeOK
  <2>3. AllFollow(refresh, Tail(requests), Obeyed(polls, Head(requests)), Links(model))
    <3>1. ASSUME NEW href \in Nat \ {Root}, ~refresh \/ href \notin DOMAIN Links(model)
          PROVE  FollowsIn(Tail(requests), Obeyed(polls, Head(requests)), href, Links(model))
      <4>1. FollowsIn(requests, polls, href, Links(model))
        BY <3>1, Zenon DEF TablesInv, AllFollow
      <4>2. QED
        BY <2>1, <2>2, <4>1, FollowsLess DEF TypeOK
    <3>2. QED
      BY <3>1, Zenon DEF AllFollow
  <2>4. QED
    BY <2>1, <2>3, Zenon DEF TablesInv
<1>4. CASE CrashAndRestart
  <2>1. refresh' = TRUE /\ requests' = <<>> /\ polls' = RootPoll /\ model' = model
    BY <1>4 DEF CrashAndRestart
  <2>2. AllFollow(TRUE, <<>>, RootPoll, Links(model))
    BY StartFollows
  <2>3. QED
    BY <2>1, <2>2, Zenon DEF TablesInv
<1>5. ASSUME NEW href \in Hrefs, TakeResult(href)
      PROVE  TablesInv'
  <2>1. Head(results[href]) \in Docs
    BY <1>5, TakenType DEF TakeResult, ResultTaken, TypeOK
  <2>2. PICK doc \in Docs : doc = Head(results[href])
    BY <2>1
  <2>3. /\ model' = Applied(model, doc)
        /\ requests' = requests \o UpdateEvents(model, doc)
        /\ UNCHANGED <<refresh, polls>>
    BY <1>5, <2>2 DEF TakeResult
  <2>4. /\ ModelOK(Set(model, doc))
        /\ Links(Applied(model, doc)) = Links(Set(model, doc))
        /\ Drop(Applied(model, doc), Links(Applied(model, doc))) = Applied(model, doc)
    BY AppliedKeeps DEF TypeOK
  <2>5. AllFollow(refresh, requests \o LinkEvents(Links(model), Links(Set(model, doc))), polls,
                  Links(Set(model, doc)))
    BY <2>4, LinksTable, UpdateFollows DEF TypeOK, TablesInv
  <2>6. AllFollow(refresh', requests', polls', Links(model'))
    BY <2>3, <2>4, <2>5, Zenon DEF UpdateEvents
  <2>7. Drop(model', Links(model')) = model'
    BY <2>3, <2>4, Zenon
  <2>8. QED
    BY <2>6, <2>7 DEF TablesInv
<1>6. QED
  BY <1>1, <1>2, <1>3, <1>4, <1>5 DEF Next, vars, ServerChanges, PollBrings

(* TablesInv holds throughout. *)
LEMMA TablesInvariance ==
  ASSUME KindsStay(Trees), MirrorsStay(Trees)
  PROVE  Spec => [](TypeOK /\ TablesInv)
<1>1. Init => TypeOK /\ TablesInv
  <2>1. Init => TypeOK
    BY InitTypeOK
  <2>2. Init => TablesInv
    BY EmptyModelDrops, StartFollows DEF Init, TablesInv
  <2>3. QED
    BY <2>1, <2>2
<1>2. TypeOK /\ TablesInv /\ [Next]_vars => TypeOK' /\ TablesInv'
  BY NextTypeOK, NextTablesInv
<1>3. QED
  BY <1>1, <1>2, PTL DEF Spec

-----------------------------------------------------------------------------
(* The theorems. *)

(* Every value has its type, whatever trees are served: what is polled,      *)
(* asked for and kept is of the kind the server has there, no poll is of a   *)
(* kind that is not polled, and the DeviceCapability's stays                 *)
(* (SubscribeToResource, start_poll_for, drop_untracked_resources).          *)
THEOREM TypeCorrect ==
  ASSUME KindsStay(Trees)
  PROVE  Spec => []TypeOK
<1>1. Init => TypeOK
  BY InitTypeOK
<1>2. TypeOK /\ [Next]_vars => TypeOK'
  BY NextTypeOK
<1>3. QED
  BY <1>1, <1>2, PTL DEF Spec

(* The scheduler sends only differences, and the connection task never     *)
(* tells what it polls: still, the poll of every href is the one that the  *)
(* scheduler's model asks for, or will be when what is on its way is done, *)
(* whatever order results arrive in and wherever the process starts again  *)
(* (resource_link_events, refresh_known_links, SubscribeToResource).       *)
THEOREM TableFollows ==
  ASSUME KindsStay(Trees), MirrorsStay(Trees)
  PROVE  Spec => []TableFollowsModel
<1>1. TypeOK /\ TablesInv => TableFollowsModel
  <2> SUFFICES ASSUME TypeOK, TablesInv, ~refresh, NEW href \in Hrefs \ {Root}
               PROVE  Follows(href, Links(model))
    BY Zenon DEF TableFollowsModel
  <2>1. FollowsIn(requests, polls, href, Links(model))
    BY HrefsType DEF TablesInv, AllFollow
  <2>2. ToCome(href) = About(requests, href)
    BY DEF ToCome, About
  <2>3. QED
    BY <2>1, <2>2, Zenon DEF Follows, FollowsIn, LastAbout, Said
<1>2. Spec => [](TypeOK /\ TablesInv)
  BY TablesInvariance
<1>3. QED
  BY <1>1, <1>2, PTL

(* The links that decide what is dropped are those of the model before it *)
(* is dropped, and one pass is enough: nothing that is left has lost its  *)
(* link with it, and nothing that is linked is lost                       *)
(* (drop_untracked_resources).                                            *)
THEOREM OnePassDrops ==
  ASSUME KindsStay(Trees), MirrorsStay(Trees)
  PROVE  Spec => []DropsInOnePass
<1>1. TypeOK /\ TablesInv => DropsInOnePass
  <2> SUFFICES ASSUME TypeOK, TablesInv
               PROVE  DropsInOnePass
    OBVIOUS
  <2>1. ASSUME NEW href \in Hrefs, NEW i \in DOMAIN results[href]
        PROVE  LET set == Set(model, results[href][i]) IN Links(Drop(set, Links(set))) = Links(set)
    <3>1. PICK s \in Seq(Docs) : s = results[href]
      BY DEF TypeOK
    <3>2. PICK doc \in Docs : doc = results[href][i]
      BY <3>1
    <3>3. ModelOK(Set(model, doc))
      BY SetType DEF TypeOK
    <3>4. Links(Drop(Set(model, doc), Links(Set(model, doc)))) = Links(Set(model, doc))
      BY <3>3, LinksKept
    <3>5. QED
      BY <3>2, <3>4
  <2>2. QED
    BY <2>1, Zenon DEF DropsInOnePass, TablesInv
<1>2. Spec => [](TypeOK /\ TablesInv)
  BY TablesInvariance
<1>3. QED
  BY <1>1, <1>2, PTL

=============================================================================
