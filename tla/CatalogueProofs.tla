------------------------------ MODULE CatalogueProofs ----------------------------
(***************************************************************************)
(* What holds of Catalogue for every list of products and of networks, and    *)
(* every number of concurrent calls.                                         *)
(*                                                                           *)
(* ScriptInv says what is left of a handler's script and where a seeding is    *)
(* in its loops; VendorInv that names and ids of vendors go together where     *)
(* none was renamed; ProductInv and OfferInv that the rows a call added are    *)
(* those of its turns so far, and FreshInv that what it is still to offer it   *)
(* has not offered.  PairInv says who may add an offer of a vendor and a       *)
(* product that nobody has crossed on, and UpdateInv what the last update of   *)
(* an offer holds.                                                           *)
(***************************************************************************)
EXTENDS Catalogue, SequenceTheorems, TLAPS

USE DEF history

-----------------------------------------------------------------------------
(* Types *)

VendorIds  == Calls \X VendorNames
ProductIds == Calls \X Codes
BundleIds  == Calls \X (Range(Networks) \X Nat)
OfferIds   == Calls \X VendorNames \X (ProductIds \cup {None}) \X (BundleIds \cup {None})
Schemas    == [SchemaKeys -> Calls \cup {None}]

VendorRows  == [id : VendorIds, name : VendorNames \X Spellings]
ProductRows == [id : ProductIds, code : Codes]
BundleRows  == [id : BundleIds, code : Range(Networks) \X Nat]
OfferRows   == [id : OfferIds, by : Calls, vendor : VendorIds \cup {None},
                product : ProductIds \cup {None}, bundle : BundleIds \cup {None},
                schema : Schemas]

Ops == Seeding \cup {None, "createVendor", "updateVendor", "createProduct", "updateProduct",
                     "addNewBundle", "createVendorProduct", "updateVendorProduct"}

States == {"new", "working", "answered", "refused", "thrown"}

OnVendor  == {"refuseVendor", "addVendor", "renameVendor"}
OnProduct == {"refuseProduct", "addProduct", "renameProduct"}
OnOffer   == {"refuseOffer", "addOffer"}
OnSchema  == {"readSchema", "writeSchema"}

Steps == [do : OnVendor, what : VendorNames \X Spellings] \cup [do : OnProduct, what : Codes]
         \cup [do : {"addBundle"}, what : Range(Networks) \X Nat]
         \cup [do : OnOffer, what : VendorNames] \cup [do : OnSchema, what : SchemaKeys]

Handlers ==
  [op : Ops, state : States, todo : Seq(Steps), docs : [VendorNames -> VendorIds \cup {None}],
   product : ProductIds \cup {None}, bundle : BundleIds \cup {None},
   offer : OfferIds \cup {None}, schema : Schemas, key : SchemaKeys \cup {None},
   viewed : 0..3, next : Nat, nth : Nat]

TypeInv ==
  /\ vendors \subseteq VendorRows
  /\ products \subseteq ProductRows
  /\ bundles \subseteq BundleRows
  /\ offers \subseteq OfferRows
  /\ call \in [Calls -> Handlers]
  /\ renamed \subseteq VendorIds
  /\ crossedPairs \subseteq (VendorIds \cup {None}) \X (ProductIds \cup {None})
  /\ crossedOffers \subseteq OfferIds

-----------------------------------------------------------------------------
(* Scripts *)

(* The steps that a handler's script may hold. *)
Holds(op, do) ==
  \/ op \in {"createVendor", "updateVendor"} /\ do \in OnVendor
  \/ op \in {"createProduct", "updateProduct"} /\ do \in OnProduct
  \/ op = "addNewBundle" /\ do = "addBundle"
  \/ op = "createVendorProduct" /\ do \in OnOffer
  \/ op = "updateVendorProduct" /\ do \in OnSchema
  \/ op \in Seeding /\ do \in {"addVendor", "addOffer"}

Scripted(c) ==
  /\ \A i \in DOMAIN call[c].todo : Holds(call[c].op, call[c].todo[i].do)
  /\ call[c].state = "new" => call[c] = Idle
  /\ call[c].op = "createVendorProduct" /\ Working(c) =>
       \E n \in VendorNames :
         /\ call[c].docs[n] \in VendorIds /\ call[c].docs[n][2] = n
         /\ call[c].todo \in {createVendorProduct(n), <<On("addOffer", n)>>, <<>>}
  /\ call[c].op = "updateVendorProduct" /\ call[c].state # "new" =>
       /\ \E o \in offers : o.id = call[c].offer
       /\ call[c].key \in SchemaKeys
       /\ Working(c) => call[c].todo \in {updateVendorProduct(call[c].key),
                            <<On("writeSchema", call[c].key)>>, <<>>}

(* The products whose loops a seeding runs. *)
Turns(op) == IF op = "seedDataToDb" THEN ProductCodes ELSE Networks

(* A seeding is where its counters say. *)
Looped(c) ==
  LET h == call[c]
  IN /\ h.next <= Len(Turns(h.op))
     /\ h.next = 0 => \/ h.todo = <<>>
                      \/ /\ h.viewed > 0
                         /\ h.todo = <<On("addVendor", <<Vendors[h.viewed], "trimmed">>)>>
     /\ h.next = 0 => h.product = None /\ h.nth = 0
     /\ h.next > 0 => /\ h.viewed = 3
                      /\ h.product = <<c, Turns(h.op)[h.next]>>
                      /\ \E p \in products : p.id = h.product
                      /\ \A i \in DOMAIN h.todo : h.todo[i].do = "addOffer"
                      /\ \A i, j \in DOMAIN h.todo : h.todo[i] = h.todo[j] => i = j
     /\ h.nth = 0 => h.bundle = None
     /\ h.op = "seedDataToDb" => h.nth = 0
     /\ h.op = "seedDataBundlesToDb" /\ h.nth = 0 /\ h.next > 0 => h.todo = <<>>
     /\ h.nth > 0 => h.bundle = <<c, <<Networks[h.next], h.nth>>>>

ScriptInv ==
  \A c \in Calls : /\ Scripted(c)
                   /\ Working(c) /\ call[c].op \in Seeding => Looped(c)

-----------------------------------------------------------------------------
(* Rows *)

(* An id of the vendor that was added as n, unless it is one that was renamed. *)
NameOf(gone, id, n) == id \in gone \/ (id \in VendorIds /\ id[2] = n)

(* The vendors a seeding has looked up, but for one that it is to add. *)
Known(c) ==
  \A i \in 1..call[c].viewed :
    \/ NameOf(renamed, call[c].docs[Vendors[i]], Vendors[i])
    \/ call[c].next = 0 /\ call[c].todo # <<>> /\ i = call[c].viewed

VendorInv ==
  /\ \A v \in vendors : v.id \in renamed \/ v.name = <<v.id[2], "trimmed">>
  /\ \A c \in Calls : Working(c) /\ call[c].op \in Seeding => Known(c)

(* Products are their calls', and a seeding's are those of its turns so far. *)
ProductInv ==
  /\ \A p \in products : call[p.id[1]].state # "new"
  /\ \A p \in products, c \in Calls :
       p.id[1] = c /\ Working(c) /\ call[c].op \in Seeding =>
         \E i \in 1..call[c].next : p.id = <<c, Turns(call[c].op)[i]>>
  /\ \A c \in Calls : Working(c) /\ call[c].op = "createVendorProduct" =>
       \E p \in products : p.id = call[c].product

(* An offer is its call's, of a product that is there, and a seeding's of its  *)
(* own products and of the vendors it was to look up.                         *)
OfferOf(o) ==
  /\ o.id = <<o.by, o.id[2], o.product, o.bundle>>
  /\ call[o.by].op \in Adding /\ call[o.by].state # "new"
  /\ \E p \in products : p.id = o.product
  /\ call[o.by].op \in Seeding => o.product[1] = o.by /\ NameOf(renamed, o.vendor, o.id[2])

OfferInv ==
  /\ \A o \in offers : OfferOf(o)
  /\ \A o, q \in offers : o.id = q.id => o = q

(* What a call is still to offer, it has not offered. *)
Pending(c) == {call[c].todo[i].what : i \in {j \in DOMAIN call[c].todo :
                                              call[c].todo[j].do = "addOffer"}}

NotYet(c, o) ==
  /\ call[c].op = "createVendorProduct" => call[c].todo = <<>>
  /\ call[c].op \in Seeding /\ o.product = call[c].product =>
       /\ \/ call[c].op = "seedDataToDb" /\ o.bundle = None
          \/ \E i \in 1..call[c].nth : o.bundle = <<c, <<Networks[call[c].next], i>>>>
       /\ o.bundle = call[c].bundle => o.id[2] \notin Pending(c)

FreshInv == \A o \in offers, c \in Calls : o.by = c /\ Working(c) => NotYet(c, o)

-----------------------------------------------------------------------------
(* Offers *)

(* The call may still add an offer of the vendor and the product. *)
MayOffer(c, v, p) ==
  /\ Working(c) /\ call[c].op \in Adding /\ call[c].product = p
  /\ call[c].op \in Seeding => call[c].next > 0
  /\ call[c].op = "createVendorProduct" =>
       \E n \in VendorNames : call[c].docs[n] = v /\ call[c].todo # <<>>
                              /\ Head(call[c].todo).what = n

(* It is the only one, and has looked for the offer, or is to. *)
PairOf(c, v, p) ==
  /\ \A d \in Calls : MayOffer(d, v, p) => d = c
  /\ \A o \in offers : o.vendor = v /\ o.product = p =>
       \/ call[c].op \in Seeding /\ o.by = c
       \/ call[c].op = "createVendorProduct" /\ Head(call[c].todo).do = "refuseOffer"

PairInv ==
  \A c \in Calls, v \in VendorIds, p \in ProductIds :
    /\ MayOffer(c, v, p) /\ <<v, p>> \notin crossedPairs
    => PairOf(c, v, p)

-----------------------------------------------------------------------------
(* Updates *)

Updates(c, o) ==
  call[c].state # "new" /\ call[c].op = "updateVendorProduct" /\ call[c].offer = o.id

(* It is the last, and only it is at work: what it holds is what it read with  *)
(* its own key, and then what is there.                                      *)
Kept(o, c) ==
  /\ \A d \in Calls : Updates(d, o) => d <= c /\ (Working(d) => d = c)
  /\ call[c].todo # <<>> => call[c].schema = [o.schema EXCEPT ![call[c].key] = c]
  /\ call[c].todo = <<>> => o.schema[call[c].key] = c

(* What is there is its own, or of a later one of the same key. *)
Told(o, c) ==
  \E d \in Calls : /\ d >= c /\ Updates(d, o) /\ call[d].key = call[c].key
                   /\ o.schema[call[c].key] = d

KeptInv ==
  \A o \in offers, c \in Calls :
    Updates(c, o) /\ Working(c) /\ o.id \notin crossedOffers => Kept(o, c)

AnsweredInv ==
  \A o \in offers, c \in Calls :
    Updates(c, o) /\ call[c].state = "answered" /\ o.id \notin crossedOffers => Told(o, c)

NewInv == \A c, d \in Calls : call[c].state = "new" /\ c < d => call[d].state = "new"

UpdateInv == KeptInv /\ AnsweredInv /\ NewInv

-----------------------------------------------------------------------------
(* The tables *)

LEMMA LookedUp ==
  /\ Len(Vendors) = 3 /\ DOMAIN Vendors = 1..3
  /\ VendorNames = {"IRECHARGE", "BUYPOWERNG", "BAXI"}
  /\ \A i \in 1..3 : Vendors[i] \in VendorNames
  /\ \A i, j \in 1..3 : Vendors[i] = Vendors[j] => i = j
  /\ \A n \in VendorNames : \E i \in 1..3 : n = Vendors[i]
<1>1. Len(Vendors) = 3 /\ DOMAIN Vendors = 1..3
  BY DEF Vendors
<1>2. /\ Vendors[1] = "IRECHARGE" /\ Vendors[2] = "BUYPOWERNG" /\ Vendors[3] = "BAXI"
  BY DEF Vendors
<1>3. \A i \in 1..3 : i = 1 \/ i = 2 \/ i = 3
  OBVIOUS
<1>4. VendorNames = {"IRECHARGE", "BUYPOWERNG", "BAXI"}
  BY <1>1, <1>2, <1>3 DEF VendorNames, Range
<1> QED
  BY <1>1, <1>2, <1>3, <1>4

LEMMA Provided ==
  /\ Networks \in Seq({"9MOBILE", "MTN", "GLO", "AIRTEL"})
  /\ \A i \in 1..Len(Networks) : Networks[i] \in Range(Networks)
  /\ \A n \in Range(Networks) : n \in {"9MOBILE", "MTN", "GLO", "AIRTEL"}
  /\ \A i, j \in 1..Len(Networks) : Networks[i] = Networks[j] => i = j
  /\ \A i \in 1..Len(ProductCodes) : ProductCodes[i] \in Range(ProductCodes)
  /\ \A i, j \in 1..Len(ProductCodes) : ProductCodes[i] = ProductCodes[j] => i = j
  /\ Len(Networks) \in Nat /\ Len(ProductCodes) \in Nat
<1>1. /\ Networks \in Seq({"9MOBILE", "MTN", "GLO", "AIRTEL"})
      /\ ProductCodes \in Seq(Range(ProductCodes))
  BY CatalogueAssumption
<1>2. /\ DOMAIN Networks = 1..Len(Networks) /\ DOMAIN ProductCodes = 1..Len(ProductCodes)
      /\ Len(Networks) \in Nat /\ Len(ProductCodes) \in Nat
  BY <1>1
<1>3. \A i \in 1..Len(Networks) : Networks[i] \in {"9MOBILE", "MTN", "GLO", "AIRTEL"}
  BY <1>1
<1> QED
  BY <1>1, <1>2, <1>3, CatalogueAssumption DEF Range

(* A list of vendors names none twice. *)
Distinct(names) ==
  /\ names \in Seq({"IRECHARGE", "BUYPOWERNG", "BAXI", "BUYPOWER"})
  /\ \A i, j \in 1..Len(names) : names[i] = names[j] => i = j

LEMMA Singles ==
  ASSUME NEW a \in {"IRECHARGE", "BUYPOWERNG", "BAXI", "BUYPOWER"}
  PROVE  Distinct(<<a>>)
BY DEF Distinct

LEMMA Pairs ==
  ASSUME NEW a \in {"IRECHARGE", "BUYPOWERNG", "BAXI", "BUYPOWER"},
         NEW b \in {"IRECHARGE", "BUYPOWERNG", "BAXI", "BUYPOWER"}, a # b
  PROVE  Distinct(<<a, b>>)
BY DEF Distinct

LEMMA Triples ==
  ASSUME NEW a \in {"IRECHARGE", "BUYPOWERNG", "BAXI", "BUYPOWER"},
         NEW b \in {"IRECHARGE", "BUYPOWERNG", "BAXI", "BUYPOWER"},
         NEW d \in {"IRECHARGE", "BUYPOWERNG", "BAXI", "BUYPOWER"},
         a # b, a # d, b # d
  PROVE  Distinct(<<a, b, d>>)
BY DEF Distinct

(* The lists that occur in the tables. *)
Listed ==
  {<<"IRECHARGE">>, <<"BAXI">>, <<"BUYPOWERNG">>, <<"IRECHARGE", "BAXI">>,
   <<"IRECHARGE", "BUYPOWERNG">>, <<"BAXI", "BUYPOWERNG">>, <<"BAXI", "BUYPOWER">>,
   <<"IRECHARGE", "BAXI", "BUYPOWERNG">>, <<"IRECHARGE", "BUYPOWERNG", "BAXI">>}

LEMMA Lists == \A l \in Listed : Distinct(l)
<1>1. Distinct(<<"IRECHARGE">>) /\ Distinct(<<"BAXI">>) /\ Distinct(<<"BUYPOWERNG">>)
  BY Singles
<1>2. Distinct(<<"IRECHARGE", "BAXI">>) /\ Distinct(<<"IRECHARGE", "BUYPOWERNG">>)
  BY Pairs
<1>3. Distinct(<<"BAXI", "BUYPOWERNG">>) /\ Distinct(<<"BAXI", "BUYPOWER">>)
  BY Pairs
<1>4. /\ Distinct(<<"IRECHARGE", "BAXI", "BUYPOWERNG">>)
      /\ Distinct(<<"IRECHARGE", "BUYPOWERNG", "BAXI">>)
  BY Triples
<1> QED
  BY <1>1, <1>2, <1>3, <1>4 DEF Listed

LEMMA Sold ==
  ASSUME NEW n \in {"9MOBILE", "MTN", "GLO", "AIRTEL"}
  PROVE  /\ Len(SEED_DATA_WITH_BUNDLE_FLOW(n)) \in Nat
         /\ \A i \in 1..Len(SEED_DATA_WITH_BUNDLE_FLOW(n)) : Distinct(SoldBy(<<n, i>>))
<1>1. CASE n = "9MOBILE"
  <2>1. SEED_DATA_WITH_BUNDLE_FLOW(n) = bundlesOf9MOBILE
    BY <1>1 DEF SEED_DATA_WITH_BUNDLE_FLOW
  <2>2. Len(bundlesOf9MOBILE) = 7
    BY DEF bundlesOf9MOBILE
  <2>3. \A i \in 1..7 : bundlesOf9MOBILE[i] \in Listed
    BY DEF bundlesOf9MOBILE, Listed
  <2> QED
    BY <2>1, <2>2, <2>3, Lists DEF SoldBy
<1>2. CASE n = "AIRTEL"
  <2>1. SEED_DATA_WITH_BUNDLE_FLOW(n) = bundlesOfAIRTEL
    BY <1>2 DEF SEED_DATA_WITH_BUNDLE_FLOW
  <2>2. Len(bundlesOfAIRTEL) = 7
    BY DEF bundlesOfAIRTEL
  <2>3. \A i \in 1..7 : bundlesOfAIRTEL[i] \in Listed
    BY DEF bundlesOfAIRTEL, Listed
  <2> QED
    BY <2>1, <2>2, <2>3, Lists DEF SoldBy
<1>3. CASE n = "GLO"
  <2>1. SEED_DATA_WITH_BUNDLE_FLOW(n) = bundlesOfGLO
    BY <1>3 DEF SEED_DATA_WITH_BUNDLE_FLOW
  <2>2. Len(bundlesOfGLO) = 4
    BY DEF bundlesOfGLO
  <2>3. \A i \in 1..4 : bundlesOfGLO[i] \in Listed
    BY DEF bundlesOfGLO, Listed
  <2> QED
    BY <2>1, <2>2, <2>3, Lists DEF SoldBy
<1>4. CASE n = "MTN"
  <2>1. SEED_DATA_WITH_BUNDLE_FLOW(n) = bundlesOfMTN
    BY <1>4 DEF SEED_DATA_WITH_BUNDLE_FLOW
  <2>2. Len(bundlesOfMTN) = 7
    BY DEF bundlesOfMTN
  <2>3. \A i \in 1..7 : bundlesOfMTN[i] \in Listed
    BY DEF bundlesOfMTN, Listed
  <2> QED
    BY <2>1, <2>2, <2>3, Lists DEF SoldBy
<1> QED
  BY <1>1, <1>2, <1>3, <1>4

(* The offers of a list of known vendors. *)
LEMMA Offered ==
  ASSUME NEW names, Distinct(names), Range(names) \subseteq VendorNames
  PROVE  /\ offersOf(names) \in Seq(Steps)
         /\ \A i \in DOMAIN offersOf(names) :
               offersOf(names)[i].do = "addOffer" /\ offersOf(names)[i].what \in VendorNames
         /\ \A i, j \in DOMAIN offersOf(names) :
               offersOf(names)[i] = offersOf(names)[j] => i = j
<1>1. /\ DOMAIN names = 1..Len(names) /\ Len(names) \in Nat
      /\ \A i \in 1..Len(names) : names[i] \in VendorNames
  BY DEF Distinct, Range
<1>2. /\ DOMAIN offersOf(names) = 1..Len(names)
      /\ \A i \in 1..Len(names) : offersOf(names)[i] = [do |-> "addOffer", what |-> names[i]]
  BY <1>1 DEF offersOf, On
<1>3. \A i \in 1..Len(names) : offersOf(names)[i] \in Steps
  BY <1>1, <1>2 DEF Steps, OnOffer
<1>4. offersOf(names) \in Seq(Steps)
  BY <1>1, <1>2, <1>3 DEF offersOf
<1> QED
  BY <1>1, <1>2, <1>4 DEF Distinct

LEMMA Seeded ==
  ASSUME NEW p
  PROVE  Distinct(SEED(p)) /\ Range(SEED(p)) \subseteq VendorNames
<1>1. Distinct(SEED(p))
  BY Triples DEF SEED
<1>2. \A i \in 1..3 : SEED(p)[i] \in VendorNames
  BY LookedUp DEF SEED
<1>3. DOMAIN SEED(p) = 1..3
  BY DEF SEED
<1> QED
  BY <1>1, <1>2, <1>3 DEF Range

-----------------------------------------------------------------------------
(* What a handler does next *)

LEMMA InScript ==
  ASSUME TypeInv, ScriptInv, NEW c \in Calls, Working(c), call[c].todo # <<>>
  PROVE  /\ NextOf(call[c]) = Head(call[c].todo)
         /\ Head(call[c].todo) \in Steps
         /\ Head(call[c].todo) = call[c].todo[1] /\ 1 \in DOMAIN call[c].todo
         /\ Holds(call[c].op, Head(call[c].todo).do)
<1>1. call[c].todo \in Seq(Steps)
  BY DEF TypeInv, Handlers
<1>2. 1 \in DOMAIN call[c].todo /\ Head(call[c].todo) = call[c].todo[1]
  BY <1>1
<1>3. Scripted(c)
  BY DEF ScriptInv
<1> QED
  BY <1>1, <1>2, <1>3 DEF Scripted, NextOf

(* A step after the others of its handler is one of the rest of the script. *)
LEMMA TailOf ==
  ASSUME NEW s \in Seq(Steps), s # <<>>
  PROVE  /\ Tail(s) \in Seq(Steps)
         /\ \A i \in DOMAIN Tail(s) : i + 1 \in DOMAIN s /\ Tail(s)[i] = s[i + 1]
         /\ 1 \in DOMAIN s /\ Head(s) = s[1]
OBVIOUS

(* A step on a vendor's, a product's or a bundle's row, an offer or its data. *)
LEMMA StepsApart ==
  ASSUME NEW s \in Steps
  PROVE  /\ s = On(s.do, s.what)
         /\ s.do \in OnVendor \cup OnProduct \cup OnOffer \cup OnSchema \cup {"addBundle"}
         /\ s.do \in OnVendor => s.what \in VendorNames \X Spellings
         /\ s.do \in OnProduct => s.what \in Codes
         /\ s.do = "addBundle" => s.what \in Range(Networks) \X Nat
         /\ s.do \in OnOffer => s.what \in VendorNames
         /\ s.do \in OnSchema => s.what \in SchemaKeys
BY DEF Steps, OnVendor, OnProduct, OnOffer, OnSchema, On

LEMMA VendorTurn ==
  ASSUME TypeInv, ScriptInv, NEW c \in Calls, At(c, "viewVendor") \/ At(c, "needVendor")
  PROVE  /\ call[c].todo = <<>> /\ call[c].viewed \in 0..2 /\ call[c].next = 0
         /\ What(c) = Vendors[call[c].viewed + 1] /\ What(c) \in VendorNames
         /\ call[c].op \in Seeding
<1>0. Working(c) /\ NextOf(call[c]).do \in {"viewVendor", "needVendor"}
  BY DEF At
<1>1. call[c].todo = <<>>
  BY <1>0, InScript, StepsApart DEF OnVendor, OnProduct, OnOffer, OnSchema
<1>2. /\ call[c].op \in Seeding /\ call[c].viewed \in 0..3
      /\ call[c].viewed < 3 /\ What(c) = Vendors[call[c].viewed + 1]
  BY <1>0, <1>1, LookedUp DEF NextOf, seedDataToDb, seedDataBundlesToDb, On, What, Seeding,
       TypeInv, Handlers
<1>3. Looped(c) /\ call[c].next \in Nat
  BY <1>0, <1>2 DEF ScriptInv, TypeInv, Handlers
<1> QED
  BY <1>1, <1>2, <1>3, LookedUp DEF Looped

LEMMA AtVendor ==
  ASSUME TypeInv, ScriptInv, NEW c \in Calls, NEW s \in OnVendor, At(c, s)
  PROVE  /\ call[c].todo # <<>> /\ Head(call[c].todo) = On(s, What(c))
         /\ What(c) \in VendorNames \X Spellings
         /\ call[c].op \in {"createVendor", "updateVendor"} \cup Seeding
<1>0. Working(c) /\ NextOf(call[c]).do \in OnVendor
  BY DEF At
<1>1. call[c].todo # <<>>
  BY <1>0 DEF NextOf, seedDataToDb, seedDataBundlesToDb, On, OnVendor
<1> QED
  BY <1>0, <1>1, InScript, StepsApart
     DEF At, What, Holds, OnVendor, OnProduct, OnOffer, OnSchema

LEMMA AtProduct ==
  ASSUME TypeInv, ScriptInv, NEW c \in Calls, NEW s \in {"refuseProduct", "renameProduct"},
         At(c, s)
  PROVE  /\ call[c].todo # <<>> /\ Head(call[c].todo) = On(s, What(c))
         /\ What(c) \in Codes
         /\ call[c].op \in {"createProduct", "updateProduct"}
<1>0. Working(c) /\ NextOf(call[c]).do \in {"refuseProduct", "renameProduct"}
  BY DEF At
<1>1. call[c].todo # <<>>
  BY <1>0 DEF NextOf, seedDataToDb, seedDataBundlesToDb, On
<1> QED
  BY <1>0, <1>1, InScript, StepsApart
     DEF At, What, Holds, OnVendor, OnProduct, OnOffer, OnSchema

LEMMA AtAddProduct ==
  ASSUME TypeInv, ScriptInv, NEW c \in Calls, At(c, "addProduct")
  PROVE  /\ What(c) \in Codes
         /\ \/ call[c].op \in {"createProduct", "updateProduct"}
            \/ /\ call[c].op \in Seeding /\ call[c].todo = <<>> /\ call[c].viewed = 3
               /\ call[c].next + 1 \in 1..Len(Turns(call[c].op))
               /\ What(c) = Turns(call[c].op)[call[c].next + 1]
<1>0. Working(c) /\ NextOf(call[c]).do = "addProduct"
  BY DEF At
<1>1. CASE call[c].todo # <<>>
  BY <1>0, <1>1, InScript, StepsApart
     DEF At, What, Holds, OnVendor, OnProduct, OnOffer, OnSchema
<1>2. CASE call[c].todo = <<>>
  <2>1. call[c].viewed \in 0..3 /\ call[c].next \in Nat
    BY DEF TypeInv, Handlers
  <2>2. CASE call[c].op = "seedDataToDb"
    BY <1>0, <1>2, <2>1, <2>2, LookedUp, Provided
       DEF NextOf, seedDataToDb, What, On, Turns, Seeding, Codes
  <2>3. CASE call[c].op = "seedDataBundlesToDb"
    BY <1>0, <1>2, <2>1, <2>3, LookedUp, Provided
       DEF NextOf, seedDataBundlesToDb, What, On, Turns, Seeding, Codes
  <2> QED
    BY <1>0, <1>2, <2>2, <2>3 DEF NextOf, On
<1> QED
  BY <1>1, <1>2

LEMMA AtAddBundle ==
  ASSUME TypeInv, ScriptInv, NEW c \in Calls, At(c, "addBundle")
  PROVE  /\ What(c) \in Range(Networks) \X Nat
         /\ \/ call[c].op = "addNewBundle"
            \/ /\ call[c].op = "seedDataBundlesToDb" /\ call[c].todo = <<>>
               /\ call[c].viewed = 3
               /\ call[c].next \in 1..Len(Networks)
               /\ call[c].nth + 1 \in
                    1..Len(SEED_DATA_WITH_BUNDLE_FLOW(Networks[call[c].next]))
               /\ What(c) = <<Networks[call[c].next], call[c].nth + 1>>
<1>0. Working(c) /\ NextOf(call[c]).do = "addBundle"
  BY DEF At
<1>1. CASE call[c].todo # <<>>
  BY <1>0, <1>1, InScript, StepsApart
     DEF At, What, Holds, OnVendor, OnProduct, OnOffer, OnSchema
<1>2. CASE call[c].todo = <<>>
  <2>1. call[c].viewed \in 0..3 /\ call[c].next \in Nat /\ call[c].nth \in Nat
    BY DEF TypeInv, Handlers
  <2>2. call[c].op = "seedDataBundlesToDb"
    BY <1>0, <1>2 DEF NextOf, seedDataToDb, On
  <2>3. call[c].next <= Len(Networks)
    BY <1>0, <2>2 DEF ScriptInv, Looped, Turns, Seeding
  <2>4. /\ call[c].viewed = 3 /\ call[c].next > 0
        /\ call[c].nth < Len(SEED_DATA_WITH_BUNDLE_FLOW(Networks[call[c].next]))
        /\ What(c) = <<Networks[call[c].next], call[c].nth + 1>>
    BY <1>0, <1>2, <2>1, <2>2, LookedUp DEF NextOf, seedDataBundlesToDb, On, What
  <2>5. Networks[call[c].next] \in Range(Networks)
    BY <2>1, <2>3, <2>4, Provided
  <2>6. Len(SEED_DATA_WITH_BUNDLE_FLOW(Networks[call[c].next])) \in Nat
    BY <2>5, Provided, Sold
  <2> QED
    BY <1>2, <2>1, <2>2, <2>3, <2>4, <2>5, <2>6, Provided
<1> QED
  BY <1>1, <1>2

LEMMA AtOffer ==
  ASSUME TypeInv, ScriptInv, NEW c \in Calls, NEW s \in OnOffer, At(c, s)
  PROVE  /\ call[c].todo # <<>> /\ Head(call[c].todo) = On(s, What(c))
         /\ What(c) \in VendorNames
         /\ call[c].op \in Adding
         /\ s = "refuseOffer" => call[c].op = "createVendorProduct"
<1>0. Working(c) /\ NextOf(call[c]).do \in OnOffer
  BY DEF At
<1>1. call[c].todo # <<>>
  BY <1>0 DEF NextOf, seedDataToDb, seedDataBundlesToDb, On, OnOffer
<1> QED
  BY <1>0, <1>1, InScript, StepsApart
     DEF At, What, Holds, OnVendor, OnProduct, OnOffer, OnSchema, Adding

LEMMA AtSchema ==
  ASSUME TypeInv, ScriptInv, NEW c \in Calls, NEW s \in OnSchema, At(c, s)
  PROVE  /\ call[c].todo # <<>> /\ Head(call[c].todo) = On(s, What(c))
         /\ What(c) \in SchemaKeys
         /\ call[c].op = "updateVendorProduct"
<1>0. Working(c) /\ NextOf(call[c]).do \in OnSchema
  BY DEF At
<1>1. call[c].todo # <<>>
  BY <1>0 DEF NextOf, seedDataToDb, seedDataBundlesToDb, On, OnSchema
<1> QED
  BY <1>0, <1>1, InScript, StepsApart
     DEF At, What, Holds, OnVendor, OnProduct, OnOffer, OnSchema

LEMMA AtAnswer ==
  ASSUME TypeInv, ScriptInv, NEW c \in Calls, At(c, "answer")
  PROVE  call[c].todo = <<>>
BY InScript, StepsApart DEF At, OnVendor, OnProduct, OnOffer, OnSchema

-----------------------------------------------------------------------------
(* How the handlers move *)

LEMMA Placed ==
  ASSUME NEW c \in Calls, call \in [Calls -> Handlers], NEW g \in Handlers,
         call' = [call EXCEPT ![c] = g]
  PROVE  /\ call' \in [Calls -> Handlers] /\ call'[c] = g
         /\ \A d \in Calls : d # c => call'[d] = call[d]
OBVIOUS

LEMMA IdleTypes == Idle \in Handlers
<1>1. <<>> \in Seq(Steps)
  OBVIOUS
<1>2. NoDocs \in [VendorNames -> VendorIds \cup {None}] /\ Bare \in Schemas
  BY DEF NoDocs, Bare, Schemas
<1> QED
  BY <1>1, <1>2 DEF Idle, Handlers, Ops, States

LEMMA HandlerTypes ==
  ASSUME NEW op \in Ops, NEW todo \in Seq(Steps), NEW docs \in [VendorNames -> VendorIds \cup {None}],
         NEW product \in ProductIds \cup {None}, NEW bundle \in BundleIds \cup {None},
         NEW h, h = Handler(op, todo, docs, product, bundle)
  PROVE  /\ h \in Handlers
         /\ h.op = op /\ h.state = "working" /\ h.todo = todo /\ h.docs = docs
         /\ h.product = product /\ h.bundle = bundle
         /\ h.schema = Bare /\ h.viewed = 0 /\ h.next = 0 /\ h.nth = 0
<1>1. h = [Idle EXCEPT !.op = op, !.state = "working", !.todo = todo,
                       !.docs = docs, !.product = product, !.bundle = bundle]
  BY DEF Handler
<1>2. /\ Idle.schema = Bare /\ Idle.viewed = 0 /\ Idle.next = 0 /\ Idle.nth = 0
  BY DEF Idle
<1>3. "working" \in States
  BY DEF States
<1>4. h \in Handlers
  BY <1>1, <1>3, IdleTypes DEF Handlers
<1>5. /\ h.op = op /\ h.state = "working" /\ h.todo = todo /\ h.docs = docs
      /\ h.product = product /\ h.bundle = bundle
      /\ h.schema = Idle.schema /\ h.viewed = Idle.viewed /\ h.next = Idle.next
      /\ h.nth = Idle.nth
  BY <1>1, IdleTypes DEF Handlers
<1> QED
  BY <1>2, <1>4, <1>5

LEMMA ScriptTypes ==
  /\ \A w \in VendorNames \X Spellings :
       createVendor(w) \in Seq(Steps) /\ updateVendor(w) \in Seq(Steps)
  /\ \A p \in Codes : createProduct(p) \in Seq(Steps) /\ updateProduct(p) \in Seq(Steps)
  /\ \A b \in Range(Networks) \X Nat : addNewBundle(b) \in Seq(Steps)
  /\ \A n \in VendorNames : createVendorProduct(n) \in Seq(Steps)
  /\ \A k \in SchemaKeys : updateVendorProduct(k) \in Seq(Steps)
  /\ <<>> \in Seq(Steps)
<1> USE DEF OnVendor, OnProduct, OnOffer, OnSchema, On, Steps
<1>1. \A w \in VendorNames \X Spellings :
        createVendor(w) \in Seq(Steps) /\ updateVendor(w) \in Seq(Steps)
  <2> SUFFICES ASSUME NEW w \in VendorNames \X Spellings
               PROVE  createVendor(w) \in Seq(Steps) /\ updateVendor(w) \in Seq(Steps)
    OBVIOUS
  <2>1. /\ On("refuseVendor", w) \in Steps /\ On("addVendor", w) \in Steps
        /\ On("renameVendor", w) \in Steps
    OBVIOUS
  <2> HIDE DEF On, Steps
  <2> QED
    BY <2>1 DEF createVendor, updateVendor
<1>2. \A p \in Codes : createProduct(p) \in Seq(Steps) /\ updateProduct(p) \in Seq(Steps)
  <2> SUFFICES ASSUME NEW p \in Codes
               PROVE  createProduct(p) \in Seq(Steps) /\ updateProduct(p) \in Seq(Steps)
    OBVIOUS
  <2>1. /\ On("refuseProduct", p) \in Steps /\ On("addProduct", p) \in Steps
        /\ On("renameProduct", p) \in Steps
    OBVIOUS
  <2> HIDE DEF On, Steps
  <2> QED
    BY <2>1 DEF createProduct, updateProduct
<1>3. \A b \in Range(Networks) \X Nat : addNewBundle(b) \in Seq(Steps)
  <2> SUFFICES ASSUME NEW b \in Range(Networks) \X Nat PROVE addNewBundle(b) \in Seq(Steps)
    OBVIOUS
  <2>1. On("addBundle", b) \in Steps
    OBVIOUS
  <2> HIDE DEF On, Steps
  <2> QED
    BY <2>1 DEF addNewBundle
<1>4. \A n \in VendorNames : createVendorProduct(n) \in Seq(Steps)
  <2> SUFFICES ASSUME NEW n \in VendorNames PROVE createVendorProduct(n) \in Seq(Steps)
    OBVIOUS
  <2>1. On("refuseOffer", n) \in Steps /\ On("addOffer", n) \in Steps
    OBVIOUS
  <2> HIDE DEF On, Steps
  <2> QED
    BY <2>1 DEF createVendorProduct
<1>5. \A k \in SchemaKeys : updateVendorProduct(k) \in Seq(Steps)
  <2> SUFFICES ASSUME NEW k \in SchemaKeys PROVE updateVendorProduct(k) \in Seq(Steps)
    OBVIOUS
  <2>1. On("readSchema", k) \in Steps /\ On("writeSchema", k) \in Steps
    OBVIOUS
  <2> HIDE DEF On, Steps
  <2> QED
    BY <2>1 DEF updateVendorProduct
<1> QED
  BY <1>1, <1>2, <1>3, <1>4, <1>5

(* A handler that ends, or goes on to its next step. *)
LEMMA Ends ==
  ASSUME TypeInv, NEW c \in Calls, NEW s \in States,
         call' = [call EXCEPT ![c].state = s]
  PROVE  /\ call' \in [Calls -> Handlers] /\ call'[c] = [call[c] EXCEPT !.state = s]
         /\ \A d \in Calls : d # c => call'[d] = call[d]
<1>1. call \in [Calls -> Handlers] /\ [call[c] EXCEPT !.state = s] \in Handlers
  BY DEF TypeInv, Handlers
<1>2. call' = [call EXCEPT ![c] = [call[c] EXCEPT !.state = s]]
  OBVIOUS
<1> HIDE DEF Handlers
<1> QED
  BY <1>1, <1>2, Placed

LEMMA Passes ==
  ASSUME TypeInv, NEW c \in Calls, Pass(c), call[c].todo # <<>>
  PROVE  /\ call' \in [Calls -> Handlers] /\ call'[c] = [call[c] EXCEPT !.todo = Tail(call[c].todo)]
         /\ \A d \in Calls : d # c => call'[d] = call[d]
<1>1. Tail(call[c].todo) \in Seq(Steps)
  BY TailOf DEF TypeInv, Handlers
<1>2. /\ call \in [Calls -> Handlers]
      /\ [call[c] EXCEPT !.todo = Tail(call[c].todo)] \in Handlers
  BY <1>1 DEF TypeInv, Handlers
<1>3. call' = [call EXCEPT ![c] = [call[c] EXCEPT !.todo = Tail(call[c].todo)]]
  BY DEF Pass
<1> QED
  BY <1>2, <1>3, Placed

(* A lookup of a vendor finds it, or what is missing is added next, or refused. *)
Found(c, id) ==
  [call[c] EXCEPT !.docs = [call[c].docs EXCEPT ![What(c)] = id], !.viewed = call[c].viewed + 1]

Missing(c) ==
  [call[c] EXCEPT !.todo = <<On("addVendor", <<What(c), "trimmed">>)>>,
                  !.viewed = call[c].viewed + 1]

LEMMA Views ==
  ASSUME TypeInv, ScriptInv, NEW c \in Calls, ViewVendor(c)
  PROVE  /\ call' \in [Calls -> Handlers]
         /\ \A d \in Calls : d # c => call'[d] = call[d]
         /\ \/ \E v \in VendorNamed(<<What(c), "trimmed">>) : call'[c] = Found(c, v.id)
            \/ call'[c] = Missing(c) /\ At(c, "viewVendor")
            \/ call'[c] = [call[c] EXCEPT !.state = "refused"]
         /\ At(c, "viewVendor") \/ At(c, "needVendor")
<1>0. At(c, "viewVendor") \/ At(c, "needVendor")
  BY DEF ViewVendor
<1>1. /\ call \in [Calls -> Handlers] /\ call[c] \in Handlers
      /\ call[c].viewed \in 0..2 /\ What(c) \in VendorNames
      /\ call[c].docs \in [VendorNames -> VendorIds \cup {None}]
      /\ call[c].viewed + 1 \in 0..3
  BY <1>0, VendorTurn DEF TypeInv, Handlers
<1>2. CASE \E v \in VendorNamed(<<What(c), "trimmed">>) :
             call' = [call EXCEPT ![c].docs[What(c)] = v.id, ![c].viewed = @ + 1]
  <2>1. PICK v \in VendorNamed(<<What(c), "trimmed">>) :
             call' = [call EXCEPT ![c].docs[What(c)] = v.id, ![c].viewed = @ + 1]
    BY <1>2
  <2>2. v.id \in VendorIds
    BY DEF VendorNamed, TypeInv, VendorRows
  <2>3. [call[c].docs EXCEPT ![What(c)] = v.id] \in [VendorNames -> VendorIds \cup {None}]
    BY <1>1, <2>2
  <2>4. Found(c, v.id) \in Handlers
    BY <1>1, <2>3 DEF Found, Handlers
  <2>5. call' = [call EXCEPT ![c] = Found(c, v.id)]
    BY <1>1, <2>1 DEF Found
  <2> QED
    BY <1>0, <1>1, <2>4, <2>5, Placed
<1>3. CASE At(c, "viewVendor") /\ call' = [call EXCEPT
             ![c].todo = <<On("addVendor", <<What(c), "trimmed">>)>>, ![c].viewed = @ + 1]
  <2>1. On("addVendor", <<What(c), "trimmed">>) \in Steps
    BY <1>1 DEF Steps, OnVendor, On, Spellings
  <2>2. <<On("addVendor", <<What(c), "trimmed">>)>> \in Seq(Steps)
    BY <2>1
  <2>3. Missing(c) \in Handlers
    BY <1>1, <2>2 DEF Missing, Handlers
  <2>4. call' = [call EXCEPT ![c] = Missing(c)]
    BY <1>1, <1>3 DEF Missing
  <2> QED
    BY <1>0, <1>1, <1>3, <2>3, <2>4, Placed
<1>4. CASE Finish(c)
  BY <1>0, <1>4, Ends DEF Finish, States
<1> QED
  BY <1>2, <1>3, <1>4 DEF ViewVendor

(* A seeding's or an administrator's vendor is added. *)
Named(c, id) ==
  [call[c] EXCEPT !.docs = [call[c].docs EXCEPT ![id[2]] = id], !.todo = Tail(call[c].todo)]

LEMMA VendorAdded ==
  ASSUME TypeInv, ScriptInv, NEW c \in Calls, AddVendor(c)
  PROVE  /\ call' \in [Calls -> Handlers]
         /\ \A d \in Calls : d # c => call'[d] = call[d]
         /\ At(c, "addVendor")
         /\ \/ call'[c] = [call[c] EXCEPT !.state = "refused"] /\ vendors' = vendors
            \/ /\ call'[c] = Named(c, <<c, What(c)[1]>>)
               /\ vendors' = vendors \cup {VendorRow(<<c, What(c)[1]>>, <<What(c)[1], "trimmed">>)}
<1>0. At(c, "addVendor")
  BY DEF AddVendor
<1>1. /\ call \in [Calls -> Handlers] /\ call[c] \in Handlers
      /\ What(c) \in VendorNames \X Spellings /\ What(c)[1] \in VendorNames
      /\ call[c].docs \in [VendorNames -> VendorIds \cup {None}]
      /\ call[c].todo \in Seq(Steps) /\ call[c].todo # <<>>
  BY <1>0, AtVendor DEF OnVendor, TypeInv, Handlers
<1>2. CASE Finish(c) /\ vendors' = vendors
  BY <1>0, <1>2, Ends DEF Finish, States
<1>3. CASE /\ vendors' = vendors \cup {VendorRow(<<c, What(c)[1]>>, <<What(c)[1], "trimmed">>)}
           /\ call' = [call EXCEPT ![c].docs[What(c)[1]] = <<c, What(c)[1]>>,
                                   ![c].todo = Tail(@)]
  <2>1. [call[c].docs EXCEPT ![What(c)[1]] = <<c, What(c)[1]>>]
          \in [VendorNames -> VendorIds \cup {None}]
    BY <1>1 DEF VendorIds
  <2>2. Tail(call[c].todo) \in Seq(Steps)
    BY <1>1, TailOf
  <2>3. Named(c, <<c, What(c)[1]>>) \in Handlers
    BY <1>1, <2>1, <2>2 DEF Named, Handlers
  <2>4. call' = [call EXCEPT ![c] = Named(c, <<c, What(c)[1]>>)]
    BY <1>1, <1>3 DEF Named
  <2> QED
    BY <1>0, <1>1, <1>3, <2>3, <2>4, Placed
<1> QED
  BY <1>2, <1>3 DEF AddVendor, Trim

Taken(c, id, s) ==
  [call[c] EXCEPT !.product = id, !.bundle = None, !.next = call[c].next + 1, !.nth = 0,
                  !.todo = s]

LEMMA ProductAdded ==
  ASSUME TypeInv, ScriptInv, NEW c \in Calls, AddProduct(c)
  PROVE  /\ call' \in [Calls -> Handlers]
         /\ \A d \in Calls : d # c => call'[d] = call[d]
         /\ At(c, "addProduct")
         /\ \/ call'[c] = [call[c] EXCEPT !.state = "refused"] /\ products' = products
            \/ /\ call'[c] = Taken(c, <<c, What(c)>>,
                                   IF call[c].op = "seedDataToDb" THEN offersOf(SEED(What(c)))
                                   ELSE <<>>)
               /\ products' = products \cup {ProductRow(<<c, What(c)>>, What(c))}
<1>0. At(c, "addProduct")
  BY DEF AddProduct
<1>1. /\ call \in [Calls -> Handlers] /\ call[c] \in Handlers /\ What(c) \in Codes
      /\ call[c].next + 1 \in Nat
  BY <1>0, AtAddProduct DEF TypeInv, Handlers
<1>2. CASE Finish(c) /\ products' = products
  BY <1>0, <1>2, Ends DEF Finish, States
<1>3. CASE /\ products' = products \cup {ProductRow(<<c, What(c)>>, What(c))}
           /\ call' = Take(c, <<c, What(c)>>)
  <2> DEFINE s == IF call[c].op = "seedDataToDb" THEN offersOf(SEED(What(c))) ELSE <<>>
  <2>1. s \in Seq(Steps)
    BY Seeded, Offered, ScriptTypes
  <2>2. <<c, What(c)>> \in ProductIds
    BY <1>1 DEF ProductIds
  <2>3. Taken(c, <<c, What(c)>>, s) \in Handlers
    <3> HIDE DEF s
    <3> QED
      BY <1>1, <2>1, <2>2 DEF Taken, Handlers
  <2>4. call' = [call EXCEPT ![c] = Taken(c, <<c, What(c)>>, s)]
    BY <1>1, <1>3 DEF Taken, Take
  <2> QED
    BY <1>0, <1>1, <1>3, <2>3, <2>4, Placed
<1> QED
  BY <1>2, <1>3 DEF AddProduct

Bundled(c, id, s) ==
  [call[c] EXCEPT !.bundle = id, !.nth = call[c].nth + 1, !.todo = s]

LEMMA BundleAdded ==
  ASSUME TypeInv, ScriptInv, NEW c \in Calls, AddBundle(c)
  PROVE  /\ call' \in [Calls -> Handlers]
         /\ \A d \in Calls : d # c => call'[d] = call[d]
         /\ At(c, "addBundle")
         /\ \/ call'[c] = [call[c] EXCEPT !.state = "refused"] /\ bundles' = bundles
            \/ /\ call'[c] = Bundled(c, <<c, What(c)>>,
                                     IF call[c].op \in Seeding THEN offersOf(SoldBy(What(c)))
                                     ELSE <<>>)
               /\ call[c].op \in Seeding =>
                    Distinct(SoldBy(What(c))) /\ Range(SoldBy(What(c))) \subseteq VendorNames
               /\ bundles' = bundles \cup {BundleRow(<<c, What(c)>>, What(c))}
<1>0. At(c, "addBundle")
  BY DEF AddBundle
<1>1. /\ call \in [Calls -> Handlers] /\ call[c] \in Handlers
      /\ What(c) \in Range(Networks) \X Nat /\ call[c].nth + 1 \in Nat
  BY <1>0, AtAddBundle DEF TypeInv, Handlers
<1>2. CASE Finish(c) /\ bundles' = bundles
  BY <1>0, <1>2, Ends DEF Finish, States
<1>3. CASE /\ bundles' = bundles \cup {BundleRow(<<c, What(c)>>, What(c))}
           /\ call[c].op \in Seeding => Range(SoldBy(What(c))) \subseteq VendorNames
           /\ call' = [call EXCEPT ![c].bundle = <<c, What(c)>>, ![c].nth = @ + 1,
                          ![c].todo = IF call[c].op \in Seeding THEN offersOf(SoldBy(What(c)))
                                      ELSE <<>>]
  <2> DEFINE s == IF call[c].op \in Seeding THEN offersOf(SoldBy(What(c))) ELSE <<>>
  <2>1. call[c].op \in Seeding => Distinct(SoldBy(What(c)))
    <3> SUFFICES ASSUME call[c].op \in Seeding PROVE Distinct(SoldBy(What(c)))
      OBVIOUS
    <3>1. /\ call[c].next \in 1..Len(Networks)
          /\ call[c].nth + 1 \in 1..Len(SEED_DATA_WITH_BUNDLE_FLOW(Networks[call[c].next]))
          /\ What(c) = <<Networks[call[c].next], call[c].nth + 1>>
      BY <1>0, AtAddBundle DEF Seeding
    <3> QED
      BY <3>1, Provided, Sold
  <2>2. s \in Seq(Steps)
    BY <1>3, <2>1, Offered, ScriptTypes
  <2>3. <<c, What(c)>> \in BundleIds
    BY <1>1 DEF BundleIds
  <2>4. Bundled(c, <<c, What(c)>>, s) \in Handlers
    <3> HIDE DEF s
    <3> QED
      BY <1>1, <2>2, <2>3 DEF Bundled, Handlers
  <2>5. call' = [call EXCEPT ![c] = Bundled(c, <<c, What(c)>>, s)]
    BY <1>1, <1>3 DEF Bundled
  <2> QED
    BY <1>0, <1>1, <1>3, <2>1, <2>4, <2>5, Placed
<1> QED
  BY <1>2, <1>3 DEF AddBundle

LEMMA ScriptHolds ==
  /\ \A w : \A i \in DOMAIN createVendor(w) : Holds("createVendor", createVendor(w)[i].do)
  /\ \A w : \A i \in DOMAIN updateVendor(w) : Holds("updateVendor", updateVendor(w)[i].do)
  /\ \A w : \A i \in DOMAIN createProduct(w) : Holds("createProduct", createProduct(w)[i].do)
  /\ \A w : \A i \in DOMAIN updateProduct(w) : Holds("updateProduct", updateProduct(w)[i].do)
  /\ \A w : \A i \in DOMAIN addNewBundle(w) : Holds("addNewBundle", addNewBundle(w)[i].do)
  /\ \A w : \A i \in DOMAIN createVendorProduct(w) :
       Holds("createVendorProduct", createVendorProduct(w)[i].do)
  /\ \A w : \A i \in DOMAIN updateVendorProduct(w) :
       Holds("updateVendorProduct", updateVendorProduct(w)[i].do)
BY DEF createVendor, updateVendor, createProduct, updateProduct, addNewBundle,
       createVendorProduct, updateVendorProduct, On, Holds, OnVendor, OnProduct, OnOffer, OnSchema

Simple == {"createVendor", "updateVendor", "createProduct", "updateProduct", "addNewBundle"}

(* What every call begins as. *)
Fresh(c, h) ==
  /\ h \in Handlers /\ h.state = "working"
  /\ h.viewed = 0 /\ h.next = 0 /\ h.nth = 0
  /\ \A i \in DOMAIN h.todo : Holds(h.op, h.todo[i].do)

LEMMA BeginMoves ==
  ASSUME TypeInv, NEW c \in Calls, NEW h \in Handlers, Begin(c, h)
  PROVE  /\ call' \in [Calls -> Handlers] /\ call'[c] = h
         /\ \A d \in Calls : d # c => call'[d] = call[d]
         /\ call[c].state = "new" /\ \A d \in Calls : d < c => call[d].state # "new"
         /\ UNCHANGED <<vendors, products, bundles, offers>>
<1>1. \A d \in Calls : d < c => d \in 1..(c - 1)
  BY DEF Calls
<1> QED
  BY <1>1, Placed DEF Begin, TypeInv

LEMMA CreateMoves ==
  ASSUME TypeInv, NEW c \in Calls, Create(c)
  PROVE  \E h \in Handlers :
           /\ Begin(c, h) /\ Fresh(c, h) /\ UNCHANGED history
           /\ \/ h.op \in Simple
              \/ h.op \in Seeding /\ h.todo = <<>> /\ h.product = None /\ h.bundle = None
<1>0. NoDocs \in [VendorNames -> VendorIds \cup {None}]
  BY DEF NoDocs
<1>1. CASE \E n \in VendorNames, s \in Spellings :
             Begin(c, Handler("createVendor", createVendor(<<n, s>>), NoDocs, None, None))
  <2>1. PICK n \in VendorNames, s \in Spellings :
             Begin(c, Handler("createVendor", createVendor(<<n, s>>), NoDocs, None, None))
    BY <1>1
  <2> DEFINE h == Handler("createVendor", createVendor(<<n, s>>), NoDocs, None, None)
  <2>2. "createVendor" \in Ops /\ createVendor(<<n, s>>) \in Seq(Steps)
    BY ScriptTypes DEF Ops
  <2>3. /\ h \in Handlers /\ h.op = "createVendor" /\ h.todo = createVendor(<<n, s>>)
        /\ h.state = "working" /\ h.viewed = 0 /\ h.next = 0 /\ h.nth = 0
    BY <1>0, <2>2, HandlerTypes
  <2> HIDE DEF h
  <2>4. Fresh(c, h)
    BY <2>3, ScriptHolds DEF Fresh
  <2> QED
    BY <2>1, <2>3, <2>4 DEF h, Create, Simple
<1>2. CASE \E p \in Codes :
             Begin(c, Handler("createProduct", createProduct(p), NoDocs, None, None))
  <2>1. PICK p \in Codes :
             Begin(c, Handler("createProduct", createProduct(p), NoDocs, None, None))
    BY <1>2
  <2> DEFINE h == Handler("createProduct", createProduct(p), NoDocs, None, None)
  <2>2. "createProduct" \in Ops /\ createProduct(p) \in Seq(Steps)
    BY ScriptTypes DEF Ops
  <2>3. /\ h \in Handlers /\ h.op = "createProduct" /\ h.todo = createProduct(p)
        /\ h.state = "working" /\ h.viewed = 0 /\ h.next = 0 /\ h.nth = 0
    BY <1>0, <2>2, HandlerTypes
  <2> HIDE DEF h
  <2>4. Fresh(c, h)
    BY <2>3, ScriptHolds DEF Fresh
  <2> QED
    BY <2>1, <2>3, <2>4 DEF h, Create, Simple
<1>3. CASE \E b \in TypedBundles :
             Begin(c, Handler("addNewBundle", addNewBundle(b), NoDocs, None, None))
  <2>1. PICK b \in TypedBundles :
             Begin(c, Handler("addNewBundle", addNewBundle(b), NoDocs, None, None))
    BY <1>3
  <2> DEFINE h == Handler("addNewBundle", addNewBundle(b), NoDocs, None, None)
  <2>2. "addNewBundle" \in Ops /\ addNewBundle(b) \in Seq(Steps)
    BY ScriptTypes DEF Ops, TypedBundles
  <2>3. /\ h \in Handlers /\ h.op = "addNewBundle" /\ h.todo = addNewBundle(b)
        /\ h.state = "working" /\ h.viewed = 0 /\ h.next = 0 /\ h.nth = 0
    BY <1>0, <2>2, HandlerTypes
  <2> HIDE DEF h
  <2>4. Fresh(c, h)
    BY <2>3, ScriptHolds DEF Fresh
  <2> QED
    BY <2>1, <2>3, <2>4 DEF h, Create, Simple
<1>4. ASSUME NEW op \in Seeding, Begin(c, Handler(op, <<>>, NoDocs, None, None))
      PROVE  \E h \in Handlers :
               /\ Begin(c, h) /\ Fresh(c, h)
               /\ h.op \in Seeding /\ h.todo = <<>> /\ h.product = None /\ h.bundle = None
  <2> DEFINE s == <<>>
             h == Handler(op, s, NoDocs, None, None)
  <2>2. op \in Ops /\ s \in Seq(Steps)
    BY ScriptTypes DEF Ops
  <2>3. Begin(c, h) /\ s = <<>>
    BY <1>4
  <2> HIDE DEF s
  <2>4. h \in Handlers /\ h.op = op /\ h.todo = s /\ h.state = "working"
    BY <1>0, <2>2, HandlerTypes
  <2>5. h.viewed = 0 /\ h.next = 0 /\ h.nth = 0
    BY <1>0, <2>2, HandlerTypes, SMTT(40)
  <2>7. h.product = None /\ h.bundle = None
    BY <1>0, <2>2, HandlerTypes
  <2> HIDE DEF h
  <2>6. Fresh(c, h)
    BY <2>3, <2>4, <2>5 DEF Fresh
  <2> QED
    BY <2>3, <2>4, <2>6, <2>7
<1>5. "seedDataToDb" \in Seeding /\ "seedDataBundlesToDb" \in Seeding
  BY DEF Seeding
<1> QED
  BY <1>1, <1>2, <1>3, <1>4, <1>5 DEF Create

LEMMA RenameMoves ==
  ASSUME TypeInv, NEW c \in Calls, Rename(c)
  PROVE  \E h \in Handlers :
           Begin(c, h) /\ Fresh(c, h) /\ UNCHANGED history /\ h.op \in Simple
<1>1. CASE \E v \in vendors, n \in VendorNames, s \in Spellings :
             Begin(c, Handler("updateVendor", updateVendor(<<n, s>>),
                              [NoDocs EXCEPT ![v.id[2]] = v.id], None, None))
  <2>1. PICK v \in vendors, n \in VendorNames, s \in Spellings :
             Begin(c, Handler("updateVendor", updateVendor(<<n, s>>),
                              [NoDocs EXCEPT ![v.id[2]] = v.id], None, None))
    BY <1>1
  <2> DEFINE docs == [NoDocs EXCEPT ![v.id[2]] = v.id]
             h == Handler("updateVendor", updateVendor(<<n, s>>), docs, None, None)
  <2>2. "updateVendor" \in Ops /\ updateVendor(<<n, s>>) \in Seq(Steps)
    BY ScriptTypes DEF Ops
  <2>3. docs \in [VendorNames -> VendorIds \cup {None}]
    BY DEF NoDocs, TypeInv, VendorRows, VendorIds
  <2> HIDE DEF docs
  <2>4. /\ h \in Handlers /\ h.op = "updateVendor" /\ h.todo = updateVendor(<<n, s>>)
        /\ h.state = "working" /\ h.viewed = 0 /\ h.next = 0 /\ h.nth = 0
    BY <2>2, <2>3, HandlerTypes
  <2> HIDE DEF h
  <2>5. Fresh(c, h)
    BY <2>4, ScriptHolds DEF Fresh
  <2> QED
    BY <2>1, <2>4, <2>5 DEF h, docs, Rename, Simple
<1>2. CASE \E p \in products, code \in Codes :
             Begin(c, Handler("updateProduct", updateProduct(code), NoDocs, p.id, None))
  <2>1. PICK p \in products, code \in Codes :
             Begin(c, Handler("updateProduct", updateProduct(code), NoDocs, p.id, None))
    BY <1>2
  <2> DEFINE h == Handler("updateProduct", updateProduct(code), NoDocs, p.id, None)
  <2>2. "updateProduct" \in Ops /\ updateProduct(code) \in Seq(Steps)
    BY ScriptTypes DEF Ops
  <2>3. NoDocs \in [VendorNames -> VendorIds \cup {None}] /\ p.id \in ProductIds
    BY DEF NoDocs, TypeInv, ProductRows
  <2>4. /\ h \in Handlers /\ h.op = "updateProduct" /\ h.todo = updateProduct(code)
        /\ h.state = "working" /\ h.viewed = 0 /\ h.next = 0 /\ h.nth = 0
    BY <2>2, <2>3, HandlerTypes
  <2> HIDE DEF h
  <2>5. Fresh(c, h)
    BY <2>4, ScriptHolds DEF Fresh
  <2> QED
    BY <2>1, <2>4, <2>5 DEF h, Rename, Simple
<1> QED
  BY <1>1, <1>2 DEF Rename

(* A call that is to offer a vendor's product. *)
Offering(c, h, v, p) ==
  /\ h.op = "createVendorProduct" /\ h.todo = createVendorProduct(v.id[2])
  /\ h.docs = [NoDocs EXCEPT ![v.id[2]] = v.id] /\ h.product = p.id
  /\ crossedPairs' =
       IF \E d \in Calls : Working(d) /\ call[d].op \in Adding /\ call[d].product = p.id
       THEN crossedPairs \cup {<<v.id, p.id>>} ELSE crossedPairs

LEMMA CreateOfferMoves ==
  ASSUME TypeInv, NEW c \in Calls, CreateOffer(c)
  PROVE  \E v \in vendors, p \in products, h \in Handlers :
           /\ Begin(c, h) /\ Fresh(c, h) /\ Offering(c, h, v, p)
           /\ UNCHANGED <<renamed, crossedOffers>>
<1>1. PICK v \in vendors, p \in products :
        /\ \E b \in IF p.id[2] \in Range(Networks) THEN {x.id : x \in bundles} ELSE {None} :
             Begin(c, Handler("createVendorProduct", createVendorProduct(v.id[2]),
                              [NoDocs EXCEPT ![v.id[2]] = v.id], p.id, b))
        /\ crossedPairs' =
             IF \E d \in Calls : Working(d) /\ call[d].op \in Adding /\ call[d].product = p.id
             THEN crossedPairs \cup {<<v.id, p.id>>} ELSE crossedPairs
        /\ UNCHANGED <<renamed, crossedOffers>>
  BY DEF CreateOffer
<1>2. PICK b \in BundleIds \cup {None} :
        Begin(c, Handler("createVendorProduct", createVendorProduct(v.id[2]),
                         [NoDocs EXCEPT ![v.id[2]] = v.id], p.id, b))
  BY <1>1 DEF TypeInv, BundleRows
<1> DEFINE docs == [NoDocs EXCEPT ![v.id[2]] = v.id]
           h == Handler("createVendorProduct", createVendorProduct(v.id[2]), docs, p.id, b)
<1>3. v.id \in VendorIds /\ v.id[2] \in VendorNames /\ p.id \in ProductIds
  BY DEF TypeInv, VendorRows, VendorIds, ProductRows
<1>4. "createVendorProduct" \in Ops /\ createVendorProduct(v.id[2]) \in Seq(Steps)
  BY <1>3, ScriptTypes DEF Ops
<1>5. docs \in [VendorNames -> VendorIds \cup {None}]
  BY <1>3 DEF NoDocs
<1> HIDE DEF docs
<1>6. /\ h \in Handlers /\ h.op = "createVendorProduct" /\ h.todo = createVendorProduct(v.id[2])
      /\ h.state = "working" /\ h.viewed = 0 /\ h.next = 0 /\ h.nth = 0
      /\ h.docs = docs /\ h.product = p.id
  BY <1>3, <1>4, <1>5, HandlerTypes
<1> HIDE DEF h
<1>7. Fresh(c, h)
  BY <1>6, ScriptHolds DEF Fresh
<1>8. Offering(c, h, v, p)
  BY <1>1, <1>6 DEF Offering, docs
<1>9. Begin(c, h)
  BY <1>2 DEF h, docs
<1> QED
  BY <1>1, <1>6, <1>7, <1>8, <1>9

(* A call that is to change a key of an offer's data. *)
Changing(c, h, o, k) ==
  /\ h.op = "updateVendorProduct" /\ h.todo = updateVendorProduct(k)
  /\ h.offer = o.id /\ h.key = k /\ h.schema = [o.schema EXCEPT ![k] = c]
  /\ crossedOffers' =
       IF \E d \in Calls : Working(d) /\ call[d].offer = o.id
       THEN crossedOffers \cup {o.id} ELSE crossedOffers

LEMMA Merged ==
  ASSUME NEW s \in Schemas, NEW k \in SchemaKeys, NEW c \in Calls
  PROVE  /\ Merge(s, [Bare EXCEPT ![k] = c]) = [s EXCEPT ![k] = c]
         /\ Merge(s, [s EXCEPT ![k] = c]) = [s EXCEPT ![k] = c]
         /\ [s EXCEPT ![k] = c] \in Schemas
<1>1. c # None
  BY NoneAssumption DEF Calls
<1>2. [s EXCEPT ![k] = c] \in Schemas
  BY DEF Schemas
<1>3. \A i \in SchemaKeys : Merge(s, [Bare EXCEPT ![k] = c])[i] = [s EXCEPT ![k] = c][i]
  BY <1>1 DEF Merge, Bare, Schemas
<1>4. \A i \in SchemaKeys : Merge(s, [s EXCEPT ![k] = c])[i] = [s EXCEPT ![k] = c][i]
  BY <1>1 DEF Merge, Schemas
<1> QED
  BY <1>2, <1>3, <1>4 DEF Merge, Schemas

LEMMA UpdateOfferMoves ==
  ASSUME TypeInv, NEW c \in Calls, UpdateOffer(c)
  PROVE  \E o \in offers, k \in SchemaKeys, h \in Handlers :
           /\ Begin(c, h) /\ Fresh(c, h) /\ Changing(c, h, o, k)
           /\ UNCHANGED <<renamed, crossedPairs>>
<1>1. PICK o \in offers, k \in SchemaKeys :
        /\ Begin(c, [Handler("updateVendorProduct", updateVendorProduct(k), NoDocs, None, None)
                     EXCEPT !.offer = o.id, !.key = k,
                            !.schema = Merge(o.schema, [Bare EXCEPT ![k] = c])])
        /\ crossedOffers' =
             IF \E d \in Calls : Working(d) /\ call[d].offer = o.id
             THEN crossedOffers \cup {o.id} ELSE crossedOffers
        /\ UNCHANGED <<renamed, crossedPairs>>
  BY DEF UpdateOffer
<1> DEFINE g == Handler("updateVendorProduct", updateVendorProduct(k), NoDocs, None, None)
           schema == Merge(o.schema, [Bare EXCEPT ![k] = c])
           h == [g EXCEPT !.offer = o.id, !.key = k, !.schema = schema]
<1>2. o.id \in OfferIds /\ o.schema \in Schemas
  BY DEF TypeInv, OfferRows
<1>3. schema = [o.schema EXCEPT ![k] = c] /\ schema \in Schemas
  BY <1>2, Merged
<1>4. /\ "updateVendorProduct" \in Ops /\ updateVendorProduct(k) \in Seq(Steps)
      /\ NoDocs \in [VendorNames -> VendorIds \cup {None}]
  BY ScriptTypes DEF Ops, NoDocs
<1>5. /\ g \in Handlers /\ g.op = "updateVendorProduct" /\ g.todo = updateVendorProduct(k)
      /\ g.state = "working" /\ g.viewed = 0 /\ g.next = 0 /\ g.nth = 0
  <2> HIDE DEF schema
  <2>1. g \in Handlers /\ g.op = "updateVendorProduct" /\ g.todo = updateVendorProduct(k)
    BY <1>4, HandlerTypes
  <2>2. g.state = "working" /\ g.viewed = 0 /\ g.next = 0 /\ g.nth = 0
    BY <1>4, HandlerTypes
  <2> QED
    BY <2>1, <2>2
<1>6. Begin(c, h)
  BY <1>1
<1> HIDE DEF g, schema
<1>7. h \in Handlers
  BY <1>2, <1>3, <1>5 DEF Handlers
<1>8. /\ h.op = "updateVendorProduct" /\ h.todo = updateVendorProduct(k)
      /\ h.state = "working" /\ h.viewed = 0 /\ h.next = 0 /\ h.nth = 0
      /\ h.offer = o.id /\ h.key = k /\ h.schema = schema
  BY <1>2, <1>3, <1>5 DEF Handlers
<1> HIDE DEF h
<1>9. Fresh(c, h)
  BY <1>7, <1>8, ScriptHolds DEF Fresh
<1>10. Changing(c, h, o, k)
  BY <1>1, <1>3, <1>8 DEF Changing
<1> QED
  BY <1>1, <1>6, <1>7, <1>9, <1>10

LEMMA RefuseMoves ==
  ASSUME TypeInv, ScriptInv, NEW c \in Calls, Refuse(c)
  PROVE  /\ call' \in [Calls -> Handlers]
         /\ \A d \in Calls : d # c => call'[d] = call[d]
         /\ call[c].todo # <<>> /\ Working(c)
         /\ \/ call'[c] = [call[c] EXCEPT !.state = "refused"]
            \/ /\ call'[c] = [call[c] EXCEPT !.todo = Tail(call[c].todo)]
               /\ \/ /\ At(c, "refuseOffer")
                     /\ ~\E o \in offers : /\ o.vendor = call[c].docs[What(c)]
                                           /\ o.product = call[c].product
                  \/ call[c].op \in Simple \cup Seeding
<1>1. call[c].todo # <<>> /\ Working(c)
  BY AtVendor, AtProduct, AtOffer DEF Refuse, OnVendor, OnOffer, At
<1>2. Finish(c) \/ Pass(c)
  BY DEF Refuse
<1>3. CASE Finish(c)
  BY <1>1, <1>3, Ends DEF Finish, States
<1>4. CASE Pass(c) /\ ~Finish(c)
  <2>1. call[c].op \in Simple \cup Seeding \/ At(c, "refuseOffer")
    BY AtVendor, AtProduct DEF Refuse, OnVendor, Simple
  <2>2. At(c, "refuseOffer") => ~\E o \in offers : /\ o.vendor = call[c].docs[What(c)]
                                                   /\ o.product = call[c].product
    BY <1>4 DEF Refuse, At
  <2> QED
    BY <1>1, <1>4, <2>1, <2>2, Passes
<1> QED
  BY <1>2, <1>3, <1>4

NewOffer(c) ==
  OfferRow(<<c, What(c), call[c].product, call[c].bundle>>, call[c].docs[What(c)],
           call[c].product, call[c].bundle,
           [Bare EXCEPT !["code"] = c,
                        !["datacode"] = IF call[c].op = "seedDataBundlesToDb" THEN c ELSE @])

LEMMA OfferAdded ==
  ASSUME TypeInv, ScriptInv, NEW c \in Calls, AddOffer(c)
  PROVE  /\ call' \in [Calls -> Handlers]
         /\ \A d \in Calls : d # c => call'[d] = call[d]
         /\ call'[c] = [call[c] EXCEPT !.todo = Tail(call[c].todo)]
         /\ At(c, "addOffer") /\ offers' = offers \cup {NewOffer(c)}
         /\ NewOffer(c) \in OfferRows
         /\ NewOffer(c).id = <<c, What(c), call[c].product, call[c].bundle>>
         /\ NewOffer(c).by = c /\ NewOffer(c).vendor = call[c].docs[What(c)]
         /\ NewOffer(c).product = call[c].product /\ NewOffer(c).bundle = call[c].bundle
<1>0. At(c, "addOffer")
  BY DEF AddOffer
<1>1. call[c].todo # <<>> /\ What(c) \in VendorNames
  BY <1>0, AtOffer DEF OnOffer
<1> DEFINE schema == [Bare EXCEPT !["code"] = c,
                        !["datacode"] = IF call[c].op = "seedDataBundlesToDb" THEN c ELSE @]
<1>2. schema \in Schemas
  BY DEF Schemas, Bare, SchemaKeys
<1>3. /\ call[c].docs[What(c)] \in VendorIds \cup {None}
      /\ call[c].product \in ProductIds \cup {None} /\ call[c].bundle \in BundleIds \cup {None}
  BY <1>1 DEF TypeInv, Handlers
<1>4. <<c, What(c), call[c].product, call[c].bundle>> \in OfferIds
  BY <1>1, <1>3 DEF OfferIds
<1>5. offers' = offers \cup {NewOffer(c)} /\ Pass(c)
  BY DEF AddOffer, NewOffer
<1>6. NewOffer(c) = [id |-> <<c, What(c), call[c].product, call[c].bundle>>, by |-> c,
                     vendor |-> call[c].docs[What(c)], product |-> call[c].product,
                     bundle |-> call[c].bundle, schema |-> schema]
  BY DEF NewOffer, OfferRow
<1> HIDE DEF schema
<1>7. NewOffer(c) \in OfferRows
  BY <1>2, <1>3, <1>4, <1>6 DEF OfferRows
<1>8. /\ NewOffer(c).id = <<c, What(c), call[c].product, call[c].bundle>>
      /\ NewOffer(c).by = c /\ NewOffer(c).vendor = call[c].docs[What(c)]
      /\ NewOffer(c).product = call[c].product /\ NewOffer(c).bundle = call[c].bundle
  BY <1>6
<1> QED
  BY <1>0, <1>1, <1>5, <1>7, <1>8, Passes

LEMMA ReadMoves ==
  ASSUME TypeInv, ScriptInv, NEW c \in Calls, ReadSchema(c)
  PROVE  /\ call' \in [Calls -> Handlers]
         /\ \A d \in Calls : d # c => call'[d] = call[d]
         /\ At(c, "readSchema")
         /\ \E o \in offers :
              /\ o.id = call[c].offer
              /\ call'[c] = [call[c] EXCEPT !.schema = Merge(o.schema, call[c].schema),
                                            !.todo = Tail(call[c].todo)]
<1>0. At(c, "readSchema") /\ call[c].todo # <<>>
  BY AtSchema DEF ReadSchema, OnSchema
<1>1. PICK o \in offers :
        /\ o.id = call[c].offer
        /\ call' = [call EXCEPT ![c].schema = Merge(o.schema, @), ![c].todo = Tail(@)]
  BY DEF ReadSchema
<1>2. o.schema \in Schemas /\ call[c].schema \in Schemas
  BY DEF TypeInv, OfferRows, Handlers
<1>3. Merge(o.schema, call[c].schema) \in Schemas
  BY <1>2 DEF Schemas, Merge
<1>4. Tail(call[c].todo) \in Seq(Steps)
  BY <1>0, TailOf DEF TypeInv, Handlers
<1> DEFINE g == [call[c] EXCEPT !.schema = Merge(o.schema, call[c].schema),
                                !.todo = Tail(call[c].todo)]
<1>5. call \in [Calls -> Handlers] /\ g \in Handlers
  BY <1>3, <1>4 DEF TypeInv, Handlers
<1>6. call' = [call EXCEPT ![c] = g]
  BY <1>1, <1>5
<1> QED
  BY <1>0, <1>1, <1>5, <1>6, Placed

(* The row that is written. *)
Rewritten(c, o) == IF o.id = call[c].offer THEN [o EXCEPT !.schema = call[c].schema] ELSE o

LEMMA WriteMoves ==
  ASSUME TypeInv, ScriptInv, NEW c \in Calls, WriteSchema(c)
  PROVE  /\ call' \in [Calls -> Handlers]
         /\ \A d \in Calls : d # c => call'[d] = call[d]
         /\ call'[c] = [call[c] EXCEPT !.todo = Tail(call[c].todo)]
         /\ At(c, "writeSchema")
         /\ offers' = {Rewritten(c, o) : o \in offers}
         /\ \A o \in offers :
              /\ Rewritten(c, o) \in OfferRows
              /\ Rewritten(c, o).id = o.id /\ Rewritten(c, o).by = o.by
              /\ Rewritten(c, o).vendor = o.vendor /\ Rewritten(c, o).product = o.product
              /\ Rewritten(c, o).bundle = o.bundle
              /\ Rewritten(c, o).schema = IF o.id = call[c].offer THEN call[c].schema
                                          ELSE o.schema
<1>0. At(c, "writeSchema") /\ call[c].todo # <<>>
  BY AtSchema DEF WriteSchema, OnSchema
<1>1. offers' = {Rewritten(c, o) : o \in offers} /\ Pass(c)
  BY DEF WriteSchema, Rewritten
<1>2. call[c].schema \in Schemas
  BY DEF TypeInv, Handlers
<1>3. \A o \in offers : o \in OfferRows
  BY DEF TypeInv
<1>4. ASSUME NEW o \in OfferRows
      PROVE  /\ Rewritten(c, o) \in OfferRows
             /\ Rewritten(c, o).id = o.id /\ Rewritten(c, o).by = o.by
             /\ Rewritten(c, o).vendor = o.vendor /\ Rewritten(c, o).product = o.product
             /\ Rewritten(c, o).bundle = o.bundle
             /\ Rewritten(c, o).schema = IF o.id = call[c].offer THEN call[c].schema
                                         ELSE o.schema
  <2>1. CASE o.id = call[c].offer
    BY <1>2, <2>1 DEF Rewritten, OfferRows
  <2>2. CASE o.id # call[c].offer
    BY <2>2 DEF Rewritten
  <2> QED
    BY <2>1, <2>2
<1> QED
  BY <1>0, <1>1, <1>3, <1>4, Passes

LEMMA RenameSteps ==
  ASSUME TypeInv, ScriptInv, NEW c \in Calls, RenameVendor(c) \/ RenameProduct(c)
  PROVE  /\ call' \in [Calls -> Handlers]
         /\ \A d \in Calls : d # c => call'[d] = call[d]
         /\ Working(c) /\ call[c].todo # <<>>
         /\ call[c].op \in Simple \cup Seeding
         /\ \/ call'[c] = [call[c] EXCEPT !.state = "refused"]
            \/ call'[c] = [call[c] EXCEPT !.todo = Tail(call[c].todo)]
         /\ UNCHANGED <<bundles, offers, crossedPairs, crossedOffers>>
<1>1. /\ Working(c) /\ call[c].todo # <<>> /\ call[c].op \in Simple \cup Seeding
      /\ At(c, "renameVendor") \/ At(c, "renameProduct")
  BY AtVendor, AtProduct DEF RenameVendor, RenameProduct, OnVendor, At, Simple
<1>2. Finish(c) \/ Pass(c)
  BY DEF RenameVendor, RenameProduct
<1>3. UNCHANGED <<bundles, offers, crossedPairs, crossedOffers>>
  BY DEF RenameVendor, RenameProduct
<1>4. CASE Finish(c)
  BY <1>1, <1>3, <1>4, Ends DEF Finish, States
<1>5. CASE Pass(c)
  BY <1>1, <1>3, <1>5, Passes
<1> QED
  BY <1>2, <1>4, <1>5

LEMMA EndMoves ==
  ASSUME TypeInv, ScriptInv, NEW c \in Calls, Answer(c) \/ Throw(c)
  PROVE  /\ call' \in [Calls -> Handlers]
         /\ \A d \in Calls : d # c => call'[d] = call[d]
         /\ Working(c)
         /\ \/ call'[c] = [call[c] EXCEPT !.state = "answered"] /\ call[c].todo = <<>>
            \/ call'[c] = [call[c] EXCEPT !.state = "thrown"]
         /\ UNCHANGED <<vendors, products, bundles, offers, history>>
<1>1. CASE Answer(c)
  <2>1. Working(c) /\ call[c].todo = <<>>
    BY <1>1, AtAnswer DEF Answer, At
  <2>2. call' = [call EXCEPT ![c].state = "answered"] /\ "answered" \in States
    BY <1>1 DEF Answer, States
  <2> QED
    BY <1>1, <2>1, <2>2, Ends DEF Answer
<1>2. CASE Throw(c)
  <2>1. call' = [call EXCEPT ![c].state = "thrown"] /\ "thrown" \in States
    BY <1>2 DEF Throw, States
  <2> QED
    BY <1>2, <2>1, Ends DEF Throw
<1> QED
  BY <1>1, <1>2

(* What no step of a call changes. *)
Steady(c) ==
  /\ call' \in [Calls -> Handlers]
  /\ \A d \in Calls : d # c => call'[d] = call[d]
  /\ Working(c) /\ call'[c].state # "new"
  /\ call'[c].op = call[c].op /\ call'[c].offer = call[c].offer /\ call'[c].key = call[c].key
  /\ UNCHANGED <<crossedPairs, crossedOffers>>
  /\ renamed \subseteq renamed'

LEMMA StepMoves ==
  ASSUME TypeInv, ScriptInv, NEW c \in Calls, Step(c)
  PROVE  Steady(c)
<1>0. call[c] \in Handlers
  BY DEF TypeInv
<1> DEFINE Like(g) == /\ g.state # "new" /\ g.op = call[c].op
                      /\ g.offer = call[c].offer /\ g.key = call[c].key
<1>6. /\ Like(call'[c]) /\ Working(c) /\ call' \in [Calls -> Handlers]
      /\ \A d \in Calls : d # c => call'[d] = call[d]
  <2>1. CASE Refuse(c)
    <3>1. Working(c) /\ call' \in [Calls -> Handlers] /\ \A d \in Calls : d # c => call'[d] = call[d]
      BY <2>1, RefuseMoves DEF At
    <3>2. \/ call'[c] = [call[c] EXCEPT !.state = "refused"]
          \/ call'[c] = [call[c] EXCEPT !.todo = Tail(call[c].todo)]
      BY <2>1, RefuseMoves
    <3> QED
      BY <1>0, <3>1, <3>2 DEF Like, Handlers, Working
  <2>2. CASE ViewVendor(c)
    <3>1. Working(c) /\ call' \in [Calls -> Handlers] /\ \A d \in Calls : d # c => call'[d] = call[d]
      BY <2>2, Views DEF At
    <3>2. \/ call'[c] = [call[c] EXCEPT !.state = "refused"]
          \/ \E id : call'[c] = Found(c, id)
          \/ call'[c] = Missing(c)
      BY <2>2, Views
    <3> QED
      BY <1>0, <3>1, <3>2 DEF Like, Handlers, Working, Found, Missing
  <2>3. CASE AddVendor(c)
    <3>1. Working(c) /\ call' \in [Calls -> Handlers] /\ \A d \in Calls : d # c => call'[d] = call[d]
      BY <2>3, VendorAdded DEF At
    <3>2. \/ call'[c] = [call[c] EXCEPT !.state = "refused"]
          \/ \E id : call'[c] = Named(c, id)
      BY <2>3, VendorAdded
    <3> QED
      BY <1>0, <3>1, <3>2 DEF Like, Handlers, Working, Named
  <2>4. CASE AddProduct(c)
    <3>1. Working(c) /\ call' \in [Calls -> Handlers] /\ \A d \in Calls : d # c => call'[d] = call[d]
      BY <2>4, ProductAdded DEF At
    <3>2. \/ call'[c] = [call[c] EXCEPT !.state = "refused"]
          \/ call'[c] = Taken(c, <<c, What(c)>>,
                              IF call[c].op = "seedDataToDb" THEN offersOf(SEED(What(c)))
                              ELSE <<>>)
      BY <2>4, ProductAdded
    <3> QED
      BY <1>0, <3>1, <3>2 DEF Like, Handlers, Working, Taken
  <2>5. CASE AddBundle(c)
    <3>1. Working(c) /\ call' \in [Calls -> Handlers] /\ \A d \in Calls : d # c => call'[d] = call[d]
      BY <2>5, BundleAdded DEF At
    <3>2. \/ call'[c] = [call[c] EXCEPT !.state = "refused"]
          \/ \E id, s : call'[c] = Bundled(c, id, s)
      BY <2>5, BundleAdded
    <3> QED
      BY <1>0, <3>1, <3>2 DEF Like, Handlers, Working, Bundled
  <2>6. CASE AddOffer(c)
    <3>1. Working(c) /\ call' \in [Calls -> Handlers] /\ \A d \in Calls : d # c => call'[d] = call[d]
      BY <2>6, OfferAdded DEF At
    <3>2. call'[c] = [call[c] EXCEPT !.todo = Tail(call[c].todo)]
      BY <2>6, OfferAdded
    <3> QED
      BY <1>0, <3>1, <3>2 DEF Like, Handlers, Working
  <2>7. CASE RenameVendor(c) \/ RenameProduct(c)
    <3>1. Working(c) /\ call' \in [Calls -> Handlers] /\ \A d \in Calls : d # c => call'[d] = call[d]
      BY <2>7, RenameSteps DEF At
    <3>2. \/ call'[c] = [call[c] EXCEPT !.state = "refused"]
          \/ call'[c] = [call[c] EXCEPT !.todo = Tail(call[c].todo)]
      BY <2>7, RenameSteps
    <3> QED
      BY <1>0, <3>1, <3>2 DEF Like, Handlers, Working
  <2>8. CASE ReadSchema(c)
    <3>1. Working(c) /\ call' \in [Calls -> Handlers] /\ \A d \in Calls : d # c => call'[d] = call[d]
      BY <2>8, ReadMoves DEF At
    <3>2. \E m : call'[c] = [call[c] EXCEPT !.schema = m, !.todo = Tail(call[c].todo)]
      BY <2>8, ReadMoves
    <3> QED
      BY <1>0, <3>1, <3>2 DEF Like, Handlers, Working
  <2>9. CASE WriteSchema(c)
    <3>1. Working(c) /\ call' \in [Calls -> Handlers] /\ \A d \in Calls : d # c => call'[d] = call[d]
      BY <2>9, WriteMoves DEF At
    <3>2. call'[c] = [call[c] EXCEPT !.todo = Tail(call[c].todo)]
      BY <2>9, WriteMoves
    <3> QED
      BY <1>0, <3>1, <3>2 DEF Like, Handlers, Working
  <2>10. CASE Answer(c) \/ Throw(c)
    <3>1. Working(c) /\ call' \in [Calls -> Handlers] /\ \A d \in Calls : d # c => call'[d] = call[d]
      BY <2>10, EndMoves DEF At
    <3>2. \/ call'[c] = [call[c] EXCEPT !.state = "answered"]
          \/ call'[c] = [call[c] EXCEPT !.state = "thrown"]
      BY <2>10, EndMoves
    <3> QED
      BY <1>0, <3>1, <3>2 DEF Like, Handlers, Working
  <2> QED
    BY <2>1, <2>2, <2>3, <2>4, <2>5, <2>6, <2>7, <2>8, <2>9, <2>10 DEF Step
<1>7. UNCHANGED <<crossedPairs, crossedOffers>> /\ renamed \subseteq renamed'
  BY DEF Step, Refuse, ViewVendor, AddVendor, AddProduct, AddBundle, AddOffer, RenameVendor,
         RenameProduct, ReadSchema, WriteSchema, Answer, Throw
<1> QED
  BY <1>6, <1>7 DEF Steady, Like

(* What every beginning changes. *)
Started(c, h) ==
  /\ h \in Handlers /\ Fresh(c, h) /\ call'[c] = h
  /\ call' \in [Calls -> Handlers]
  /\ \A d \in Calls : d # c => call'[d] = call[d]
  /\ call[c].state = "new" /\ \A d \in Calls : d < c => call[d].state # "new"
  /\ UNCHANGED <<vendors, products, bundles, offers, renamed>>

LEMMA StartMoves ==
  ASSUME TypeInv, NEW c \in Calls, Start(c)
  PROVE  \E h :
           /\ Started(c, h)
           /\ \/ UNCHANGED history /\ h.op \in Simple
              \/ /\ UNCHANGED history
                 /\ h.op \in Seeding /\ h.todo = <<>> /\ h.product = None /\ h.bundle = None
              \/ /\ UNCHANGED crossedOffers
                 /\ \E v \in vendors, p \in products : Offering(c, h, v, p)
              \/ /\ UNCHANGED crossedPairs
                 /\ \E o \in offers, k \in SchemaKeys : Changing(c, h, o, k)
<1>1. CASE Create(c)
  BY <1>1, CreateMoves, BeginMoves DEF Started
<1>2. CASE Rename(c)
  BY <1>2, RenameMoves, BeginMoves DEF Started
<1>3. CASE CreateOffer(c)
  BY <1>3, CreateOfferMoves, BeginMoves DEF Started
<1>4. CASE UpdateOffer(c)
  BY <1>4, UpdateOfferMoves, BeginMoves DEF Started
<1> QED
  BY <1>1, <1>2, <1>3, <1>4 DEF Start

-----------------------------------------------------------------------------
(* Types *)

LEMMA TypeInit == Init => TypeInv
<1> SUFFICES ASSUME Init PROVE TypeInv
  OBVIOUS
<1>1. call \in [Calls -> Handlers]
  BY IdleTypes DEF Init
<1> QED
  BY <1>1 DEF Init, TypeInv

LEMMA TypeStep == TypeInv /\ ScriptInv /\ [Next]_vars => TypeInv'
<1> SUFFICES ASSUME TypeInv, ScriptInv, [Next]_vars PROVE TypeInv'
  OBVIOUS
<1>1. ASSUME NEW c \in Calls, Start(c) PROVE TypeInv'
  <2>1. PICK h : /\ Started(c, h)
                 /\ \/ UNCHANGED history
                    \/ /\ UNCHANGED crossedOffers
                       /\ \E v \in vendors, p \in products : Offering(c, h, v, p)
                    \/ /\ UNCHANGED crossedPairs
                       /\ \E o \in offers, k \in SchemaKeys : Changing(c, h, o, k)
    BY <1>1, StartMoves
  <2>2. /\ crossedPairs' \subseteq (VendorIds \cup {None}) \X (ProductIds \cup {None})
        /\ crossedOffers' \subseteq OfferIds
    <3>1. CASE \E v \in vendors, p \in products :
                 UNCHANGED crossedOffers /\ Offering(c, h, v, p)
      BY <3>1 DEF Offering, TypeInv, VendorRows, ProductRows
    <3>2. CASE \E o \in offers, k \in SchemaKeys :
                 UNCHANGED crossedPairs /\ Changing(c, h, o, k)
      BY <3>2 DEF Changing, TypeInv, OfferRows
    <3> QED
      BY <2>1, <3>1, <3>2 DEF TypeInv
  <2> QED
    BY <2>1, <2>2 DEF Started, TypeInv
<1>2. ASSUME NEW c \in Calls, Step(c) PROVE TypeInv'
  <2>1. /\ call' \in [Calls -> Handlers] /\ UNCHANGED <<crossedPairs, crossedOffers>>
    BY <1>2, StepMoves DEF Steady
  <2>2. vendors' \subseteq VendorRows /\ renamed' \subseteq VendorIds
    <3>1. CASE AddVendor(c)
      <4>1. At(c, "addVendor") => What(c) \in VendorNames \X Spellings
        BY AtVendor DEF OnVendor
      <4>2. At(c, "addVendor") =>
              VendorRow(<<c, What(c)[1]>>, <<What(c)[1], "trimmed">>) \in VendorRows
        BY <4>1 DEF VendorRow, VendorRows, VendorIds, Spellings
      <4> QED
        BY <3>1, <4>2, VendorAdded DEF AddVendor, TypeInv
    <3>2. CASE RenameVendor(c)
      <4>1. What(c) \in VendorNames \X Spellings
        BY <3>2, AtVendor DEF OnVendor, RenameVendor
      <4>2. \A v \in vendors : v \in VendorRows /\ v.id \in VendorIds
        BY DEF TypeInv, VendorRows
      <4>3. \A v \in vendors : [v EXCEPT !.name = What(c)] \in VendorRows
        BY <4>1, <4>2 DEF VendorRows
      <4>4. \/ UNCHANGED <<vendors, renamed>>
            \/ /\ vendors' = {IF v.id = call[c].docs[v.id[2]] THEN [v EXCEPT !.name = What(c)]
                              ELSE v : v \in vendors}
               /\ renamed' = renamed \cup {v.id : v \in {w \in vendors : w.id = call[c].docs[w.id[2]]}}
        BY <3>2 DEF RenameVendor
      <4> QED
        BY <4>2, <4>3, <4>4 DEF TypeInv
    <3> QED
      BY <1>2, <3>1, <3>2
         DEF Step, Refuse, ViewVendor, AddProduct, AddBundle, AddOffer, RenameProduct,
             ReadSchema, WriteSchema, Answer, Throw, TypeInv
  <2>3. products' \subseteq ProductRows
    <3>1. CASE AddProduct(c)
      <4>1. ProductRow(<<c, What(c)>>, What(c)) \in ProductRows
        BY <3>1, AtAddProduct DEF AddProduct, ProductRow, ProductRows, ProductIds
      <4> QED
        BY <3>1, <4>1, ProductAdded DEF TypeInv
    <3>2. CASE RenameProduct(c)
      <4>1. What(c) \in Codes
        BY <3>2, AtProduct DEF RenameProduct
      <4>2. \A p \in products : p \in ProductRows /\ [p EXCEPT !.code = What(c)] \in ProductRows
        BY <4>1 DEF TypeInv, ProductRows
      <4> QED
        BY <3>2, <4>2 DEF RenameProduct, TypeInv
    <3> QED
      BY <1>2, <3>1, <3>2
         DEF Step, Refuse, ViewVendor, AddVendor, AddBundle, AddOffer, RenameVendor,
             ReadSchema, WriteSchema, Answer, Throw, TypeInv
  <2>4. bundles' \subseteq BundleRows
    <3>1. CASE AddBundle(c)
      <4>1. What(c) \in Range(Networks) \X Nat
        BY <3>1, AtAddBundle DEF AddBundle
      <4>2. BundleRow(<<c, What(c)>>, What(c)) \in BundleRows
        BY <4>1 DEF BundleRow, BundleRows, BundleIds
      <4> QED
        BY <3>1, <4>2, BundleAdded DEF TypeInv
    <3> QED
      BY <1>2, <3>1
         DEF Step, Refuse, ViewVendor, AddVendor, AddProduct, AddOffer, RenameVendor,
             RenameProduct, ReadSchema, WriteSchema, Answer, Throw, TypeInv
  <2>5. offers' \subseteq OfferRows
    <3>0. offers \subseteq OfferRows
      BY DEF TypeInv
    <3>1. CASE AddOffer(c)
      <4>1. offers' = offers \cup {NewOffer(c)} /\ NewOffer(c) \in OfferRows
        BY <3>1, OfferAdded
      <4> QED
        BY <3>0, <4>1
    <3>2. CASE WriteSchema(c)
      <4>1. offers' = {Rewritten(c, o) : o \in offers}
        BY <3>2, WriteMoves
      <4>2. \A o \in offers : Rewritten(c, o) \in OfferRows
        BY <3>2, WriteMoves
      <4> QED
        BY <4>1, <4>2
    <3> QED
      BY <1>2, <3>1, <3>2
         DEF Step, Refuse, ViewVendor, AddVendor, AddProduct, AddBundle, RenameVendor,
             RenameProduct, ReadSchema, Answer, Throw, TypeInv
  <2> QED
    BY <2>1, <2>2, <2>3, <2>4, <2>5 DEF TypeInv
<1>3. CASE UNCHANGED vars
  BY <1>3 DEF vars, TypeInv
<1> QED
  BY <1>1, <1>2, <1>3 DEF Next

-----------------------------------------------------------------------------
(* Scripts are kept *)

(* No row of an offer or a product is ever dropped. *)
IdsStay ==
  /\ \A o \in offers : \E q \in offers' : q.id = o.id
  /\ \A p \in products : \E q \in products' : q.id = p.id

LEMMA RowsStay ==
  ASSUME TypeInv, ScriptInv, NEW c \in Calls, Start(c) \/ Step(c)
  PROVE  IdsStay
<1>1. CASE Start(c)
  BY <1>1, StartMoves DEF Started, IdsStay
<1>2. CASE AddOffer(c)
  BY <1>2, OfferAdded DEF AddOffer, IdsStay
<1>3. CASE WriteSchema(c)
  <2>1. offers' = {Rewritten(c, o) : o \in offers} /\ UNCHANGED products
    BY <1>3, WriteMoves DEF WriteSchema
  <2>2. \A o \in offers : Rewritten(c, o) \in offers' /\ Rewritten(c, o).id = o.id
    BY <1>3, <2>1, WriteMoves
  <2> QED
    BY <2>1, <2>2 DEF IdsStay
<1>4. CASE AddProduct(c)
  <2>1. products \subseteq products' /\ UNCHANGED offers
    BY <1>4, ProductAdded DEF AddProduct
  <2> QED
    BY <2>1 DEF IdsStay
<1>5. CASE RenameProduct(c)
  <2>1. \A p \in products : [p EXCEPT !.code = What(c)].id = p.id
    BY DEF TypeInv, ProductRows
  <2>2. \/ UNCHANGED products
        \/ products' = {IF p.id = call[c].product THEN [p EXCEPT !.code = What(c)]
                          ELSE p : p \in products}
    BY <1>5 DEF RenameProduct
  <2>3. UNCHANGED offers
    BY <1>5 DEF RenameProduct
  <2> QED
    BY <2>1, <2>2, <2>3 DEF IdsStay
<1> QED
  BY <1>1, <1>2, <1>3, <1>4, <1>5
     DEF Step, Refuse, ViewVendor, AddVendor, AddBundle, RenameVendor, ReadSchema, Answer,
         Throw, IdsStay

LEMMA TailScript ==
  ASSUME TypeInv, ScriptInv, NEW c \in Calls, Steady(c), IdsStay,
         call[c].todo # <<>>, call'[c].todo = Tail(call[c].todo),
         call[c].op = "createVendorProduct" => call'[c].docs = call[c].docs
  PROVE  Scripted(c)'
<1>1. call[c].todo \in Seq(Steps) /\ Scripted(c)
  BY DEF TypeInv, Handlers, ScriptInv
<1>2. \A i \in DOMAIN call'[c].todo : Holds(call'[c].op, call'[c].todo[i].do)
  BY <1>1, TailOf DEF Scripted, Steady
<1>3. call'[c].op = "createVendorProduct" =>
       \E n \in VendorNames :
         /\ call'[c].docs[n] \in VendorIds /\ call'[c].docs[n][2] = n
         /\ call'[c].todo \in {createVendorProduct(n), <<On("addOffer", n)>>, <<>>}
  <2> SUFFICES ASSUME call'[c].op = "createVendorProduct"
               PROVE \E n \in VendorNames :
                       /\ call'[c].docs[n] \in VendorIds /\ call'[c].docs[n][2] = n
                       /\ call'[c].todo \in {createVendorProduct(n), <<On("addOffer", n)>>, <<>>}
    OBVIOUS
  <2>1. PICK n \in VendorNames :
         /\ call[c].docs[n] \in VendorIds /\ call[c].docs[n][2] = n
         /\ call[c].todo \in {createVendorProduct(n), <<On("addOffer", n)>>, <<>>}
    BY <1>1 DEF Scripted, Steady
  <2>2. call[c].todo = createVendorProduct(n) => Tail(call[c].todo) = <<On("addOffer", n)>>
    BY DEF createVendorProduct
  <2>3. call[c].todo = <<On("addOffer", n)>> => Tail(call[c].todo) = <<>>
    OBVIOUS
  <2> QED
    BY <2>1, <2>2, <2>3 DEF Steady
<1>4. call'[c].op = "updateVendorProduct" =>
       /\ \E o \in offers' : o.id = call'[c].offer
       /\ call'[c].key \in SchemaKeys
       /\ call'[c].todo \in {updateVendorProduct(call'[c].key),
                             <<On("writeSchema", call'[c].key)>>, <<>>}
  <2> SUFFICES ASSUME call'[c].op = "updateVendorProduct"
               PROVE  /\ \E o \in offers' : o.id = call'[c].offer
                      /\ call'[c].key \in SchemaKeys
                      /\ call'[c].todo \in {updateVendorProduct(call'[c].key),
                                            <<On("writeSchema", call'[c].key)>>, <<>>}
    OBVIOUS
  <2> DEFINE k == call[c].key
  <2>1. /\ \E o \in offers : o.id = call[c].offer
        /\ k \in SchemaKeys
        /\ call[c].todo \in {updateVendorProduct(k), <<On("writeSchema", k)>>, <<>>}
    BY <1>1 DEF Scripted, Steady, Working
  <2>2. call[c].todo = updateVendorProduct(k) => Tail(call[c].todo) = <<On("writeSchema", k)>>
    BY DEF updateVendorProduct
  <2>3. call[c].todo = <<On("writeSchema", k)>> => Tail(call[c].todo) = <<>>
    OBVIOUS
  <2>4. call'[c].key = k
    BY DEF Steady
  <2>5. \E o \in offers' : o.id = call'[c].offer
    BY <2>1 DEF IdsStay, Steady
  <2> QED
    BY <2>1, <2>2, <2>3, <2>4, <2>5
<1> QED
  BY <1>2, <1>3, <1>4 DEF Scripted, Steady

(* A handler that no longer has, or never had, an offer before it. *)
LEMMA OtherScript ==
  ASSUME TypeInv, ScriptInv, NEW c \in Calls, Steady(c),
         call[c].op \in Simple \cup Seeding,
         \A i \in DOMAIN call'[c].todo : Holds(call[c].op, call'[c].todo[i].do)
  PROVE  Scripted(c)'
BY DEF Scripted, Steady, Simple, Seeding

LEMMA EndedScript ==
  ASSUME TypeInv, ScriptInv, NEW c \in Calls, Steady(c), IdsStay,
         call'[c].state # "working", call'[c].todo = call[c].todo
  PROVE  Scripted(c)'
BY DEF ScriptInv, Scripted, Steady, IdsStay, Working

LEMMA StartScript ==
  ASSUME TypeInv, ScriptInv, NEW c \in Calls, Start(c)
  PROVE  Scripted(c)' /\ (call'[c].op \in Seeding => Looped(c)')
<1>1. PICK h : /\ Started(c, h)
               /\ \/ h.op \in Simple
                  \/ h.op \in Seeding /\ h.todo = <<>> /\ h.product = None /\ h.bundle = None
                  \/ \E v \in vendors, p \in products : Offering(c, h, v, p)
                  \/ \E o \in offers, k \in SchemaKeys : Changing(c, h, o, k)
  BY StartMoves
<1>2. /\ call'[c] = h /\ h.state = "working" /\ UNCHANGED offers
      /\ h.viewed = 0 /\ h.next = 0 /\ h.nth = 0
      /\ \A i \in DOMAIN h.todo : Holds(h.op, h.todo[i].do)
  BY <1>1 DEF Started, Fresh
<1>3. CASE h.op \in Simple
  BY <1>2, <1>3 DEF Scripted, Simple, Seeding
<1>4. CASE h.op \in Seeding /\ h.todo = <<>> /\ h.product = None /\ h.bundle = None
  <2>1. Scripted(c)'
    BY <1>2, <1>4 DEF Scripted, Seeding
  <2>2. 0 <= Len(Turns(h.op))
    BY Provided DEF Turns
  <2> QED
    BY <1>2, <1>4, <2>1, <2>2 DEF Looped
<1>5. CASE \E v \in vendors, p \in products : Offering(c, h, v, p)
  <2>1. PICK v \in vendors, p \in products : Offering(c, h, v, p)
    BY <1>5
  <2>2. v.id \in VendorIds /\ v.id[2] \in VendorNames
    BY DEF TypeInv, VendorRows, VendorIds
  <2>3. h.docs[v.id[2]] = v.id
    BY <2>1, <2>2 DEF Offering, NoDocs
  <2> QED
    BY <1>2, <2>1, <2>2, <2>3 DEF Scripted, Offering, Seeding
<1>6. CASE \E o \in offers, k \in SchemaKeys : Changing(c, h, o, k)
  BY <1>2, <1>6 DEF Scripted, Changing, Seeding
<1> QED
  BY <1>1, <1>3, <1>4, <1>5, <1>6

(* The steps of a seeding's script. *)
LEMMA SeedingSteps ==
  ASSUME TypeInv, ScriptInv, NEW c \in Calls, Working(c), call[c].op \in Seeding
  PROVE  /\ ~Refuse(c) /\ ~RenameVendor(c) /\ ~RenameProduct(c)
         /\ ~ReadSchema(c) /\ ~WriteSchema(c)
<1>1. NextOf(call[c]).do \notin {"refuseVendor", "refuseProduct", "refuseOffer", "renameVendor",
                                 "renameProduct", "readSchema", "writeSchema"}
  <2>1. CASE call[c].todo # <<>>
    BY <2>1, InScript DEF Holds, Seeding
  <2>2. CASE call[c].todo = <<>>
    BY <2>2 DEF NextOf, seedDataToDb, seedDataBundlesToDb, On
  <2> QED
    BY <2>1, <2>2
<1> QED
  BY <1>1 DEF Refuse, RenameVendor, RenameProduct, ReadSchema, WriteSchema, At

LEMMA ViewLooped ==
  ASSUME TypeInv, ScriptInv, NEW c \in Calls, ViewVendor(c), IdsStay, Working(c)'
  PROVE  Looped(c)' /\ Scripted(c)'
<1>1. /\ call[c].todo = <<>> /\ call[c].viewed \in 0..2 /\ call[c].next = 0
      /\ What(c) = Vendors[call[c].viewed + 1] /\ What(c) \in VendorNames
      /\ call[c].op \in Seeding
  BY Views, VendorTurn
<1>2. Steady(c) /\ call[c] \in Handlers
  BY StepMoves DEF Step, TypeInv
<1>3. Looped(c) /\ Scripted(c)
  BY <1>1, <1>2 DEF ScriptInv, Steady
<1>4. \/ \E id : call'[c] = Found(c, id)
      \/ call'[c] = Missing(c)
  BY <1>2, Views DEF Working, Handlers
<1>5. CASE \E id : call'[c] = Found(c, id)
  <2>1. /\ call'[c].todo = <<>> /\ call'[c].viewed = call[c].viewed + 1
        /\ call'[c].next = 0 /\ call'[c].nth = call[c].nth
        /\ call'[c].product = call[c].product /\ call'[c].bundle = call[c].bundle
    BY <1>1, <1>2, <1>5 DEF Found, Handlers
  <2>2. Scripted(c)'
    BY <1>1, <1>2, <2>1, OtherScript
  <2> QED
    BY <1>1, <1>2, <1>3, <2>1, <2>2 DEF Looped, Steady
<1>6. CASE call'[c] = Missing(c)
  <2> DEFINE s == On("addVendor", <<What(c), "trimmed">>)
  <2>1. /\ call'[c].todo = <<s>> /\ call'[c].viewed = call[c].viewed + 1
        /\ call'[c].next = 0 /\ call'[c].nth = call[c].nth
        /\ call'[c].product = call[c].product /\ call'[c].bundle = call[c].bundle
    BY <1>1, <1>2, <1>6 DEF Missing, Handlers
  <2>2. s.do = "addVendor"
    BY DEF On
  <2>3. s = On("addVendor", <<Vendors[call'[c].viewed], "trimmed">>) /\ call'[c].viewed > 0
    BY <1>1, <2>1
  <2> HIDE DEF s
  <2>4. \A i \in DOMAIN call'[c].todo : Holds(call[c].op, call'[c].todo[i].do)
    BY <1>1, <2>1, <2>2 DEF Holds
  <2>5. Scripted(c)'
    BY <1>1, <1>2, <2>4, OtherScript
  <2> QED
    BY <1>1, <1>2, <1>3, <2>1, <2>3, <2>5 DEF Looped, Steady
<1> QED
  BY <1>4, <1>5, <1>6

LEMMA NamedLooped ==
  ASSUME TypeInv, ScriptInv, NEW c \in Calls, AddVendor(c), IdsStay, Working(c)'
  PROVE  (call[c].op \in Seeding => Looped(c)' /\ call[c].next = 0) /\ Scripted(c)'
<1>1. /\ call[c].todo # <<>> /\ Head(call[c].todo) = On("addVendor", What(c))
      /\ call[c].op \in {"createVendor", "updateVendor"} \cup Seeding
  BY VendorAdded, AtVendor DEF OnVendor
<1>2. Steady(c) /\ call[c] \in Handlers
  BY StepMoves DEF Step, TypeInv
<1>3. call'[c] = Named(c, <<c, What(c)[1]>>)
  BY <1>2, VendorAdded DEF Working, Handlers
<1>4. /\ call'[c].todo = Tail(call[c].todo) /\ call'[c].viewed = call[c].viewed
      /\ call'[c].next = call[c].next /\ call'[c].nth = call[c].nth
      /\ call'[c].product = call[c].product /\ call'[c].bundle = call[c].bundle
  BY <1>2, <1>3 DEF Named, Handlers
<1>5. Scripted(c)'
  BY <1>1, <1>2, <1>4, TailScript DEF Seeding
<1>6. ASSUME call[c].op \in Seeding PROVE Looped(c)' /\ call[c].next = 0
  <2>1. Looped(c)
    BY <1>2, <1>6 DEF ScriptInv, Steady
  <2>2. call[c].todo \in Seq(Steps) /\ call[c].next \in Nat
    BY <1>2 DEF Handlers
  <2>3. 1 \in DOMAIN call[c].todo /\ call[c].todo[1].do = "addVendor"
    BY <1>1, <2>2 DEF On
  <2>4. call[c].next = 0
    BY <2>1, <2>2, <2>3 DEF Looped
  <2>5. call'[c].todo = <<>>
    <3>1. call[c].todo = <<On("addVendor", <<Vendors[call[c].viewed], "trimmed">>)>>
      BY <1>1, <2>1, <2>4 DEF Looped
    <3>2. \A x : Tail(<<x>>) = <<>>
      OBVIOUS
    <3> QED
      BY <1>4, <3>1, <3>2
  <2>6. /\ call[c].nth = 0 /\ call[c].product = None /\ call[c].bundle = None
        /\ 0 <= Len(Turns(call[c].op)) /\ call'[c].op = call[c].op
    BY <1>2, <2>1, <2>4 DEF Looped, Steady
  <2>7. /\ call'[c].nth = 0 /\ call'[c].product = None /\ call'[c].bundle = None
        /\ call'[c].next = 0 /\ call'[c].next <= Len(Turns(call'[c].op))
    BY <1>4, <2>4, <2>6
  <2> QED
    BY <2>4, <2>5, <2>7 DEF Looped
<1> QED
  BY <1>5, <1>6

LEMMA TakenLooped ==
  ASSUME TypeInv, ScriptInv, NEW c \in Calls, AddProduct(c), IdsStay, Working(c)'
  PROVE  (call[c].op \in Seeding => Looped(c)') /\ Scripted(c)'
<1> DEFINE s == IF call[c].op = "seedDataToDb" THEN offersOf(SEED(What(c))) ELSE <<>>
<1>1. Steady(c) /\ call[c] \in Handlers
  BY StepMoves DEF Step, TypeInv
<1>2. /\ call'[c] = Taken(c, <<c, What(c)>>, s)
      /\ products' = products \cup {ProductRow(<<c, What(c)>>, What(c))}
  BY <1>1, ProductAdded DEF Working, Handlers
<1>3. /\ \A i \in DOMAIN s : s[i].do = "addOffer" /\ call[c].op \in Seeding
      /\ \A i, j \in DOMAIN s : s[i] = s[j] => i = j
      /\ call[c].op = "seedDataBundlesToDb" => s = <<>>
  BY Seeded, Offered DEF Seeding
<1> HIDE DEF s
<1>4. /\ call'[c].todo = s /\ call'[c].viewed = call[c].viewed
      /\ call'[c].next = call[c].next + 1 /\ call'[c].nth = 0
      /\ call'[c].product = <<c, What(c)>> /\ call'[c].bundle = None
  BY <1>1, <1>2 DEF Taken, Handlers
<1>5. call[c].op \in Simple \cup Seeding
  BY ProductAdded, AtAddProduct DEF Simple
<1>6. \A i \in DOMAIN call'[c].todo : Holds(call[c].op, call'[c].todo[i].do)
  BY <1>3, <1>4 DEF Holds
<1>7. Scripted(c)'
  BY <1>1, <1>5, <1>6, OtherScript
<1>8. ASSUME call[c].op \in Seeding PROVE Looped(c)'
  <2>1. /\ call[c].viewed = 3 /\ call[c].next \in Nat
        /\ call[c].next + 1 \in 1..Len(Turns(call[c].op))
        /\ What(c) = Turns(call[c].op)[call[c].next + 1]
    BY <1>1, <1>8, ProductAdded, AtAddProduct DEF Seeding, Handlers
  <2>2. /\ call'[c].next <= Len(Turns(call'[c].op)) /\ call'[c].next > 0
        /\ call'[c].product = <<c, Turns(call'[c].op)[call'[c].next]>>
        /\ call'[c].op = call[c].op
    BY <1>1, <1>4, <2>1 DEF Steady
  <2>3. \E p \in products' : p.id = call'[c].product
    <3>1. ProductRow(<<c, What(c)>>, What(c)).id = <<c, What(c)>>
      BY DEF ProductRow
    <3> QED
      BY <1>2, <1>4, <3>1
  <2> QED
    BY <1>3, <1>4, <2>1, <2>2, <2>3 DEF Looped
<1> QED
  BY <1>7, <1>8

LEMMA BundledLooped ==
  ASSUME TypeInv, ScriptInv, NEW c \in Calls, AddBundle(c), IdsStay, Working(c)'
  PROVE  (call[c].op \in Seeding => Looped(c)') /\ Scripted(c)'
<1> DEFINE s == IF call[c].op \in Seeding THEN offersOf(SoldBy(What(c))) ELSE <<>>
<1>1. Steady(c) /\ call[c] \in Handlers
  BY StepMoves DEF Step, TypeInv
<1>2. /\ call'[c] = Bundled(c, <<c, What(c)>>, s)
      /\ call[c].op \in Seeding =>
           Distinct(SoldBy(What(c))) /\ Range(SoldBy(What(c))) \subseteq VendorNames
  BY <1>1, BundleAdded DEF Working, Handlers
<1>3. /\ \A i \in DOMAIN s : s[i].do = "addOffer" /\ call[c].op \in Seeding
      /\ \A i, j \in DOMAIN s : s[i] = s[j] => i = j
  BY <1>2, Offered
<1> HIDE DEF s
<1>4. /\ call'[c].todo = s /\ call'[c].viewed = call[c].viewed
      /\ call'[c].next = call[c].next /\ call'[c].nth = call[c].nth + 1
      /\ call'[c].product = call[c].product /\ call'[c].bundle = <<c, What(c)>>
  BY <1>1, <1>2 DEF Bundled, Handlers
<1>5. call[c].op \in Simple \cup Seeding
  BY BundleAdded, AtAddBundle DEF Simple, Seeding
<1>6. \A i \in DOMAIN call'[c].todo : Holds(call[c].op, call'[c].todo[i].do)
  BY <1>3, <1>4 DEF Holds
<1>7. Scripted(c)'
  BY <1>1, <1>5, <1>6, OtherScript
<1>8. ASSUME call[c].op \in Seeding PROVE Looped(c)'
  <2>1. /\ call[c].op = "seedDataBundlesToDb"
        /\ call[c].viewed = 3 /\ call[c].nth \in Nat
        /\ call[c].next \in 1..Len(Networks)
        /\ What(c) = <<Networks[call[c].next], call[c].nth + 1>>
    BY <1>1, <1>8, BundleAdded, AtAddBundle DEF Seeding, Handlers
  <2>2. Looped(c)
    BY <1>1, <1>8 DEF ScriptInv, Steady
  <2>3. \E p \in products' : p.id = call'[c].product
    BY <1>4, <2>1, <2>2 DEF Looped, IdsStay
  <2>4. call'[c].op = call[c].op /\ call'[c].nth > 0 /\ call'[c].next > 0
    BY <1>1, <1>4, <2>1 DEF Steady
  <2> QED
    BY <1>3, <1>4, <2>1, <2>2, <2>3, <2>4 DEF Looped
<1> QED
  BY <1>7, <1>8

LEMMA OfferedLooped ==
  ASSUME TypeInv, ScriptInv, NEW c \in Calls, AddOffer(c), IdsStay
  PROVE  (call[c].op \in Seeding => Looped(c)' /\ call[c].next > 0) /\ Scripted(c)'
<1>1. Steady(c) /\ call[c] \in Handlers
  BY StepMoves DEF Step, TypeInv
<1>2. /\ call[c].todo # <<>> /\ Head(call[c].todo) = On("addOffer", What(c))
  BY OfferAdded, AtOffer DEF OnOffer
<1>3. call'[c] = [call[c] EXCEPT !.todo = Tail(call[c].todo)]
  BY OfferAdded
<1>4. /\ call'[c].todo = Tail(call[c].todo) /\ call'[c].viewed = call[c].viewed
      /\ call'[c].next = call[c].next /\ call'[c].nth = call[c].nth
      /\ call'[c].product = call[c].product /\ call'[c].bundle = call[c].bundle
      /\ call'[c].docs = call[c].docs
  BY <1>1, <1>3 DEF Handlers
<1>5. Scripted(c)'
  BY <1>1, <1>2, <1>4, TailScript
<1>6. ASSUME call[c].op \in Seeding PROVE Looped(c)' /\ call[c].next > 0
  <2>1. Looped(c)
    BY <1>1, <1>6 DEF ScriptInv, Steady
  <2>2. call[c].todo \in Seq(Steps) /\ call[c].next \in Nat
    BY <1>1 DEF Handlers
  <2>3. call[c].next > 0
    <3>1. Head(call[c].todo).do = "addOffer"
      BY <1>2 DEF On
    <3>2. ASSUME call[c].todo = <<On("addVendor", <<Vendors[call[c].viewed], "trimmed">>)>>
          PROVE  Head(call[c].todo).do = "addVendor"
      BY <3>2 DEF On
    <3> QED
      BY <1>2, <2>1, <2>2, <3>1, <3>2 DEF Looped
  <2>4. \E p \in products' : p.id = call'[c].product
    BY <1>4, <2>1, <2>3 DEF Looped, IdsStay
  <2>5. /\ \A i \in DOMAIN call'[c].todo : call'[c].todo[i].do = "addOffer"
        /\ \A i, j \in DOMAIN call'[c].todo : call'[c].todo[i] = call'[c].todo[j] => i = j
    <3>1. /\ \A i \in DOMAIN call[c].todo : call[c].todo[i].do = "addOffer"
          /\ \A i, j \in DOMAIN call[c].todo : call[c].todo[i] = call[c].todo[j] => i = j
      BY <2>1, <2>3 DEF Looped
    <3> QED
      BY <1>2, <1>4, <2>2, <3>1, TailOf
  <2>6. call[c].op = "seedDataBundlesToDb" => call[c].nth # 0
    BY <1>2, <2>1, <2>3 DEF Looped
  <2> QED
    BY <1>1, <1>4, <2>1, <2>3, <2>4, <2>5, <2>6 DEF Looped, Steady
<1> QED
  BY <1>5, <1>6

LEMMA ScriptInit == Init => ScriptInv
<1> SUFFICES ASSUME Init, NEW c \in Calls PROVE Scripted(c) /\ ~Working(c)
  BY DEF ScriptInv
<1>1. call[c] = Idle
  BY DEF Init
<1>2. Idle.todo = <<>> /\ Idle.state = "new"
  BY DEF Idle
<1> QED
  BY <1>1, <1>2 DEF Scripted, Working

LEMMA ScriptStep == TypeInv /\ ScriptInv /\ [Next]_vars => ScriptInv'
<1> SUFFICES ASSUME TypeInv, ScriptInv, [Next]_vars PROVE ScriptInv'
  OBVIOUS
<1>1. ASSUME NEW c \in Calls, Start(c) \/ Step(c) PROVE ScriptInv'
  <2>1. IdsStay
    BY <1>1, RowsStay
  <2>2. \A d \in Calls : d # c => call'[d] = call[d]
    <3>1. CASE Start(c)
      BY <3>1, StartMoves DEF Started
    <3>2. CASE Step(c)
      BY <3>2, StepMoves DEF Steady
    <3> QED
      BY <1>1, <3>1, <3>2
  <2>3. ASSUME NEW d \in Calls, d # c
        PROVE  Scripted(d)' /\ (Working(d)' /\ call'[d].op \in Seeding => Looped(d)')
    <3>1. call'[d] = call[d] /\ Scripted(d) /\ (Working(d) /\ call[d].op \in Seeding => Looped(d))
      BY <2>2, <2>3 DEF ScriptInv
    <3>2. Scripted(d)'
      BY <2>1, <3>1 DEF Scripted, IdsStay, Working
    <3> QED
      BY <2>1, <3>1, <3>2 DEF Looped, IdsStay, Working
  <2>4. Scripted(c)' /\ (Working(c)' /\ call'[c].op \in Seeding => Looped(c)')
    <3>1. CASE Start(c)
      BY <3>1, StartScript
    <3>2. CASE Step(c)
      <4>1. Steady(c) /\ call[c] \in Handlers
        BY <3>2, StepMoves DEF TypeInv
      <4>2. ASSUME NEW s \in {"answered", "refused", "thrown"},
                   call'[c] = [call[c] EXCEPT !.state = s]
            PROVE  Scripted(c)' /\ ~Working(c)'
        <5>1. call'[c].state = s /\ call'[c].todo = call[c].todo
          BY <4>1, <4>2 DEF Handlers
        <5> QED
          BY <2>1, <4>1, <5>1, EndedScript DEF Working
      <4>3. ASSUME call'[c] = [call[c] EXCEPT !.todo = Tail(call[c].todo)], call[c].todo # <<>>
            PROVE  Scripted(c)'
        <5>1. call'[c].todo = Tail(call[c].todo) /\ call'[c].docs = call[c].docs
          BY <4>1, <4>3 DEF Handlers
        <5> QED
          BY <2>1, <4>1, <4>3, <5>1, TailScript
      <4>4. CASE Refuse(c) \/ RenameVendor(c) \/ RenameProduct(c)
        <5>1. call[c].op \notin Seeding
          BY <4>1, <4>4, SeedingSteps DEF Steady
        <5>2. call[c].todo # <<>>
          BY <4>4, RefuseMoves, RenameSteps
        <5>3. \/ call'[c] = [call[c] EXCEPT !.state = "refused"]
              \/ call'[c] = [call[c] EXCEPT !.todo = Tail(call[c].todo)]
          BY <4>4, RefuseMoves, RenameSteps
        <5> QED
          BY <4>1, <4>2, <4>3, <5>1, <5>2, <5>3 DEF Steady
      <4>5. CASE ViewVendor(c)
        <5>1. CASE Working(c)'
          BY <2>1, <4>5, <5>1, ViewLooped
        <5>2. CASE ~Working(c)'
          <6>1. call'[c] = [call[c] EXCEPT !.state = "refused"]
            BY <4>1, <4>5, <5>2, Views DEF Steady, Working, Found, Missing, Handlers
          <6> QED
            BY <4>2, <6>1
        <5> QED
          BY <5>1, <5>2
      <4>6. CASE AddVendor(c)
        <5>1. CASE Working(c)'
          BY <2>1, <4>1, <4>6, <5>1, NamedLooped DEF Steady
        <5>2. CASE ~Working(c)'
          <6>1. call'[c] = [call[c] EXCEPT !.state = "refused"]
            BY <4>1, <4>6, <5>2, VendorAdded DEF Steady, Working, Named, Handlers
          <6> QED
            BY <4>2, <6>1
        <5> QED
          BY <5>1, <5>2
      <4>7. CASE AddProduct(c)
        <5>1. CASE Working(c)'
          BY <2>1, <4>1, <4>7, <5>1, TakenLooped DEF Steady
        <5>2. CASE ~Working(c)'
          <6>1. call'[c] = [call[c] EXCEPT !.state = "refused"]
            BY <4>1, <4>7, <5>2, ProductAdded DEF Steady, Working, Taken, Handlers
          <6> QED
            BY <4>2, <6>1
        <5> QED
          BY <5>1, <5>2
      <4>8. CASE AddBundle(c)
        <5>1. CASE Working(c)'
          BY <2>1, <4>1, <4>8, <5>1, BundledLooped DEF Steady
        <5>2. CASE ~Working(c)'
          <6>1. call'[c] = [call[c] EXCEPT !.state = "refused"]
            BY <4>1, <4>8, <5>2, BundleAdded DEF Steady, Working, Bundled, Handlers
          <6> QED
            BY <4>2, <6>1
        <5> QED
          BY <5>1, <5>2
      <4>9. CASE AddOffer(c)
        BY <2>1, <4>1, <4>9, OfferedLooped DEF Steady
      <4>10. CASE ReadSchema(c)
        <5>1. call[c].op \notin Seeding
          BY <4>1, <4>10, SeedingSteps DEF Steady
        <5>2. call[c].todo # <<>> /\ call[c].op = "updateVendorProduct"
          BY <4>10, AtSchema DEF ReadSchema, OnSchema
        <5>3. call'[c].todo = Tail(call[c].todo)
          BY <4>1, <4>10, ReadMoves DEF Handlers
        <5> QED
          BY <2>1, <4>1, <5>1, <5>2, <5>3, TailScript DEF Steady
      <4>11. CASE WriteSchema(c)
        <5>1. call[c].op \notin Seeding
          BY <4>1, <4>11, SeedingSteps DEF Steady
        <5>2. call[c].todo # <<>>
          BY <4>11, AtSchema DEF WriteSchema, OnSchema
        <5> QED
          BY <4>1, <4>3, <4>11, <5>1, <5>2, WriteMoves DEF Steady
      <4>12. CASE Answer(c) \/ Throw(c)
        BY <4>2, <4>12, EndMoves
      <4> QED
        BY <3>2, <4>4, <4>5, <4>6, <4>7, <4>8, <4>9, <4>10, <4>11, <4>12 DEF Step
    <3> QED
      BY <1>1, <3>1, <3>2
  <2> QED
    BY <2>3, <2>4 DEF ScriptInv
<1>2. CASE UNCHANGED vars
  BY <1>2 DEF vars, ScriptInv, Scripted, Looped, Working
<1> QED
  BY <1>1, <1>2 DEF Next

-----------------------------------------------------------------------------
(* A seeding knows each vendor by its name *)

LEMMA VendorInit == Init => VendorInv
<1> SUFFICES ASSUME Init PROVE VendorInv
  OBVIOUS
<1>1. \A c \in Calls : call[c].state = "new"
  BY DEF Init, Idle
<1> QED
  BY <1>1 DEF Init, VendorInv, Working

LEMMA NamesStay ==
  ASSUME TypeInv, VendorInv, ScriptInv, NEW c \in Calls, Step(c)
  PROVE  \A v \in vendors' : v.id \in renamed' \/ v.name = <<v.id[2], "trimmed">>
<1>0. renamed \subseteq renamed' /\ \A v \in vendors : v.id \in renamed \/ v.name = <<v.id[2], "trimmed">>
  BY StepMoves DEF Steady, VendorInv
<1>1. CASE AddVendor(c)
  <2> DEFINE row == VendorRow(<<c, What(c)[1]>>, <<What(c)[1], "trimmed">>)
  <2>1. row.id[2] = What(c)[1] /\ row.name = <<What(c)[1], "trimmed">>
    BY DEF VendorRow
  <2>2. vendors' \subseteq vendors \cup {row}
    BY <1>1, VendorAdded
  <2> HIDE DEF row
  <2> QED
    BY <1>0, <2>1, <2>2
<1>2. CASE RenameVendor(c)
  <2>1. CASE UNCHANGED <<vendors, renamed>>
    BY <1>0, <2>1
  <2>2. CASE /\ vendors' = {IF v.id = call[c].docs[v.id[2]] THEN [v EXCEPT !.name = What(c)]
                            ELSE v : v \in vendors}
             /\ renamed' = renamed \cup {v.id : v \in {w \in vendors : w.id = call[c].docs[w.id[2]]}}
    <3> SUFFICES ASSUME NEW w \in vendors'
                 PROVE  w.id \in renamed' \/ w.name = <<w.id[2], "trimmed">>
      OBVIOUS
    <3>1. PICK v \in vendors : w = IF v.id = call[c].docs[v.id[2]] THEN [v EXCEPT !.name = What(c)]
                                   ELSE v
      BY <2>2
    <3>2. [v EXCEPT !.name = What(c)].id = v.id
      BY DEF TypeInv, VendorRows
    <3> QED
      BY <1>0, <2>2, <3>1, <3>2
  <2> QED
    BY <1>2, <2>1, <2>2 DEF RenameVendor
<1> QED
  BY <1>0, <1>1, <1>2
     DEF Step, Refuse, ViewVendor, AddProduct, AddBundle, AddOffer, RenameProduct,
         ReadSchema, WriteSchema, Answer, Throw

LEMMA KnownStays ==
  ASSUME TypeInv, VendorInv, ScriptInv, NEW c \in Calls, Step(c),
         Working(c)', call[c].op \in Seeding
  PROVE  Known(c)'
<1>0. /\ Steady(c) /\ IdsStay /\ call[c] \in Handlers /\ call[c].viewed \in 0..3
      /\ call[c].docs \in [VendorNames -> VendorIds \cup {None}]
  BY StepMoves, RowsStay DEF TypeInv, Handlers
<1>1. Known(c) /\ Looped(c) /\ Working(c)
  BY <1>0 DEF Steady, VendorInv, ScriptInv
<1>2. \A id, n : NameOf(renamed, id, n) => NameOf(renamed', id, n)
  BY <1>0 DEF Steady, NameOf
<1>3. CASE ViewVendor(c)
  <2>1. /\ call[c].todo = <<>> /\ call[c].viewed + 1 \in 1..3 /\ call[c].next = 0
        /\ What(c) = Vendors[call[c].viewed + 1] /\ What(c) \in VendorNames
    <3>1. At(c, "viewVendor") \/ At(c, "needVendor")
      BY <1>3 DEF ViewVendor
    <3>2. /\ call[c].todo = <<>> /\ call[c].viewed \in 0..2 /\ call[c].next = 0
          /\ What(c) = Vendors[call[c].viewed + 1] /\ What(c) \in VendorNames
      BY <3>1, VendorTurn
    <3> QED
      BY <3>2
  <2>2. \A i \in 1..call[c].viewed : /\ NameOf(renamed', call[c].docs[Vendors[i]], Vendors[i])
                                     /\ Vendors[i] # What(c) /\ Vendors[i] \in VendorNames
    BY <1>0, <1>1, <1>2, <2>1, LookedUp DEF Known
  <2>3. CASE \E v \in VendorNamed(<<What(c), "trimmed">>) : call'[c] = Found(c, v.id)
    <3>1. PICK v \in VendorNamed(<<What(c), "trimmed">>) : call'[c] = Found(c, v.id)
      BY <2>3
    <3>2. /\ call'[c].docs = [call[c].docs EXCEPT ![What(c)] = v.id]
          /\ call'[c].viewed = call[c].viewed + 1
      BY <1>0, <3>1 DEF Found, Handlers
    <3>3. v \in vendors /\ v.name = <<What(c), "trimmed">> /\ v.id \in VendorIds
      BY DEF VendorNamed, TypeInv, VendorRows
    <3>4. NameOf(renamed, v.id, What(c))
      BY <3>3 DEF VendorInv, NameOf
    <3>5. call'[c].docs[What(c)] = v.id
      BY <1>0, <2>1, <3>2
    <3>6. \A i \in 1..call[c].viewed : call'[c].docs[Vendors[i]] = call[c].docs[Vendors[i]]
      BY <1>0, <2>2, <3>2
    <3>7. \A i \in 1..call'[c].viewed : i \in 1..call[c].viewed \/ Vendors[i] = What(c)
      BY <1>0, <2>1, <3>2
    <3> QED
      BY <1>2, <2>2, <3>4, <3>5, <3>6, <3>7 DEF Known
  <2>4. CASE call'[c] = Missing(c)
    <3>1. /\ call'[c].docs = call[c].docs /\ call'[c].next = 0
          /\ call'[c].viewed = call[c].viewed + 1 /\ call'[c].todo # <<>>
      BY <1>0, <2>1, <2>4 DEF Missing, Handlers
    <3>2. \A i \in 1..call'[c].viewed : i \in 1..call[c].viewed \/ i = call'[c].viewed
      BY <1>0, <2>1, <3>1
    <3> QED
      BY <2>2, <3>1, <3>2 DEF Known
  <2>5. call'[c] # [call[c] EXCEPT !.state = "refused"]
    BY <1>0 DEF Working, Handlers
  <2> QED
    BY <1>3, <2>3, <2>4, <2>5, Views
<1>4. CASE AddVendor(c)
  <2> DEFINE n == What(c)[1]
  <2>1. call'[c] = Named(c, <<c, n>>)
    BY <1>0, <1>4, VendorAdded DEF Working, Handlers
  <2>2. /\ call[c].todo # <<>> /\ Head(call[c].todo) = On("addVendor", What(c))
        /\ n \in VendorNames
    BY <1>4, VendorAdded, AtVendor DEF OnVendor
  <2>3. call[c].next = 0
    BY <1>0, <1>4, NamedLooped
  <2>4. call[c].viewed > 0 /\ call[c].todo = <<On("addVendor", <<Vendors[call[c].viewed], "trimmed">>)>>
    BY <1>1, <2>2, <2>3 DEF Looped
  <2>5. n = Vendors[call[c].viewed]
    BY <2>2, <2>4 DEF On
  <2> HIDE DEF n
  <2>6. /\ call'[c].docs = [call[c].docs EXCEPT ![n] = <<c, n>>]
        /\ call'[c].viewed = call[c].viewed
    BY <1>0, <2>1 DEF Named, Handlers
  <2>7. \A i \in 1..call[c].viewed : i # call[c].viewed =>
          /\ NameOf(renamed', call[c].docs[Vendors[i]], Vendors[i])
          /\ Vendors[i] # n /\ Vendors[i] \in VendorNames
    BY <1>0, <1>1, <1>2, <2>5, LookedUp DEF Known
  <2>8. NameOf(renamed', <<c, n>>, n)
    BY <2>2 DEF NameOf, VendorIds
  <2>9. call'[c].docs[n] = <<c, n>>
    BY <1>0, <2>2, <2>6
  <2>10. \A i \in 1..call[c].viewed : i # call[c].viewed =>
           call'[c].docs[Vendors[i]] = call[c].docs[Vendors[i]]
    BY <1>0, <2>6, <2>7
  <2> QED
    BY <2>5, <2>6, <2>7, <2>8, <2>9, <2>10 DEF Known
<1>5. CASE AddProduct(c) \/ AddBundle(c) \/ AddOffer(c)
  <2>1. /\ call'[c].docs = call[c].docs /\ call'[c].viewed = call[c].viewed
    <3>1. CASE AddProduct(c)
      BY <1>0, <3>1, ProductAdded DEF Taken, Handlers
    <3>2. CASE AddBundle(c)
      BY <1>0, <3>2, BundleAdded DEF Bundled, Handlers
    <3>3. CASE AddOffer(c)
      BY <1>0, <3>3, OfferAdded DEF Handlers
    <3> QED
      BY <1>5, <3>1, <3>2, <3>3
  <2>2. call[c].next # 0 \/ call[c].todo = <<>>
    <3>1. CASE AddProduct(c)
      BY <3>1, ProductAdded, AtAddProduct DEF Seeding
    <3>2. CASE AddBundle(c)
      BY <3>2, BundleAdded, AtAddBundle DEF Seeding
    <3>3. CASE AddOffer(c)
      BY <1>0, <3>3, OfferedLooped
    <3> QED
      BY <1>5, <3>1, <3>2, <3>3
  <2> QED
    BY <1>1, <1>2, <2>1, <2>2 DEF Known
<1>6. CASE Answer(c) \/ Throw(c)
  BY <1>0, <1>6, EndMoves DEF Working, Handlers
<1> QED
  BY <1>1, <1>3, <1>4, <1>5, <1>6, SeedingSteps DEF Step

LEMMA VendorStep == TypeInv /\ ScriptInv /\ VendorInv /\ [Next]_vars => VendorInv'
<1> SUFFICES ASSUME TypeInv, ScriptInv, VendorInv, [Next]_vars PROVE VendorInv'
  OBVIOUS
<1>1. ASSUME NEW c \in Calls, Start(c) PROVE VendorInv'
  <2>1. PICK h : Started(c, h)
    BY <1>1, StartMoves
  <2>2. call'[c].viewed = 0
    BY <2>1 DEF Started, Fresh
  <2>3. Known(c)'
    BY <2>2 DEF Known
  <2>4. ASSUME NEW d \in Calls, d # c, Known(d) PROVE Known(d)'
    BY <2>1, <2>4 DEF Known, Started
  <2> QED
    BY <2>1, <2>3, <2>4 DEF VendorInv, Started, Working
<1>2. ASSUME NEW c \in Calls, Step(c) PROVE VendorInv'
  <2>1. Steady(c)
    BY <1>2, StepMoves
  <2>2. \A v \in vendors' : v.id \in renamed' \/ v.name = <<v.id[2], "trimmed">>
    BY <1>2, NamesStay
  <2>3. ASSUME Working(c)', call'[c].op \in Seeding PROVE Known(c)'
    BY <1>2, <2>1, <2>3, KnownStays DEF Steady
  <2>4. ASSUME NEW d \in Calls, d # c, Known(d) PROVE Known(d)'
    BY <2>1, <2>4 DEF Known, Steady, NameOf
  <2> QED
    BY <2>1, <2>2, <2>3, <2>4 DEF VendorInv, Steady, Working
<1>3. CASE UNCHANGED vars
  BY <1>3 DEF vars, VendorInv, Known, Working
<1> QED
  BY <1>1, <1>2, <1>3 DEF Next

-----------------------------------------------------------------------------
(* Rows are new, each of its call *)

(* Where a handler stands in its loops. *)
SamePlace(c) ==
  /\ call'[c].product = call[c].product /\ call'[c].bundle = call[c].bundle
  /\ call'[c].next = call[c].next /\ call'[c].nth = call[c].nth

LEMMA PlaceStays ==
  ASSUME TypeInv, ScriptInv, NEW c \in Calls, Step(c), ~AddProduct(c), ~AddBundle(c)
  PROVE  SamePlace(c)
<1>0. call[c] \in Handlers
  BY DEF TypeInv
<1>1. CASE \E s : call'[c] = [call[c] EXCEPT !.state = s]
  BY <1>0, <1>1 DEF SamePlace, Handlers
<1>2. CASE call'[c] = [call[c] EXCEPT !.todo = Tail(call[c].todo)]
  BY <1>0, <1>2 DEF SamePlace, Handlers
<1>3. CASE ViewVendor(c)
  BY <1>0, <1>3, Views DEF SamePlace, Handlers, Found, Missing
<1>4. CASE AddVendor(c)
  BY <1>0, <1>4, VendorAdded DEF SamePlace, Handlers, Named
<1>5. CASE ReadSchema(c)
  BY <1>0, <1>5, ReadMoves DEF SamePlace, Handlers
<1>6. CASE Refuse(c)
  BY <1>1, <1>2, <1>6, RefuseMoves
<1>7. CASE AddOffer(c) \/ WriteSchema(c)
  BY <1>2, <1>7, OfferAdded, WriteMoves
<1>8. CASE RenameVendor(c) \/ RenameProduct(c)
  BY <1>1, <1>2, <1>8, RenameSteps
<1>9. CASE Answer(c) \/ Throw(c)
  BY <1>1, <1>9, EndMoves
<1> QED
  BY <1>3, <1>4, <1>5, <1>6, <1>7, <1>8, <1>9 DEF Step

LEMMA FewerPending ==
  ASSUME TypeInv, ScriptInv, NEW c \in Calls, Step(c), ~AddProduct(c), ~AddBundle(c)
  PROVE  \A n : n \in Pending(c)' => n \in Pending(c)
<1>0. call[c] \in Handlers /\ call[c].todo \in Seq(Steps)
  BY DEF TypeInv, Handlers
<1>1. CASE call'[c].todo = call[c].todo
  BY <1>1 DEF Pending
<1>2. CASE call[c].todo # <<>> /\ call'[c].todo = Tail(call[c].todo)
  BY <1>0, <1>2, TailOf DEF Pending
<1>3. CASE \A i \in DOMAIN call'[c].todo : call'[c].todo[i].do # "addOffer"
  BY <1>3 DEF Pending
<1>4. CASE ViewVendor(c)
  <2>1. CASE \E id : call'[c] = Found(c, id)
    BY <1>0, <1>1, <2>1 DEF Found, Handlers
  <2>2. CASE call'[c] = Missing(c)
    <3> DEFINE s == On("addVendor", <<What(c), "trimmed">>)
    <3>1. call'[c].todo = <<s>> /\ s.do # "addOffer"
      BY <1>0, <2>2 DEF Missing, Handlers, On
    <3> HIDE DEF s
    <3> QED
      BY <1>3, <3>1
  <2>3. CASE call'[c] = [call[c] EXCEPT !.state = "refused"]
    BY <1>0, <1>1, <2>3 DEF Handlers
  <2> QED
    BY <1>4, <2>1, <2>2, <2>3, Views
<1>5. CASE AddVendor(c)
  <2>1. call[c].todo # <<>>
    BY <1>5, VendorAdded, AtVendor DEF OnVendor
  <2> QED
    BY <1>0, <1>1, <1>2, <1>5, <2>1, VendorAdded DEF Named, Handlers
<1>6. CASE ReadSchema(c)
  <2>1. call[c].todo # <<>>
    BY <1>6, ReadMoves, AtSchema DEF OnSchema
  <2> QED
    BY <1>0, <1>2, <1>6, <2>1, ReadMoves DEF Handlers
<1>7. CASE Refuse(c)
  BY <1>0, <1>1, <1>2, <1>7, RefuseMoves DEF Handlers
<1>8. CASE AddOffer(c) \/ WriteSchema(c)
  <2>1. call[c].todo # <<>>
    BY <1>8, OfferAdded, AtOffer, WriteMoves, AtSchema DEF OnOffer, OnSchema
  <2> QED
    BY <1>0, <1>2, <1>8, <2>1, OfferAdded, WriteMoves DEF Handlers
<1>9. CASE RenameVendor(c) \/ RenameProduct(c)
  BY <1>0, <1>1, <1>2, <1>9, RenameSteps DEF Handlers
<1>10. CASE Answer(c) \/ Throw(c)
  BY <1>0, <1>1, <1>10, EndMoves DEF Handlers
<1> QED
  BY <1>4, <1>5, <1>6, <1>7, <1>8, <1>9, <1>10 DEF Step

(* No product is there that was not, but for the one that is added. *)
LEMMA ProductsMove ==
  ASSUME TypeInv, ScriptInv, NEW c \in Calls, Start(c) \/ Step(c), ~AddProduct(c)
  PROVE  \A q \in products' : \E p \in products : p.id = q.id
<1>1. CASE RenameProduct(c)
  <2>1. \A p \in products : [p EXCEPT !.code = What(c)].id = p.id
    BY DEF TypeInv, ProductRows
  <2>2. \/ UNCHANGED products
        \/ products' = {IF p.id = call[c].product THEN [p EXCEPT !.code = What(c)]
                          ELSE p : p \in products}
    BY <1>1 DEF RenameProduct
  <2>3. CASE products' = {IF p.id = call[c].product THEN [p EXCEPT !.code = What(c)]
                          ELSE p : p \in products}
    <3> SUFFICES ASSUME NEW q \in products' PROVE \E p \in products : p.id = q.id
      OBVIOUS
    <3>1. PICK p \in products : q = IF p.id = call[c].product THEN [p EXCEPT !.code = What(c)]
                                   ELSE p
      BY <2>3
    <3> QED
      BY <2>1, <3>1
  <2> QED
    BY <2>2, <2>3
<1>2. CASE ~RenameProduct(c)
  <2>1. CASE Start(c)
    BY <2>1, StartMoves DEF Started
  <2>2. CASE Step(c)
    BY <1>2, <2>2 DEF Step, Refuse, ViewVendor, AddVendor, AddBundle, AddOffer, RenameVendor,
         ReadSchema, WriteSchema, Answer, Throw
  <2> QED
    BY <2>1, <2>2
<1> QED
  BY <1>1, <1>2

(* The same offer, whatever its data. *)
SameOffer(o, q) ==
  /\ q.id = o.id /\ q.by = o.by /\ q.vendor = o.vendor
  /\ q.product = o.product /\ q.bundle = o.bundle

LEMMA OffersMove ==
  ASSUME TypeInv, ScriptInv, NEW c \in Calls, Start(c) \/ Step(c), NEW q \in offers'
  PROVE  \/ \E o \in offers : SameOffer(o, q) /\ (~WriteSchema(c) => q = o)
         \/ AddOffer(c) /\ q = NewOffer(c)
<1>1. CASE Start(c)
  BY <1>1, StartMoves DEF Started, SameOffer
<1>2. CASE AddOffer(c)
  <2>0. offers' = offers \cup {NewOffer(c)}
    BY <1>2, OfferAdded
  <2>1. q \in offers \/ q = NewOffer(c)
    BY <2>0
  <2> QED
    BY <1>2, <2>1 DEF SameOffer
<1>3. CASE WriteSchema(c)
  <2>1. offers' = {Rewritten(c, o) : o \in offers}
    BY <1>3, WriteMoves
  <2>2. PICK o \in offers : q = Rewritten(c, o)
    BY <2>1
  <2>3. SameOffer(o, q)
    BY <1>3, <2>2, WriteMoves DEF SameOffer
  <2> QED
    BY <1>3, <2>3
<1> QED
  BY <1>1, <1>2, <1>3
     DEF Step, Refuse, ViewVendor, AddVendor, AddProduct, AddBundle, RenameVendor,
         RenameProduct, ReadSchema, Answer, Throw, SameOffer

LEMMA ProductInit == Init => ProductInv /\ OfferInv /\ FreshInv
<1> SUFFICES ASSUME Init PROVE ProductInv /\ OfferInv /\ FreshInv
  OBVIOUS
<1>1. \A c \in Calls : ~Working(c)
  BY DEF Init, Idle, Working
<1> QED
  BY <1>1 DEF Init, ProductInv, OfferInv, FreshInv

LEMMA ProductStep == TypeInv /\ ScriptInv /\ ProductInv /\ [Next]_vars => ProductInv'
<1> SUFFICES ASSUME TypeInv, ScriptInv, ProductInv, [Next]_vars PROVE ProductInv'
  OBVIOUS
<1>0. \A p \in products : p.id \in ProductIds /\ p.id[1] \in Calls
  BY DEF TypeInv, ProductRows, ProductIds
<1>1. ASSUME NEW c \in Calls, Start(c) PROVE ProductInv'
  <2>1. PICK h : /\ Started(c, h)
                 /\ \/ h.op \in Simple \cup Seeding
                    \/ \E v \in vendors, p \in products : Offering(c, h, v, p)
                    \/ \E o \in offers, k \in SchemaKeys : Changing(c, h, o, k)
    BY <1>1, StartMoves
  <2>2. /\ UNCHANGED products /\ call'[c] = h /\ h.state = "working" /\ call[c].state = "new"
        /\ \A d \in Calls : d # c => call'[d] = call[d]
    BY <2>1 DEF Started, Fresh
  <2>3. \A p \in products : call'[p.id[1]].state # "new"
    BY <1>0, <2>2 DEF ProductInv
  <2>4. \A p \in products, d \in Calls :
          p.id[1] = d /\ Working(d)' /\ call'[d].op \in Seeding =>
            \E i \in 1..call'[d].next : p.id = <<d, Turns(call'[d].op)[i]>>
    BY <2>2 DEF ProductInv, Working
  <2>5. h.op = "createVendorProduct" => \E p \in products : p.id = h.product
    BY <2>1 DEF Offering, Changing, Simple, Seeding
  <2>6. \A d \in Calls : Working(d)' /\ call'[d].op = "createVendorProduct" =>
          \E p \in products : p.id = call'[d].product
    BY <2>2, <2>5 DEF ProductInv, Working
  <2> QED
    BY <2>2, <2>3, <2>4, <2>6 DEF ProductInv
<1>2. ASSUME NEW c \in Calls, Step(c) PROVE ProductInv'
  <2>1. /\ Steady(c) /\ IdsStay /\ call[c] \in Handlers /\ call[c].next \in Nat
    BY <1>2, StepMoves, RowsStay DEF TypeInv, Handlers
  <2>2. /\ \A d \in Calls : d # c => call'[d] = call[d]
        /\ Working(c) /\ call'[c].state # "new" /\ call'[c].op = call[c].op
    BY <2>1 DEF Steady
  <2>3. CASE AddProduct(c)
    <3>1. CASE call'[c].state = "refused" /\ products' = products
      BY <1>0, <2>2, <3>1 DEF ProductInv, Working
    <3>2. CASE /\ call'[c] = Taken(c, <<c, What(c)>>,
                                   IF call[c].op = "seedDataToDb" THEN offersOf(SEED(What(c)))
                                   ELSE <<>>)
               /\ products' = products \cup {ProductRow(<<c, What(c)>>, What(c))}
      <4>1. call'[c].next = call[c].next + 1
        BY <2>1, <3>2 DEF Taken, Handlers
      <4>2. ProductRow(<<c, What(c)>>, What(c)).id = <<c, What(c)>>
        BY DEF ProductRow
      <4>3. call[c].op # "createVendorProduct"
        BY <2>3, ProductAdded, AtAddProduct DEF Seeding
      <4>4. \A q \in products' : q.id = <<c, What(c)>> \/ q \in products
        BY <3>2, <4>2
      <4>5. \A q \in products' : call'[q.id[1]].state # "new"
        BY <1>0, <2>2, <4>4 DEF ProductInv
      <4>6. call[c].op \in Seeding =>
              /\ What(c) = Turns(call[c].op)[call'[c].next]
              /\ call'[c].next \in 1..call'[c].next
              /\ \A i \in 1..call[c].next : i \in 1..call'[c].next
        <5>1. At(c, "addProduct")
          BY <2>3 DEF AddProduct
        <5>2. call[c].op \in Seeding => What(c) = Turns(call[c].op)[call[c].next + 1]
          BY <5>1, AtAddProduct DEF Seeding
        <5>3. \A n \in Nat : /\ n + 1 \in 1..(n + 1)
                             /\ \A i \in 1..n : i \in 1..(n + 1)
          OBVIOUS
        <5> QED
          BY <2>1, <4>1, <5>2, <5>3
      <4>7. ASSUME NEW q \in products', NEW d \in Calls, q.id[1] = d, Working(d)',
                   call'[d].op \in Seeding
            PROVE  \E i \in 1..call'[d].next : q.id = <<d, Turns(call'[d].op)[i]>>
        <5>1. CASE q.id = <<c, What(c)>>
          BY <2>2, <4>6, <4>7, <5>1
        <5>2. CASE q \in products /\ d = c
          BY <2>2, <4>6, <4>7, <5>2 DEF ProductInv
        <5>3. CASE q \in products /\ d # c
          BY <2>2, <4>7, <5>3 DEF ProductInv, Working
        <5> QED
          BY <4>4, <5>1, <5>2, <5>3
      <4>8. products \subseteq products'
        BY <3>2
      <4>9. \A d \in Calls : Working(d)' /\ call'[d].op = "createVendorProduct" =>
              \E p \in products' : p.id = call'[d].product
        BY <2>2, <4>3, <4>8 DEF ProductInv, Working
      <4> QED
        BY <4>5, <4>7, <4>9 DEF ProductInv
    <3>3. [call[c] EXCEPT !.state = "refused"].state = "refused"
      BY <2>1 DEF Handlers
    <3> QED
      BY <2>3, <3>1, <3>2, <3>3, ProductAdded
  <2>4. CASE ~AddProduct(c)
    <3>1. \A q \in products' : \E p \in products : p.id = q.id
      BY <1>2, <2>4, ProductsMove
    <3>2. call'[c].next >= call[c].next /\ call'[c].next \in Nat /\ call'[c].product = call[c].product
      <4>1. CASE AddBundle(c)
        <5>1. \/ call'[c] = [call[c] EXCEPT !.state = "refused"]
              \/ \E id, t : call'[c] = Bundled(c, id, t)
          BY <4>1, BundleAdded
        <5>2. call'[c].next = call[c].next /\ call'[c].product = call[c].product
          BY <2>1, <5>1 DEF Bundled, Handlers
        <5> QED
          BY <2>1, <5>2
      <4>2. CASE ~AddBundle(c)
        BY <1>2, <2>1, <2>4, <4>2, PlaceStays DEF SamePlace
      <4> QED
        BY <4>1, <4>2
    <3>3. \A q \in products' : call'[q.id[1]].state # "new"
      BY <1>0, <2>2, <3>1 DEF ProductInv
    <3>4. ASSUME NEW q \in products', NEW d \in Calls, q.id[1] = d, Working(d)',
                 call'[d].op \in Seeding
          PROVE  \E i \in 1..call'[d].next : q.id = <<d, Turns(call'[d].op)[i]>>
      <4>1. PICK p \in products : p.id = q.id
        BY <3>1
      <4>2. Working(d) /\ call[d].op = call'[d].op
        BY <2>2, <3>4 DEF Working
      <4>3. PICK i \in 1..call[d].next : p.id = <<d, Turns(call[d].op)[i]>>
        BY <3>4, <4>1, <4>2 DEF ProductInv
      <4>4. i \in 1..call'[d].next
        BY <2>1, <2>2, <3>2
      <4> QED
        BY <4>1, <4>2, <4>3, <4>4
    <3>5. ASSUME NEW d \in Calls, Working(d)', call'[d].op = "createVendorProduct"
          PROVE  \E p \in products' : p.id = call'[d].product
      <4>1. Working(d) /\ call[d].op = call'[d].op /\ call'[d].product = call[d].product
        BY <2>2, <3>2, <3>5 DEF Working
      <4> QED
        BY <2>1, <3>5, <4>1 DEF ProductInv, IdsStay
    <3> QED
      BY <3>3, <3>4, <3>5 DEF ProductInv
  <2> QED
    BY <2>3, <2>4
<1>3. CASE UNCHANGED vars
  BY <1>3 DEF vars, ProductInv, Working
<1> QED
  BY <1>1, <1>2, <1>3 DEF Next

(* The one that is added is new. *)
LEMMA IdIsNew ==
  ASSUME TypeInv, ScriptInv, OfferInv, FreshInv, NEW c \in Calls, AddOffer(c),
         NEW o \in offers, o.id = NewOffer(c).id
  PROVE  FALSE
<1>1. /\ NewOffer(c).id = <<c, What(c), call[c].product, call[c].bundle>>
      /\ At(c, "addOffer")
  BY OfferAdded
<1>2. o.id = <<o.by, o.id[2], o.product, o.bundle>>
  BY DEF OfferInv, OfferOf
<1>3. o.by = c /\ o.id[2] = What(c) /\ o.product = call[c].product /\ o.bundle = call[c].bundle
  BY <1>1, <1>2
<1>4. /\ call[c].todo # <<>> /\ Head(call[c].todo) = On("addOffer", What(c))
      /\ call[c].op \in Adding /\ Working(c)
  BY <1>1, AtOffer DEF OnOffer, At
<1>5. NotYet(c, o)
  BY <1>3, <1>4 DEF FreshInv
<1>6. What(c) \in Pending(c)
  <2>1. call[c].todo \in Seq(Steps)
    BY DEF TypeInv, Handlers
  <2>2. 1 \in DOMAIN call[c].todo /\ call[c].todo[1] = On("addOffer", What(c))
    BY <1>4, <2>1
  <2> QED
    BY <2>2 DEF Pending, On
<1> QED
  BY <1>3, <1>4, <1>5, <1>6 DEF NotYet, Adding

LEMMA NewIsOwn ==
  ASSUME TypeInv, ScriptInv, VendorInv, ProductInv, NEW c \in Calls, AddOffer(c)
  PROVE  /\ \E p \in products : p.id = call[c].product
         /\ call[c].op \in Adding
         /\ call[c].op \in Seeding =>
              call[c].product[1] = c /\ NameOf(renamed, call[c].docs[What(c)], What(c))
<1>1. At(c, "addOffer") /\ call[c] \in Handlers
  BY DEF AddOffer, TypeInv
<1>2. What(c) \in VendorNames /\ call[c].op \in Adding /\ Working(c)
  BY <1>1, AtOffer DEF OnOffer, At
<1>3. ASSUME call[c].op \in Seeding
      PROVE  /\ \E p \in products : p.id = call[c].product
             /\ call[c].product[1] = c /\ NameOf(renamed, call[c].docs[What(c)], What(c))
  <2>1. call[c].next > 0
    BY <1>3, OfferedLooped, RowsStay DEF Step
  <2>2. Looped(c) /\ Known(c)
    BY <1>2, <1>3 DEF ScriptInv, VendorInv
  <2>3. /\ call[c].viewed = 3 /\ \E p \in products : p.id = call[c].product
        /\ call[c].product = <<c, Turns(call[c].op)[call[c].next]>>
    BY <2>1, <2>2 DEF Looped
  <2>4. PICK i \in 1..3 : What(c) = Vendors[i]
    BY <1>2, LookedUp
  <2>5. NameOf(renamed, call[c].docs[What(c)], What(c))
    BY <2>1, <2>2, <2>3, <2>4 DEF Known
  <2> QED
    BY <2>3, <2>5
<1> QED
  BY <1>2, <1>3 DEF Adding, ProductInv

LEMMA OfferStep ==
  TypeInv /\ ScriptInv /\ VendorInv /\ ProductInv /\ FreshInv /\ OfferInv /\ [Next]_vars => OfferInv'
<1> SUFFICES ASSUME TypeInv, ScriptInv, VendorInv, ProductInv, FreshInv, OfferInv, [Next]_vars
             PROVE  OfferInv'
  OBVIOUS
<1>1. ASSUME NEW c \in Calls, Start(c) \/ Step(c) PROVE OfferInv'
  <2>1. IdsStay
    BY <1>1, RowsStay
  <2>2. \A d \in Calls : call[d].state # "new" => call'[d].state # "new" /\ call'[d].op = call[d].op
    <3>1. CASE Start(c)
      BY <3>1, StartMoves DEF Started
    <3>2. CASE Step(c)
      BY <3>2, StepMoves DEF Steady
    <3> QED
      BY <1>1, <3>1, <3>2
  <2>3. renamed \subseteq renamed'
    <3>1. CASE Start(c)
      BY <3>1, StartMoves DEF Started
    <3>2. CASE Step(c)
      BY <3>2, StepMoves DEF Steady
    <3> QED
      BY <1>1, <3>1, <3>2
  <2>4. ASSUME NEW o \in offers, NEW q, SameOffer(o, q) PROVE OfferOf(q)'
    <3>1. OfferOf(o) /\ o.by \in Calls
      BY DEF OfferInv, TypeInv, OfferRows
    <3>2. /\ q.id = <<q.by, q.id[2], q.product, q.bundle>>
          /\ call'[q.by].op = call[o.by].op /\ call'[q.by].state # "new"
          /\ call[o.by].op \in Adding
      BY <2>2, <2>4, <3>1 DEF SameOffer, OfferOf
    <3>3. \E p \in products' : p.id = q.product
      BY <2>1, <2>4, <3>1 DEF SameOffer, OfferOf, IdsStay
    <3>4. call[o.by].op \in Seeding => q.product[1] = q.by /\ NameOf(renamed', q.vendor, q.id[2])
      BY <2>3, <2>4, <3>1 DEF SameOffer, OfferOf, NameOf
    <3> QED
      BY <3>2, <3>3, <3>4 DEF OfferOf
  <2>5. ASSUME AddOffer(c), NEW q, q = NewOffer(c) PROVE OfferOf(q)'
    <3>1. /\ q.id = <<c, What(c), call[c].product, call[c].bundle>> /\ q.by = c
          /\ q.vendor = call[c].docs[What(c)]
          /\ q.product = call[c].product /\ q.bundle = call[c].bundle
      BY <2>5, OfferAdded
    <3>2. /\ \E p \in products : p.id = call[c].product
          /\ call[c].op \in Adding
          /\ call[c].op \in Seeding =>
               call[c].product[1] = c /\ NameOf(renamed, call[c].docs[What(c)], What(c))
      BY <2>5, NewIsOwn
    <3>3. call'[c].op = call[c].op /\ call'[c].state # "new"
      BY <2>5, StepMoves DEF Steady, Step
    <3>4. q.id[2] = What(c) /\ q.id = <<q.by, q.id[2], q.product, q.bundle>>
      BY <3>1
    <3>5. \E p \in products' : p.id = q.product
      BY <2>1, <3>1, <3>2 DEF IdsStay
    <3>6. call[c].op \in Seeding => q.product[1] = q.by /\ NameOf(renamed', q.vendor, q.id[2])
      BY <2>3, <3>1, <3>2, <3>4 DEF NameOf
    <3> QED
      BY <3>1, <3>2, <3>3, <3>4, <3>5, <3>6 DEF OfferOf
  <2>6. \A q \in offers' : OfferOf(q)'
    BY <1>1, <2>4, <2>5, OffersMove
  <2>7. ASSUME NEW q \in offers', NEW r \in offers', q.id = r.id PROVE q = r
    <3>1. CASE WriteSchema(c)
      <4>1. offers' = {Rewritten(c, o) : o \in offers}
        BY <3>1, WriteMoves
      <4>2. PICK o \in offers : q = Rewritten(c, o)
        BY <4>1
      <4>3. PICK s \in offers : r = Rewritten(c, s)
        BY <4>1
      <4>4. q.id = o.id /\ r.id = s.id
        BY <3>1, <4>2, <4>3, WriteMoves
      <4>5. o = s
        BY <2>7, <4>4 DEF OfferInv
      <4> QED
        BY <4>2, <4>3, <4>5
    <3>2. CASE ~WriteSchema(c)
      <4>1. q \in offers \/ (AddOffer(c) /\ q = NewOffer(c))
        BY <1>1, <3>2, OffersMove
      <4>2. r \in offers \/ (AddOffer(c) /\ r = NewOffer(c))
        BY <1>1, <3>2, OffersMove
      <4> QED
        BY <2>7, <4>1, <4>2, IdIsNew DEF OfferInv
    <3> QED
      BY <3>1, <3>2
  <2> QED
    BY <2>6, <2>7 DEF OfferInv
<1>2. CASE UNCHANGED vars
  BY <1>2 DEF vars, OfferInv, OfferOf
<1> QED
  BY <1>1, <1>2 DEF Next

(* Once it has offered, a call that was to offer once only answers. *)
LEMMA OnlyAnswers ==
  ASSUME TypeInv, ScriptInv, NEW c \in Calls, Step(c), Working(c)',
         call[c].op = "createVendorProduct"
  PROVE  /\ call[c].todo # <<>> /\ call'[c].docs = call[c].docs
         /\ \/ AddOffer(c) /\ call'[c].todo = <<>>
            \/ /\ At(c, "refuseOffer") /\ Refuse(c)
               /\ \E n \in VendorNames : /\ call[c].todo = createVendorProduct(n)
                                         /\ call'[c].todo = <<On("addOffer", n)>>
<1>0. call[c] \in Handlers /\ Steady(c)
  BY StepMoves DEF TypeInv
<1>1. PICK n \in VendorNames :
        call[c].todo \in {createVendorProduct(n), <<On("addOffer", n)>>, <<>>}
  BY <1>0 DEF ScriptInv, Scripted, Steady
<1>2. NextOf(call[c]).do \in {"refuseOffer", "addOffer", "answer"}
  <2>1. /\ createVendorProduct(n) # <<>>
        /\ Head(createVendorProduct(n)) = On("refuseOffer", n)
    BY DEF createVendorProduct
  <2>2. /\ <<On("addOffer", n)>> # <<>>
        /\ Head(<<On("addOffer", n)>>) = On("addOffer", n)
    OBVIOUS
  <2>3. On("refuseOffer", n).do = "refuseOffer" /\ On("addOffer", n).do = "addOffer"
        /\ On("answer", None).do = "answer"
    BY DEF On
  <2> QED
    BY <1>1, <2>1, <2>2, <2>3 DEF NextOf
<1>3. Refuse(c) \/ AddOffer(c) \/ Answer(c) \/ Throw(c)
  BY <1>2 DEF Step, ViewVendor, AddVendor, AddProduct, AddBundle, RenameVendor, RenameProduct,
       ReadSchema, WriteSchema, At
<1>4. ~Answer(c) /\ ~Throw(c)
  BY <1>0, EndMoves DEF Working, Handlers
<1>5. call'[c] = [call[c] EXCEPT !.todo = Tail(call[c].todo)] /\ call[c].todo # <<>>
  <2>1. call'[c] # [call[c] EXCEPT !.state = "refused"]
    BY <1>0 DEF Working, Handlers
  <2>2. CASE Refuse(c)
    BY <2>1, <2>2, RefuseMoves
  <2>3. CASE AddOffer(c)
    BY <2>3, OfferAdded, AtOffer DEF OnOffer
  <2> QED
    BY <1>3, <1>4, <2>2, <2>3
<1>6. call'[c].todo = Tail(call[c].todo) /\ call'[c].docs = call[c].docs
  BY <1>0, <1>5 DEF Handlers
<1>7. CASE call[c].todo = createVendorProduct(n)
  <2>1. NextOf(call[c]).do = "refuseOffer"
    BY <1>5, <1>7 DEF NextOf, createVendorProduct, On
  <2>2. Refuse(c) /\ At(c, "refuseOffer")
    BY <1>0, <1>3, <1>4, <2>1 DEF AddOffer, At, Steady
  <2>3. call'[c].todo = <<On("addOffer", n)>>
    BY <1>6, <1>7 DEF createVendorProduct
  <2> QED
    BY <1>5, <1>6, <1>7, <2>2, <2>3
<1>8. CASE call[c].todo = <<On("addOffer", n)>>
  <2>1. NextOf(call[c]).do = "addOffer"
    BY <1>5, <1>8 DEF NextOf, On
  <2>2. AddOffer(c)
    BY <1>3, <1>4, <2>1 DEF Refuse, At
  <2>3. call'[c].todo = <<>>
    BY <1>6, <1>8
  <2> QED
    BY <1>5, <1>6, <2>2, <2>3
<1> QED
  BY <1>1, <1>5, <1>7, <1>8

LEMMA FreshStep ==
  TypeInv /\ ScriptInv /\ ProductInv /\ OfferInv /\ FreshInv /\ [Next]_vars => FreshInv'
<1> SUFFICES ASSUME TypeInv, ScriptInv, ProductInv, OfferInv, FreshInv, [Next]_vars
             PROVE  FreshInv'
  OBVIOUS
<1>1. ASSUME NEW c \in Calls, Start(c) \/ Step(c) PROVE FreshInv'
  <2>1. \A d \in Calls : d # c => call'[d] = call[d]
    <3>1. CASE Start(c)
      BY <3>1, StartMoves DEF Started
    <3>2. CASE Step(c)
      BY <3>2, StepMoves DEF Steady
    <3> QED
      BY <1>1, <3>1, <3>2
  <2>2. \A o \in offers : call[o.by].state # "new" /\ o.id[2] = o.id[2] /\ o.by \in Calls
    BY DEF OfferInv, OfferOf, TypeInv, OfferRows
  <2> SUFFICES ASSUME NEW q \in offers', NEW d \in Calls, q.by = d, Working(d)'
               PROVE  NotYet(d, q)'
    BY DEF FreshInv
  <2>3. CASE \E o \in offers : SameOffer(o, q)
    <3>1. PICK o \in offers : SameOffer(o, q)
      BY <2>3
    <3>2. o.by = d /\ q.id = o.id /\ q.product = o.product /\ q.bundle = o.bundle
      BY <3>1 DEF SameOffer
    <3>3. CASE d # c
      <4>1. call'[d] = call[d]
        BY <2>1, <3>3
      <4>2. NotYet(d, o)
        BY <3>2, <4>1 DEF FreshInv, Working
      <4> QED
        BY <3>2, <4>1, <4>2 DEF NotYet, Pending
    <3>4. CASE d = c
      <4>1. Step(c)
        BY <1>1, <2>2, <3>2, <3>4, StartMoves DEF Started
      <4>2. Steady(c) /\ call[c] \in Handlers
        BY <4>1, StepMoves DEF TypeInv
      <4>3. NotYet(c, o)
        BY <3>2, <3>4, <4>2 DEF FreshInv, Steady
      <4>4. call[c].op # "createVendorProduct"
        BY <3>4, <4>1, <4>3, OnlyAnswers DEF NotYet
      <4>5. CASE AddProduct(c)
        <5> SUFFICES ASSUME call[c].op \in Seeding, o.product = call'[c].product PROVE FALSE
          BY <3>2, <3>4, <4>2, <4>4 DEF NotYet, Steady
        <5>1. call'[c].product = <<c, What(c)>>
          BY <3>4, <4>2, <4>5, ProductAdded DEF Taken, Handlers, Working
        <5>2. /\ call[c].next + 1 \in 1..Len(Turns(call[c].op)) /\ call[c].next \in Nat
              /\ What(c) = Turns(call[c].op)[call[c].next + 1]
          BY <4>2, <4>5, ProductAdded, AtAddProduct DEF Seeding, Handlers
        <5>3. PICK p \in products : p.id = o.product
          BY DEF OfferInv, OfferOf
        <5>4. PICK i \in 1..call[c].next : p.id = <<c, Turns(call[c].op)[i]>>
          BY <4>2, <5>1, <5>3 DEF ProductInv, Steady
        <5>5. Turns(call[c].op)[i] = Turns(call[c].op)[call[c].next + 1]
          BY <5>1, <5>2, <5>3, <5>4
        <5>6. i \in 1..Len(Turns(call[c].op)) /\ i # call[c].next + 1
          BY <5>2, <5>4, Provided DEF Turns
        <5> QED
          BY <5>2, <5>5, <5>6, Provided DEF Turns
      <4>6. CASE AddBundle(c)
        <5> SUFFICES ASSUME call[c].op \in Seeding, o.product = call'[c].product
                     PROVE  /\ \E i \in 1..call'[c].nth : o.bundle = <<c, <<Networks[call'[c].next], i>>>>
                            /\ o.bundle # call'[c].bundle
          BY <3>2, <3>4, <4>2, <4>4 DEF NotYet, Steady
        <5>1. /\ call'[c].product = call[c].product /\ call'[c].bundle = <<c, What(c)>>
              /\ call'[c].next = call[c].next /\ call'[c].nth = call[c].nth + 1
              /\ call[c].nth \in Nat
          BY <3>4, <4>2, <4>6, BundleAdded DEF Bundled, Handlers, Working
        <5>2. /\ call[c].op = "seedDataBundlesToDb"
              /\ What(c) = <<Networks[call[c].next], call[c].nth + 1>>
          BY <4>6, BundleAdded, AtAddBundle DEF Seeding
        <5>3. PICK i \in 1..call[c].nth : o.bundle = <<c, <<Networks[call[c].next], i>>>>
          BY <4>3, <5>1, <5>2 DEF NotYet
        <5>4. i \in 1..call'[c].nth /\ i # call[c].nth + 1
          BY <5>1, <5>3
        <5>5. o.bundle # call'[c].bundle
          BY <5>1, <5>2, <5>3, <5>4
        <5> QED
          BY <5>1, <5>3, <5>4, <5>5
      <4>7. CASE ~AddProduct(c) /\ ~AddBundle(c)
        <5>1. SamePlace(c)
          BY <4>1, <4>7, PlaceStays
        <5>2. \A n : n \in Pending(c)' => n \in Pending(c)
          BY <4>1, <4>7, FewerPending
        <5> QED
          BY <3>2, <3>4, <4>2, <4>3, <4>4, <5>1, <5>2 DEF NotYet, SamePlace, Steady
      <4> QED
        BY <4>5, <4>6, <4>7
    <3> QED
      BY <3>3, <3>4
  <2>4. CASE AddOffer(c) /\ q = NewOffer(c)
    <3>1. /\ q.id = <<c, What(c), call[c].product, call[c].bundle>> /\ q.by = c
          /\ q.product = call[c].product /\ q.bundle = call[c].bundle
      BY <2>4, OfferAdded
    <3>2. d = c /\ q.id[2] = What(c)
      BY <3>1
    <3>3. Steady(c) /\ call[c] \in Handlers /\ Step(c)
      BY <2>4, StepMoves DEF TypeInv, Step
    <3>4. SamePlace(c)
      <4>1. call'[c] = [call[c] EXCEPT !.todo = Tail(call[c].todo)]
        BY <2>4, OfferAdded
      <4> QED
        BY <3>3, <4>1 DEF SamePlace, Handlers
    <3>5. call[c].op = "createVendorProduct" => call'[c].todo = <<>>
      <4>1. ASSUME call[c].op = "createVendorProduct", ~(call'[c].todo = <<>>) PROVE FALSE
        <5>1. Refuse(c) /\ At(c, "refuseOffer")
          BY <3>2, <3>3, <4>1, OnlyAnswers
        <5> QED
          BY <2>4, <5>1 DEF AddOffer, At
      <4> QED
        BY <4>1
    <3>6. ASSUME call[c].op \in Seeding
          PROVE  /\ \/ call[c].op = "seedDataToDb" /\ q.bundle = None
                    \/ \E i \in 1..call[c].nth : q.bundle = <<c, <<Networks[call[c].next], i>>>>
                 /\ What(c) \notin Pending(c)'
      <4>1. Looped(c) /\ call[c].next > 0 /\ call[c].todo # <<>> /\ call[c].nth \in Nat
            /\ call[c].todo \in Seq(Steps) /\ Head(call[c].todo) = On("addOffer", What(c))
        BY <2>4, <3>3, <3>6, OfferedLooped, RowsStay, OfferAdded, AtOffer
           DEF ScriptInv, Steady, OnOffer, Handlers
      <4>2. \/ call[c].op = "seedDataToDb" /\ q.bundle = None
            \/ \E i \in 1..call[c].nth : q.bundle = <<c, <<Networks[call[c].next], i>>>>
        <5>1. CASE call[c].op = "seedDataToDb"
          BY <3>1, <4>1, <5>1 DEF Looped
        <5>2. CASE call[c].op = "seedDataBundlesToDb"
          <6>1. call[c].nth # 0
            BY <4>1, <5>2 DEF Looped
          <6>2. call[c].nth \in 1..call[c].nth
            BY <4>1, <6>1
          <6>3. q.bundle = <<c, <<Networks[call[c].next], call[c].nth>>>>
            BY <3>1, <4>1, <6>2 DEF Looped
          <6> QED
            BY <6>2, <6>3
        <5> QED
          BY <3>6, <5>1, <5>2 DEF Seeding
      <4>3. What(c) \notin Pending(c)'
        <5>1. call'[c].todo = Tail(call[c].todo)
          BY <2>4, <3>3, OfferAdded DEF Handlers
        <5>2. \A i \in DOMAIN call'[c].todo : call'[c].todo[i] # call[c].todo[1]
          BY <4>1, <5>1, TailOf DEF Looped
        <5>3. call[c].todo[1] = On("addOffer", What(c))
          BY <4>1
        <5>4. \A i \in DOMAIN call'[c].todo : call'[c].todo[i] \in Steps
          BY <3>3, <4>1, <5>1, TailOf
        <5>5. \A i \in DOMAIN call'[c].todo :
                ~(call'[c].todo[i].do = "addOffer" /\ call'[c].todo[i].what = What(c))
          BY <5>2, <5>3, <5>4, StepsApart
        <5> QED
          BY <5>5 DEF Pending
      <4> QED
        BY <4>2, <4>3
    <3> QED
      BY <3>1, <3>2, <3>3, <3>4, <3>5, <3>6 DEF NotYet, SamePlace, Steady
  <2> QED
    BY <1>1, <2>3, <2>4, OffersMove
<1>2. CASE UNCHANGED vars
  <2>1. call' = call /\ offers' = offers
    BY <1>2 DEF vars
  <2> SUFFICES ASSUME NEW q \in offers, NEW d \in Calls, q.by = d, Working(d)
               PROVE  NotYet(d, q)'
    BY <2>1 DEF FreshInv, Working
  <2>2. NotYet(d, q)
    BY DEF FreshInv
  <2> QED
    BY <2>1, <2>2 DEF NotYet, Pending
<1> QED
  BY <1>1, <1>2 DEF Next

-----------------------------------------------------------------------------
(* A vendor's offer of a product *)

(* The product that a seeding adds is new. *)
LEMMA ProductIsNew ==
  ASSUME TypeInv, ScriptInv, ProductInv, NEW c \in Calls, AddProduct(c), Working(c),
         call[c].op \in Seeding, NEW p \in products, p.id = <<c, What(c)>>
  PROVE  FALSE
<1>1. /\ call[c].next + 1 \in 1..Len(Turns(call[c].op)) /\ call[c].next \in Nat
      /\ What(c) = Turns(call[c].op)[call[c].next + 1]
  BY AtAddProduct DEF AddProduct, Seeding, TypeInv, Handlers
<1>2. PICK i \in 1..call[c].next : p.id = <<c, Turns(call[c].op)[i]>>
  BY DEF ProductInv
<1>3. Turns(call[c].op)[i] = Turns(call[c].op)[call[c].next + 1]
  BY <1>1, <1>2
<1>4. i \in 1..Len(Turns(call[c].op)) /\ i # call[c].next + 1
  BY <1>1, <1>2, Provided DEF Turns
<1> QED
  BY <1>1, <1>3, <1>4, Provided DEF Turns

(* What is offered may be. *)
LEMMA OfferedMay ==
  ASSUME TypeInv, ScriptInv, VendorInv, ProductInv, NEW c \in Calls, AddOffer(c)
  PROVE  /\ MayOffer(c, call[c].docs[What(c)], call[c].product)
         /\ call[c].docs[What(c)] \in VendorIds /\ call[c].product \in ProductIds
<1>1. /\ What(c) \in VendorNames /\ call[c].op \in Adding /\ Working(c)
      /\ call[c].todo # <<>> /\ Head(call[c].todo) = On("addOffer", What(c))
  BY AtOffer DEF OnOffer, At, AddOffer
<1>2. call[c].product \in ProductIds
  BY NewIsOwn DEF TypeInv, ProductRows
<1>3. Head(call[c].todo).what = What(c)
  BY <1>1 DEF On
<1>4. ASSUME call[c].op \in Seeding
      PROVE  call[c].next > 0 /\ call[c].docs[What(c)] \in VendorIds
  <2>1. call[c].next > 0
    BY <1>4, OfferedLooped, RowsStay DEF Step
  <2> QED
    BY <1>4, <2>1, NewIsOwn DEF NameOf, TypeInv
<1>5. ASSUME call[c].op = "createVendorProduct" PROVE call[c].docs[What(c)] \in VendorIds
  <2>1. PICK n \in VendorNames :
          /\ call[c].docs[n] \in VendorIds
          /\ call[c].todo \in {createVendorProduct(n), <<On("addOffer", n)>>, <<>>}
    BY <1>1, <1>5 DEF ScriptInv, Scripted
  <2>2. Head(createVendorProduct(n)).what = n /\ Head(<<On("addOffer", n)>>).what = n
    BY DEF createVendorProduct, On
  <2> QED
    BY <1>1, <1>3, <2>1, <2>2
<1> QED
  BY <1>1, <1>2, <1>3, <1>4, <1>5 DEF MayOffer, Adding, Seeding

(* A step lets a call offer nothing that it could not, but a new product. *)
LEMMA MayStays ==
  ASSUME TypeInv, ScriptInv, NEW c \in Calls, Step(c), NEW v, NEW p, MayOffer(c, v, p)'
  PROVE  \/ MayOffer(c, v, p)
         \/ AddProduct(c) /\ call[c].op \in Seeding /\ p = <<c, What(c)>> /\ Working(c)
<1>0. call[c] \in Handlers /\ Steady(c) /\ Working(c)
  BY StepMoves DEF TypeInv, Steady
<1>1. /\ Working(c)' /\ call[c].op \in Adding /\ call'[c].product = p
      /\ call[c].op \in Seeding => call'[c].next > 0
      /\ call[c].op = "createVendorProduct" =>
           \E n \in VendorNames : call'[c].docs[n] = v /\ call'[c].todo # <<>>
                                  /\ Head(call'[c].todo).what = n
  BY <1>0 DEF MayOffer, Steady
<1>2. CASE AddProduct(c)
  <2>1. call[c].op # "createVendorProduct"
    BY <1>2, AtAddProduct DEF AddProduct, Seeding
  <2>2. call'[c].product = <<c, What(c)>>
    BY <1>0, <1>1, <1>2, ProductAdded DEF Taken, Handlers, Working
  <2> QED
    BY <1>0, <1>1, <1>2, <2>1, <2>2 DEF Adding
<1>3. CASE AddBundle(c)
  <2>1. \/ call'[c] = [call[c] EXCEPT !.state = "refused"]
        \/ \E id, t : call'[c] = Bundled(c, id, t)
    BY <1>3, BundleAdded
  <2>2. call'[c].next = call[c].next /\ call'[c].product = call[c].product
    BY <1>0, <2>1 DEF Bundled, Handlers
  <2>3. call[c].op # "createVendorProduct"
    BY <1>3, AtAddBundle DEF AddBundle
  <2> QED
    BY <1>0, <1>1, <2>2, <2>3 DEF MayOffer
<1>4. CASE ~AddProduct(c) /\ ~AddBundle(c)
  <2>1. call'[c].next = call[c].next /\ call'[c].product = call[c].product
    BY <1>4, PlaceStays DEF SamePlace
  <2>2. ASSUME call[c].op = "createVendorProduct"
        PROVE  \E n \in VendorNames : call[c].docs[n] = v /\ call[c].todo # <<>>
                                      /\ Head(call[c].todo).what = n
    <3>1. PICK n \in VendorNames : call'[c].docs[n] = v /\ call'[c].todo # <<>>
                                  /\ Head(call'[c].todo).what = n
      BY <1>1, <2>2
    <3>2. PICK m \in VendorNames : /\ call[c].todo = createVendorProduct(m)
                                   /\ call'[c].todo = <<On("addOffer", m)>>
      BY <1>1, <2>2, <3>1, OnlyAnswers
    <3>3. /\ Head(createVendorProduct(m)).what = m /\ Head(<<On("addOffer", m)>>).what = m
          /\ call[c].todo # <<>> /\ call'[c].docs = call[c].docs
      BY <1>1, <2>2, OnlyAnswers DEF createVendorProduct, On
    <3> QED
      BY <3>1, <3>2, <3>3
  <2> QED
    BY <1>0, <1>1, <2>1, <2>2 DEF MayOffer
<1> QED
  BY <1>2, <1>3, <1>4

(* Nobody may offer a product that is not there. *)
LEMMA MayBeThere ==
  ASSUME TypeInv, ScriptInv, ProductInv, NEW c \in Calls, NEW v, NEW p, MayOffer(c, v, p)
  PROVE  \E q \in products : q.id = p
<1>1. CASE call[c].op \in Seeding
  BY <1>1 DEF MayOffer, ScriptInv, Looped
<1>2. CASE call[c].op = "createVendorProduct"
  BY <1>2 DEF MayOffer, ProductInv
<1> QED
  BY <1>1, <1>2 DEF MayOffer, Adding

LEMMA PairInit == Init => PairInv
<1> SUFFICES ASSUME Init PROVE PairInv
  OBVIOUS
<1>1. \A c \in Calls : ~Working(c)
  BY DEF Init, Idle, Working
<1> QED
  BY <1>1 DEF PairInv, MayOffer

(* A call that begins may offer what no other may, or it crosses with one. *)
LEMMA StartMay ==
  ASSUME TypeInv, NEW c \in Calls, Start(c), NEW v, NEW p, MayOffer(c, v, p)'
  PROVE  /\ call'[c].op = "createVendorProduct" /\ Head(call'[c].todo).do = "refuseOffer"
         /\ \A d \in Calls : Working(d) /\ call[d].op \in Adding /\ call[d].product = p =>
              <<v, p>> \in crossedPairs'
<1>1. PICK h :
        /\ Started(c, h)
        /\ \/ h.op \in Simple
           \/ h.op \in Seeding
           \/ \E w \in vendors, q \in products : Offering(c, h, w, q)
           \/ \E o \in offers, k \in SchemaKeys : Changing(c, h, o, k)
  BY StartMoves
<1>2. call'[c] = h /\ h.next = 0
  BY <1>1 DEF Started, Fresh
<1>3. h.op = "createVendorProduct" /\ h.product = p
  BY <1>2 DEF MayOffer, Adding, Seeding
<1>4. PICK w \in vendors, q \in products : Offering(c, h, w, q)
  BY <1>1, <1>3 DEF Simple, Seeding, Changing
<1>5. /\ h.todo = createVendorProduct(w.id[2]) /\ q.id = p
      /\ h.docs = [NoDocs EXCEPT ![w.id[2]] = w.id] /\ w.id[2] \in VendorNames
  BY <1>3, <1>4 DEF Offering, TypeInv, VendorRows, VendorIds
<1>6. /\ Head(createVendorProduct(w.id[2])) = On("refuseOffer", w.id[2])
      /\ On("refuseOffer", w.id[2]).do = "refuseOffer" /\ On("refuseOffer", w.id[2]).what = w.id[2]
  BY DEF createVendorProduct, On
<1>7. \E n \in VendorNames : h.docs[n] = v /\ Head(h.todo).what = n
  BY <1>2, <1>3 DEF MayOffer
<1>8. v = w.id
  BY <1>5, <1>6, <1>7 DEF NoDocs
<1> QED
  BY <1>2, <1>3, <1>4, <1>5, <1>6, <1>8 DEF Offering

LEMMA PairStep ==
  TypeInv /\ ScriptInv /\ VendorInv /\ ProductInv /\ OfferInv /\ PairInv /\ [Next]_vars => PairInv'
<1> SUFFICES ASSUME TypeInv, ScriptInv, VendorInv, ProductInv, OfferInv, PairInv, [Next]_vars
             PROVE  PairInv'
  OBVIOUS
<1>1. ASSUME NEW e \in Calls, Start(e), NEW c \in Calls, NEW v \in VendorIds, NEW p \in ProductIds,
             MayOffer(c, v, p)', <<v, p>> \notin crossedPairs'
      PROVE  PairOf(c, v, p)'
  <2>1. /\ \A d \in Calls : d # e => call'[d] = call[d]
        /\ UNCHANGED offers /\ crossedPairs \subseteq crossedPairs'
    BY <1>1, StartMoves DEF Started, Offering
  <2>2. ASSUME NEW d \in Calls, d # e, MayOffer(d, v, p)'
        PROVE  MayOffer(d, v, p) /\ ~MayOffer(e, v, p)'
    <3>1. MayOffer(d, v, p)
      BY <2>1, <2>2 DEF MayOffer, Working
    <3>2. Working(d) /\ call[d].op \in Adding /\ call[d].product = p
      BY <3>1 DEF MayOffer
    <3> QED
      BY <1>1, <3>1, <3>2, StartMay
  <2>3. CASE c = e
    <3>1. \A d \in Calls : MayOffer(d, v, p)' => d = c
      BY <1>1, <2>2, <2>3
    <3>2. call'[c].op = "createVendorProduct" /\ Head(call'[c].todo).do = "refuseOffer"
      BY <1>1, <2>3, StartMay
    <3> QED
      BY <3>1, <3>2 DEF PairOf
  <2>4. CASE c # e
    <3>1. PairOf(c, v, p)
      BY <1>1, <2>1, <2>2, <2>4 DEF PairInv
    <3>2. \A d \in Calls : MayOffer(d, v, p)' => d = c
      BY <1>1, <2>2, <2>4, <3>1 DEF PairOf
    <3> QED
      BY <2>1, <2>4, <3>1, <3>2 DEF PairOf
  <2> QED
    BY <2>3, <2>4
<1>2. ASSUME NEW e \in Calls, Step(e), NEW c \in Calls, NEW v \in VendorIds, NEW p \in ProductIds,
             MayOffer(c, v, p)', <<v, p>> \notin crossedPairs'
      PROVE  PairOf(c, v, p)'
  <2>1. /\ \A d \in Calls : d # e => call'[d] = call[d]
        /\ crossedPairs' = crossedPairs /\ call'[e].op = call[e].op
    BY <1>2, StepMoves DEF Steady
  <2>2. ASSUME NEW d \in Calls, MayOffer(d, v, p)'
        PROVE  \/ MayOffer(d, v, p)
               \/ AddProduct(e) /\ call[e].op \in Seeding /\ p = <<e, What(e)>> /\ d = e /\ Working(e)
    <3>1. CASE d = e
      BY <1>2, <2>2, <3>1, MayStays
    <3>2. CASE d # e
      BY <2>1, <2>2, <3>2 DEF MayOffer, Working
    <3> QED
      BY <3>1, <3>2
  <2>3. CASE AddProduct(e) /\ call[e].op \in Seeding /\ p = <<e, What(e)>> /\ Working(e)
    <3>1. ~\E q \in products : q.id = p
      BY <2>3, ProductIsNew
    <3>2. \A d \in Calls : MayOffer(d, v, p)' => d = e
      BY <2>2, <3>1, MayBeThere
    <3>3. UNCHANGED offers /\ \A o \in offers : o.product # p
      BY <2>3, <3>1 DEF AddProduct, OfferInv, OfferOf
    <3> QED
      BY <1>2, <3>2, <3>3 DEF PairOf
  <2>4. CASE ~(AddProduct(e) /\ call[e].op \in Seeding /\ p = <<e, What(e)>> /\ Working(e))
    <3>1. PairOf(c, v, p) /\ MayOffer(c, v, p)
      BY <1>2, <2>1, <2>2, <2>4 DEF PairInv
    <3>2. \A d \in Calls : MayOffer(d, v, p)' => d = c
      BY <2>2, <2>4, <3>1 DEF PairOf
    <3>3. ASSUME NEW q \in offers', q.vendor = v, q.product = p
          PROVE  \/ call'[c].op \in Seeding /\ q.by = c
                 \/ call'[c].op = "createVendorProduct" /\ Head(call'[c].todo).do = "refuseOffer"
      <4>1. CASE \E o \in offers : SameOffer(o, q)
        <5>1. PICK o \in offers : SameOffer(o, q)
          BY <4>1
        <5>2. o.vendor = v /\ o.product = p /\ o.by = q.by
          BY <3>3, <5>1 DEF SameOffer
        <5>3. \/ call[c].op \in Seeding /\ o.by = c
              \/ call[c].op = "createVendorProduct" /\ Head(call[c].todo).do = "refuseOffer"
          BY <3>1, <5>2 DEF PairOf
        <5>4. ASSUME c = e, call[c].op = "createVendorProduct" PROVE FALSE
          <6>1. PICK n \in VendorNames : call[c].docs[n] = v /\ Head(call[c].todo).what = n
            BY <3>1, <5>4 DEF MayOffer
          <6>2. Working(c)' /\ call'[c].todo # <<>>
            BY <1>2, <2>1, <5>4 DEF MayOffer
          <6>3. /\ At(c, "refuseOffer") /\ Refuse(c) /\ call[c].todo # <<>>
                /\ \E m \in VendorNames : call'[c].todo = <<On("addOffer", m)>>
                                          /\ call[c].todo = createVendorProduct(m)
            BY <1>2, <5>4, <6>2, OnlyAnswers
          <6>4. call'[c] = [call[c] EXCEPT !.todo = Tail(call[c].todo)]
            <7>1. call'[c] # [call[c] EXCEPT !.state = "refused"]
              BY <6>2 DEF Working, TypeInv, Handlers
            <7> QED
              BY <6>3, <7>1, RefuseMoves
          <6>5. ~\E r \in offers : r.vendor = call[c].docs[What(c)] /\ r.product = call[c].product
            <7>1. call'[c] # [call[c] EXCEPT !.state = "refused"]
              BY <6>2 DEF Working, TypeInv, Handlers
            <7> QED
              BY <5>4, <6>3, <7>1, RefuseMoves DEF Simple, Seeding
          <6>6. What(c) = Head(call[c].todo).what
            BY <6>3 DEF What, NextOf
          <6>7. call[c].product = p
            BY <3>1 DEF MayOffer
          <6> QED
            BY <5>2, <6>1, <6>5, <6>6, <6>7
        <5> QED
          BY <2>1, <5>2, <5>3, <5>4
      <4>2. CASE AddOffer(e) /\ q = NewOffer(e)
        <5>1. q.by = e /\ v = call[e].docs[What(e)] /\ p = call[e].product
          BY <3>3, <4>2, OfferAdded
        <5>2. e = c
          BY <3>1, <4>2, <5>1, OfferedMay DEF PairOf
        <5>3. call[c].op # "createVendorProduct"
          <6>1. ASSUME call[c].op = "createVendorProduct" PROVE FALSE
            <7>1. Working(c)' /\ call'[c].todo # <<>>
              BY <1>2, <2>1, <5>2, <6>1 DEF MayOffer
            <7>2. At(c, "refuseOffer")
              BY <1>2, <5>2, <6>1, <7>1, OnlyAnswers
            <7> QED
              BY <4>2, <5>2, <7>2 DEF AddOffer, At
          <6> QED
            BY <6>1
        <5> QED
          BY <2>1, <3>1, <5>1, <5>2, <5>3 DEF MayOffer, Adding
      <4> QED
        BY <1>2, <4>1, <4>2, OffersMove
    <3> QED
      BY <3>2, <3>3 DEF PairOf
  <2> QED
    BY <2>3, <2>4
<1>3. CASE UNCHANGED vars
  <2>1. call' = call /\ offers' = offers /\ crossedPairs' = crossedPairs
    BY <1>3 DEF vars
  <2>2. ASSUME NEW c \in Calls, NEW v \in VendorIds, NEW p \in ProductIds
        PROVE  (MayOffer(c, v, p)' <=> MayOffer(c, v, p))
    BY <2>1 DEF MayOffer, Working
  <2> QED
    BY <2>1, <2>2 DEF PairInv, PairOf
<1>4. ASSUME NEW e \in Calls, Start(e) \/ Step(e) PROVE PairInv'
  BY <1>1, <1>2, <1>4 DEF PairInv
<1> QED
  BY <1>3, <1>4 DEF Next

(* The vendor's name and the product, or the bundle, tell the offers of a call. *)
LEMMA SeededIsOnce == TypeInv /\ OfferInv => SeededOnce
<1> SUFFICES ASSUME TypeInv, OfferInv, NEW o \in offers, NEW q \in offers,
                    Alike(o, q), o.vendor \notin renamed,
                    call[o.by].op \in Seeding, call[q.by].op \in Seeding
             PROVE  o = q
  BY DEF SeededOnce
<1>1. OfferOf(o) /\ OfferOf(q)
  BY DEF OfferInv
<1>2. o.by = q.by
  BY <1>1 DEF OfferOf, Alike
<1>3. o.id[2] = q.id[2]
  BY <1>1 DEF OfferOf, Alike, NameOf
<1>4. o.id = q.id
  BY <1>1, <1>2, <1>3 DEF OfferOf, Alike
<1> QED
  BY <1>4 DEF OfferInv

LEMMA DistinctInit == Init => OffersDistinct
BY DEF Init, OffersDistinct

LEMMA DistinctStep ==
  TypeInv /\ ScriptInv /\ VendorInv /\ ProductInv /\ OfferInv /\ FreshInv /\ PairInv
    /\ OfferInv' /\ OffersDistinct /\ [Next]_vars
  => OffersDistinct'
<1> SUFFICES ASSUME TypeInv, ScriptInv, VendorInv, ProductInv, OfferInv, FreshInv, PairInv,
                    OfferInv', OffersDistinct, [Next]_vars
             PROVE  OffersDistinct'
  OBVIOUS
<1>1. ASSUME NEW c \in Calls, Start(c) \/ Step(c), NEW q \in offers', NEW r \in offers',
             Alike(q, r), q.vendor \notin renamed', <<q.vendor, q.product>> \notin crossedPairs'
      PROVE  q = r
  <2>1. renamed \subseteq renamed' /\ crossedPairs \subseteq crossedPairs'
    <3>1. CASE Start(c)
      BY <3>1, StartMoves DEF Started, Offering
    <3>2. CASE Step(c)
      BY <3>2, StepMoves DEF Steady
    <3> QED
      BY <1>1, <3>1, <3>2
  <2>2. q.vendor \notin renamed /\ <<q.vendor, q.product>> \notin crossedPairs
    BY <1>1, <2>1
  <2>3. ASSUME NEW o \in offers, AddOffer(c), Alike(o, NewOffer(c)),
               o.vendor \notin renamed, <<o.vendor, o.product>> \notin crossedPairs
        PROVE  FALSE
    <3>1. /\ NewOffer(c).id = <<c, What(c), call[c].product, call[c].bundle>>
          /\ o.vendor = call[c].docs[What(c)] /\ o.product = call[c].product
          /\ o.bundle = call[c].bundle
      BY <2>3, OfferAdded DEF Alike
    <3>2. PairOf(c, o.vendor, o.product)
      BY <2>3, <3>1, OfferedMay DEF PairInv
    <3>3. call[c].todo # <<>> /\ Head(call[c].todo).do = "addOffer"
      <4>1. At(c, "addOffer")
        BY <2>3 DEF AddOffer
      <4>2. call[c].todo # <<>> /\ Head(call[c].todo) = On("addOffer", What(c))
        BY <4>1, AtOffer DEF OnOffer
      <4> QED
        BY <4>2 DEF On
    <3>4. call[c].op \in Seeding /\ o.by = c
      BY <3>2, <3>3 DEF PairOf
    <3>5. OfferOf(o) /\ NameOf(renamed, call[c].docs[What(c)], What(c))
      BY <2>3, <3>4, NewIsOwn DEF OfferInv
    <3>6. o.id[2] = What(c)
      BY <2>3, <3>1, <3>4, <3>5 DEF OfferOf, NameOf
    <3>7. o.id = NewOffer(c).id
      BY <3>1, <3>4, <3>5, <3>6 DEF OfferOf
    <3> QED
      BY <2>3, <3>7, IdIsNew
  <2>4. \/ \E o \in offers : SameOffer(o, q)
        \/ AddOffer(c) /\ q = NewOffer(c)
    BY <1>1, OffersMove
  <2>5. \/ \E o \in offers : SameOffer(o, r)
        \/ AddOffer(c) /\ r = NewOffer(c)
    BY <1>1, OffersMove
  <2>6. CASE (\E o \in offers : SameOffer(o, q)) /\ \E o \in offers : SameOffer(o, r)
    <3>1. PICK o \in offers : SameOffer(o, q)
      BY <2>6
    <3>2. PICK s \in offers : SameOffer(s, r)
      BY <2>6
    <3>3. Alike(o, s) /\ o.vendor = q.vendor /\ o.product = q.product
      BY <1>1, <3>1, <3>2 DEF SameOffer, Alike
    <3>4. o = s
      BY <2>2, <3>3 DEF OffersDistinct
    <3>5. q.id = r.id
      BY <3>1, <3>2, <3>4 DEF SameOffer
    <3> QED
      BY <3>5 DEF OfferInv
  <2>7. CASE (\E o \in offers : SameOffer(o, q)) /\ AddOffer(c) /\ r = NewOffer(c)
    <3>1. PICK o \in offers : SameOffer(o, q)
      BY <2>7
    <3>2. Alike(o, NewOffer(c)) /\ o.vendor = q.vendor /\ o.product = q.product
      BY <1>1, <2>7, <3>1 DEF SameOffer, Alike
    <3> QED
      BY <2>2, <2>3, <2>7, <3>2
  <2>8. CASE (\E o \in offers : SameOffer(o, r)) /\ AddOffer(c) /\ q = NewOffer(c)
    <3>1. PICK o \in offers : SameOffer(o, r)
      BY <2>8
    <3>2. Alike(o, NewOffer(c)) /\ o.vendor = q.vendor /\ o.product = q.product
      BY <1>1, <2>8, <3>1 DEF SameOffer, Alike
    <3> QED
      BY <2>2, <2>3, <2>8, <3>2
  <2> QED
    BY <2>4, <2>5, <2>6, <2>7, <2>8
<1>2. CASE UNCHANGED vars
  <2>1. offers' = offers /\ renamed' = renamed /\ crossedPairs' = crossedPairs
    BY <1>2 DEF vars
  <2> QED
    BY <2>1 DEF OffersDistinct
<1>3. ASSUME NEW c \in Calls, Start(c) \/ Step(c) PROVE OffersDistinct'
  BY <1>1, <1>3 DEF OffersDistinct, Alike
<1> QED
  BY <1>2, <1>3 DEF Next

-----------------------------------------------------------------------------
(* An offer's data *)

(* A call that updates reads, writes and answers. *)
LEMMA OnlyUpdates ==
  ASSUME TypeInv, ScriptInv, NEW c \in Calls, Step(c), call[c].op = "updateVendorProduct"
  PROVE  /\ call[c].key \in SchemaKeys
         /\ \/ ReadSchema(c) /\ Working(c)' /\ call[c].todo # <<>> /\ call'[c].todo # <<>>
            \/ WriteSchema(c) /\ Working(c)' /\ call[c].todo # <<>> /\ call'[c].todo = <<>>
            \/ Answer(c) /\ call[c].todo = <<>> /\ ~Working(c)'
            \/ Throw(c) /\ call'[c].state = "thrown"
<1>0. call[c] \in Handlers /\ Steady(c)
  BY StepMoves DEF TypeInv
<1> DEFINE k == call[c].key
<1>1. call[c].todo \in {updateVendorProduct(k), <<On("writeSchema", k)>>, <<>>} /\ k \in SchemaKeys
  BY <1>0 DEF ScriptInv, Scripted, Steady, Working
<1> HIDE DEF k
<1>2. /\ updateVendorProduct(k) # <<>> /\ Head(updateVendorProduct(k)).do = "readSchema"
      /\ Tail(updateVendorProduct(k)) # <<>>
      /\ <<On("writeSchema", k)>> # <<>> /\ Head(<<On("writeSchema", k)>>).do = "writeSchema"
      /\ Tail(<<On("writeSchema", k)>>) = <<>>
  BY DEF updateVendorProduct, On
<1>3. NextOf(call[c]).do \in {"readSchema", "writeSchema", "answer"}
  BY <1>1, <1>2 DEF NextOf, On
<1>4. ReadSchema(c) \/ WriteSchema(c) \/ Answer(c) \/ Throw(c)
  BY <1>3 DEF Step, Refuse, ViewVendor, AddVendor, AddProduct, AddBundle, AddOffer, RenameVendor,
       RenameProduct, At
<1>5. /\ Answer(c) => call[c].todo = <<>> /\ ~Working(c)'
      /\ Throw(c) => call'[c].state = "thrown"
  <2>1. Answer(c) => call[c].todo = <<>> /\ call'[c].state = "answered"
    BY <1>0, AtAnswer DEF Answer, TypeInv, Handlers
  <2>2. Throw(c) => call'[c].state = "thrown"
    BY DEF Throw, TypeInv, Handlers
  <2> QED
    BY <2>1, <2>2 DEF Working
<1>6. CASE ReadSchema(c)
  <2>1. At(c, "readSchema") /\ call[c].todo # <<>>
    BY <1>6, AtSchema DEF ReadSchema, OnSchema
  <2>2. call[c].todo = updateVendorProduct(k)
    BY <1>1, <1>2, <2>1 DEF At, NextOf
  <2>3. call'[c].todo = Tail(call[c].todo) /\ Working(c)'
    BY <1>0, <1>6, ReadMoves DEF Handlers, Working, Steady
  <2> QED
    BY <1>1, <1>2, <1>6, <2>1, <2>2, <2>3 DEF k
<1>7. CASE WriteSchema(c)
  <2>1. At(c, "writeSchema") /\ call[c].todo # <<>>
    BY <1>7, AtSchema DEF WriteSchema, OnSchema
  <2>2. call[c].todo = <<On("writeSchema", k)>>
    BY <1>1, <1>2, <2>1 DEF At, NextOf
  <2>3. call'[c].todo = Tail(call[c].todo) /\ Working(c)'
    BY <1>0, <1>7, WriteMoves DEF Handlers, Working, Steady
  <2> QED
    BY <1>1, <1>2, <1>7, <2>1, <2>2, <2>3 DEF k
<1> QED
  BY <1>1, <1>4, <1>5, <1>6, <1>7 DEF k

LEMMA UpdateInit == Init => UpdateInv
<1> SUFFICES ASSUME Init PROVE UpdateInv
  OBVIOUS
<1>1. \A c \in Calls : call[c].state = "new"
  BY DEF Init, Idle
<1> QED
  BY <1>1 DEF Init, UpdateInv, KeptInv, Kept, AnsweredInv, Told, NewInv

(* An update begins. *)
LEMMA ChangeKeeps ==
  ASSUME TypeInv, ScriptInv, OfferInv, UpdateInv, NEW e \in Calls, Start(e)
  PROVE  UpdateInv'
<1>1. PICK h :
        /\ Started(e, h)
        /\ \/ UNCHANGED crossedOffers /\ h.op # "updateVendorProduct"
           \/ \E o \in offers, k \in SchemaKeys : Changing(e, h, o, k)
  BY StartMoves DEF Simple, Seeding, Offering
<1>2. /\ call'[e] = h /\ h.state = "working" /\ call[e].state = "new"
      /\ \A d \in Calls : d # e => call'[d] = call[d]
      /\ \A d \in Calls : d < e => call[d].state # "new"
      /\ UNCHANGED offers
  BY <1>1 DEF Started, Fresh
<1>3. crossedOffers \subseteq crossedOffers'
  BY <1>1 DEF Changing
<1>4. ASSUME NEW o \in offers, NEW d \in Calls, d # e PROVE Updates(d, o)' <=> Updates(d, o)
  BY <1>2, <1>4 DEF Updates
<1>5. \A o \in offers : ~Updates(e, o)
  BY <1>2 DEF Updates
<1>6. \A d \in Calls : call[d].state # "new" => d <= e
  BY <1>2 DEF UpdateInv, NewInv, Calls
<1>7. ASSUME NEW o \in offers, Updates(e, o)'
      PROVE  /\ h.todo # <<>> /\ h.schema = [o.schema EXCEPT ![h.key] = e]
             /\ \A d \in Calls : Working(d) /\ call[d].offer = o.id => o.id \in crossedOffers'
  <2>1. PICK q \in offers, k \in SchemaKeys : Changing(e, h, q, k)
    BY <1>1, <1>2, <1>7 DEF Updates
  <2>2. q = o
    BY <1>2, <1>7, <2>1 DEF Updates, Changing, OfferInv
  <2> QED
    BY <2>1, <2>2 DEF Changing, updateVendorProduct
<1>8. ASSUME NEW o \in offers, NEW c \in Calls, Updates(c, o)', Working(c)', o.id \notin crossedOffers'
      PROVE  /\ \A d \in Calls : Updates(d, o)' => d <= c /\ (Working(d)' => d = c)
             /\ call'[c].todo # <<>> => call'[c].schema = [o.schema EXCEPT ![call'[c].key] = c]
             /\ call'[c].todo = <<>> => o.schema[call'[c].key] = c
  <2>1. CASE c = e
    <3>1. ASSUME NEW d \in Calls, Updates(d, o)', d # e PROVE d <= e /\ ~Working(d)'
      <4>1. Updates(d, o)
        BY <1>4, <3>1
      <4>2. ~Working(d)
        BY <1>7, <1>8, <2>1, <4>1 DEF Updates
      <4> QED
        BY <1>2, <1>6, <3>1, <4>1, <4>2 DEF Updates, Working
    <3>2. e <= e
      BY DEF Calls
    <3> QED
      BY <1>2, <1>7, <1>8, <2>1, <3>1, <3>2
  <2>2. CASE c # e
    <3>1. Updates(c, o) /\ Working(c)
      BY <1>2, <1>4, <1>8, <2>2 DEF Working
    <3>2. ~Updates(e, o)'
      BY <1>7, <1>8, <3>1 DEF Updates
    <3>3. \A d \in Calls : Updates(d, o) => d <= c /\ (Working(d) => d = c)
      BY <1>3, <1>8, <3>1 DEF UpdateInv, KeptInv, Kept
    <3>4. \A d \in Calls : Updates(d, o)' => d <= c /\ (Working(d)' => d = c)
      <4> SUFFICES ASSUME NEW d \in Calls, Updates(d, o)' PROVE d <= c /\ (Working(d)' => d = c)
        OBVIOUS
      <4>1. d # e
        BY <3>2
      <4> QED
        BY <1>2, <1>4, <3>3, <4>1 DEF Working
    <3>5. /\ call[c].todo # <<>> => call[c].schema = [o.schema EXCEPT ![call[c].key] = c]
          /\ call[c].todo = <<>> => o.schema[call[c].key] = c
      BY <1>3, <1>8, <3>1 DEF UpdateInv, KeptInv, Kept
    <3> QED
      BY <1>2, <2>2, <3>4, <3>5
  <2> QED
    BY <2>1, <2>2
<1>9. ASSUME NEW o \in offers, NEW c \in Calls, Updates(c, o)', call'[c].state = "answered",
             o.id \notin crossedOffers'
      PROVE  \E d \in Calls : /\ d >= c /\ Updates(d, o)' /\ call'[d].key = call'[c].key
                              /\ o.schema[call'[c].key] = d
  <2>1. c # e
    BY <1>2, <1>9
  <2>2. Updates(c, o) /\ call[c].state = "answered" /\ call'[c].key = call[c].key
    BY <1>2, <1>4, <1>9, <2>1
  <2>3. PICK d \in Calls : /\ d >= c /\ Updates(d, o) /\ call[d].key = call[c].key
                           /\ o.schema[call[c].key] = d
    BY <1>3, <1>9, <2>2 DEF UpdateInv, AnsweredInv, Told
  <2>4. d # e
    BY <1>5, <2>3
  <2> QED
    BY <1>2, <1>4, <2>2, <2>3, <2>4
<1>10. NewInv'
  <2> SUFFICES ASSUME NEW c \in Calls, NEW d \in Calls, call'[c].state = "new", c < d
               PROVE  call'[d].state = "new"
    BY DEF NewInv
  <2>1. c # e /\ call[c].state = "new"
    BY <1>2
  <2>2. d # e
    BY <1>2, <2>1
  <2> QED
    BY <1>2, <2>1, <2>2 DEF UpdateInv, NewInv
<1>11. KeptInv'
  BY <1>2, <1>8 DEF KeptInv, Kept
<1>12. AnsweredInv'
  BY <1>2, <1>9 DEF AnsweredInv, Told
<1> QED
  BY <1>10, <1>11, <1>12 DEF UpdateInv

(* A step of an update, or of another call. *)
LEMMA StepKeeps ==
  ASSUME TypeInv, ScriptInv, OfferInv, FreshInv, UpdateInv, NEW e \in Calls, Step(e)
  PROVE  UpdateInv'
<1>1. /\ \A d \in Calls : d # e => call'[d] = call[d]
      /\ \A d \in Calls : /\ call'[d].op = call[d].op /\ call'[d].offer = call[d].offer
                          /\ call'[d].key = call[d].key
                          /\ call'[d].state # "new" <=> call[d].state # "new"
      /\ Working(e) /\ crossedOffers' = crossedOffers /\ call[e] \in Handlers
  BY StepMoves DEF Steady, TypeInv, Working
<1>2. ASSUME NEW o, NEW q, q.id = o.id, NEW d \in Calls PROVE Updates(d, q)' <=> Updates(d, o)
  BY <1>1, <1>2 DEF Updates
<1>3. ASSUME NEW q \in offers', NEW c \in Calls, Updates(c, q)'
      PROVE  \E o \in offers : SameOffer(o, q) /\ Updates(c, o) /\ (~WriteSchema(e) => q = o)
  <2>1. Updates(c, q)
    BY <1>2, <1>3
  <2>2. PICK r \in offers : r.id = q.id
    BY <2>1 DEF ScriptInv, Scripted, Updates
  <2>3. ~(AddOffer(e) /\ q = NewOffer(e))
    BY <2>2, IdIsNew
  <2>4. PICK o \in offers : SameOffer(o, q) /\ (~WriteSchema(e) => q = o)
    BY <2>3, OffersMove
  <2> QED
    BY <2>1, <2>4 DEF Updates, SameOffer
<1>4. ASSUME WriteSchema(e), NEW q \in offers', NEW o \in offers, SameOffer(o, q)
      PROVE  q.schema = IF o.id = call[e].offer THEN call[e].schema ELSE o.schema
  <2>1. offers' = {Rewritten(e, r) : r \in offers}
    BY <1>4, WriteMoves
  <2>2. PICK r \in offers : q = Rewritten(e, r)
    BY <2>1
  <2>3. r.id = q.id /\ q.schema = IF r.id = call[e].offer THEN call[e].schema ELSE r.schema
    BY <1>4, <2>2, WriteMoves
  <2>4. r = o
    BY <1>4, <2>3 DEF SameOffer, OfferInv
  <2> QED
    BY <2>3, <2>4
<1>5. ASSUME NEW q \in offers', NEW c \in Calls, Updates(c, q)', Working(c)', q.id \notin crossedOffers'
      PROVE  Kept(q, c)'
  <2>1. PICK o \in offers : SameOffer(o, q) /\ Updates(c, o) /\ (~WriteSchema(e) => q = o)
    BY <1>3, <1>5
  <2>2. q.id = o.id /\ o.schema \in Schemas
    BY <2>1 DEF SameOffer, TypeInv, OfferRows
  <2>3. \A d \in Calls : Working(d)' => Working(d)
    BY <1>1 DEF Working
  <2>4. /\ \A d \in Calls : Updates(d, o) => d <= c /\ (Working(d) => d = c)
        /\ call[c].todo # <<>> => call[c].schema = [o.schema EXCEPT ![call[c].key] = c]
        /\ call[c].todo = <<>> => o.schema[call[c].key] = c
    BY <1>1, <1>5, <2>1, <2>2, <2>3 DEF UpdateInv, KeptInv, Kept
  <2>5. \A d \in Calls : Updates(d, q)' => d <= c /\ (Working(d)' => d = c)
    BY <1>2, <2>2, <2>3, <2>4
  <2>6. /\ call'[c].todo # <<>> => call'[c].schema = [q.schema EXCEPT ![call'[c].key] = c]
        /\ call'[c].todo = <<>> => q.schema[call'[c].key] = c
    <3>1. CASE c = e
      <4>1. /\ call[c].op = "updateVendorProduct" /\ call[c].offer = o.id
        BY <2>1 DEF Updates
      <4>2. /\ call[c].todo # <<>> /\ call[c].key \in SchemaKeys
            /\ \/ ReadSchema(c) /\ call'[c].todo # <<>>
               \/ WriteSchema(c) /\ call'[c].todo = <<>>
        BY <1>5, <3>1, <4>1, OnlyUpdates DEF Working
      <4>3. CASE ReadSchema(c)
        <5>1. ~WriteSchema(c) /\ call'[c].todo # <<>>
          BY <4>2, <4>3 DEF ReadSchema, WriteSchema, At
        <5>2. PICK r \in offers :
                /\ r.id = call[c].offer
                /\ call'[c] = [call[c] EXCEPT !.schema = Merge(r.schema, call[c].schema),
                                              !.todo = Tail(call[c].todo)]
          BY <4>3, ReadMoves
        <5>3. r = o /\ call'[c].schema = Merge(o.schema, call[c].schema)
          BY <1>1, <3>1, <4>1, <5>2 DEF OfferInv, Handlers
        <5>4. call'[c].schema = [o.schema EXCEPT ![call[c].key] = c]
          <6>1. call[c].schema = [o.schema EXCEPT ![call[c].key] = c] /\ call[c].key \in SchemaKeys
            BY <2>4, <4>2
          <6>2. \A k \in SchemaKeys :
                  Merge(o.schema, [o.schema EXCEPT ![k] = c]) = [o.schema EXCEPT ![k] = c]
            BY <2>2, Merged
          <6> QED
            BY <5>3, <6>1, <6>2
        <5> QED
          BY <1>1, <2>1, <3>1, <5>1, <5>4
      <4>4. CASE WriteSchema(c)
        <5>1. call'[c].todo = <<>>
          BY <4>2, <4>4 DEF ReadSchema, WriteSchema, At
        <5>2. q.schema = [o.schema EXCEPT ![call[c].key] = c]
          BY <1>4, <2>1, <2>4, <3>1, <4>1, <4>2, <4>4
        <5>3. q.schema[call[c].key] = c
          BY <2>2, <4>2, <5>2 DEF Schemas
        <5> QED
          BY <1>1, <5>1, <5>3
      <4> QED
        BY <4>2, <4>3, <4>4
    <3>2. CASE c # e
      <4>1. ~(WriteSchema(e) /\ o.id = call[e].offer)
        <5>1. ASSUME WriteSchema(e), o.id = call[e].offer PROVE FALSE
          <6>1. Updates(e, o)
            BY <1>1, <5>1, AtSchema DEF Updates, Working, WriteSchema, OnSchema
          <6> QED
            BY <1>1, <2>4, <3>2, <6>1
        <5> QED
          BY <5>1
      <4>2. q.schema = o.schema
        BY <1>4, <2>1, <4>1
      <4> QED
        BY <1>1, <2>4, <3>2, <4>2
    <3> QED
      BY <3>1, <3>2
  <2> QED
    BY <2>5, <2>6 DEF Kept
<1>6. ASSUME NEW q \in offers', NEW c \in Calls, Updates(c, q)', call'[c].state = "answered",
             q.id \notin crossedOffers'
      PROVE  Told(q, c)'
  <2>1. PICK o \in offers : SameOffer(o, q) /\ Updates(c, o) /\ (~WriteSchema(e) => q = o)
    BY <1>3, <1>6
  <2>2. q.id = o.id /\ o.schema \in Schemas /\ o.id \notin crossedOffers
    BY <1>1, <1>6, <2>1 DEF SameOffer, TypeInv, OfferRows
  <2>3. CASE c = e
    <3>1. ~WriteSchema(e) /\ call[c].todo = <<>>
      <4>1. ~Working(c)' /\ call'[c].state # "thrown" /\ call[c].op = "updateVendorProduct"
        BY <1>6, <2>1 DEF Working, Updates
      <4>2. Answer(c) /\ call[c].todo = <<>>
        BY <2>3, <4>1, OnlyUpdates
      <4> QED
        BY <2>3, <4>2 DEF Answer, WriteSchema, At
    <3>2. KeptInv /\ Working(c)
      BY <1>1, <2>3 DEF UpdateInv
    <3>3. o.schema[call[c].key] = c
      BY <2>1, <2>2, <3>1, <3>2 DEF KeptInv, Kept
    <3>4. q = o /\ c >= c
      BY <2>1, <3>1 DEF Calls
    <3> QED
      BY <1>1, <1>6, <3>3, <3>4 DEF Told
  <2>4. CASE c # e
    <3>1. call[c].state = "answered"
      BY <1>1, <1>6, <2>4
    <3>2. PICK d \in Calls : /\ d >= c /\ Updates(d, o) /\ call[d].key = call[c].key
                             /\ o.schema[call[c].key] = d
      BY <2>1, <2>2, <3>1 DEF UpdateInv, AnsweredInv, Told
    <3>3. CASE WriteSchema(e) /\ o.id = call[e].offer
      <4>1. At(e, "writeSchema") /\ call[e].todo # <<>>
        BY <3>3, AtSchema DEF WriteSchema, OnSchema
      <4>2. call[e].op = "updateVendorProduct"
        BY <4>1, AtSchema DEF OnSchema
      <4>3. Updates(e, o)
        BY <1>1, <3>3, <4>2 DEF Updates, Working
      <4>4. c <= e /\ call[e].schema = [o.schema EXCEPT ![call[e].key] = e]
        BY <1>1, <2>1, <2>2, <4>1, <4>3 DEF UpdateInv, KeptInv, Kept
      <4>5. q.schema = [o.schema EXCEPT ![call[e].key] = e]
        BY <1>4, <2>1, <3>3, <4>4
      <4>6. call[e].key \in SchemaKeys /\ call[c].key \in SchemaKeys
        BY <2>1, <4>3 DEF ScriptInv, Scripted, Updates
      <4>7. CASE call[e].key = call[c].key
        <5>1. q.schema[call[c].key] = e
          BY <2>2, <4>5, <4>6, <4>7 DEF Schemas
        <5>2. Updates(e, q)' /\ e >= c
          BY <1>2, <2>2, <4>3, <4>4 DEF Calls
        <5> QED
          BY <1>1, <4>7, <5>1, <5>2 DEF Told
      <4>8. CASE call[e].key # call[c].key
        <5>1. q.schema[call[c].key] = d
          BY <2>2, <3>2, <4>5, <4>6, <4>8 DEF Schemas
        <5>2. Updates(d, q)'
          BY <1>2, <2>2, <3>2
        <5> QED
          BY <1>1, <3>2, <5>1, <5>2 DEF Told
      <4> QED
        BY <4>7, <4>8
    <3>4. CASE ~(WriteSchema(e) /\ o.id = call[e].offer)
      <4>1. q.schema = o.schema
        BY <1>4, <2>1, <3>4
      <4>2. Updates(d, q)'
        BY <1>2, <2>2, <3>2
      <4> QED
        BY <1>1, <3>2, <4>1, <4>2 DEF Told
    <3> QED
      BY <3>3, <3>4
  <2> QED
    BY <2>3, <2>4
<1>7. NewInv'
  <2>1. NewInv
    BY DEF UpdateInv
  <2> QED
    BY <1>1, <2>1 DEF NewInv
<1>8. KeptInv'
  BY <1>5 DEF KeptInv, Kept
<1>9. AnsweredInv'
  BY <1>6 DEF AnsweredInv, Told
<1> QED
  BY <1>7, <1>8, <1>9 DEF UpdateInv

LEMMA UpdateStep ==
  TypeInv /\ ScriptInv /\ OfferInv /\ FreshInv /\ UpdateInv /\ [Next]_vars => UpdateInv'
<1> SUFFICES ASSUME TypeInv, ScriptInv, OfferInv, FreshInv, UpdateInv, [Next]_vars
             PROVE  UpdateInv'
  OBVIOUS
<1>1. CASE UNCHANGED vars
  <2>1. call' = call /\ offers' = offers /\ crossedOffers' = crossedOffers
    BY <1>1 DEF vars
  <2>2. \A c \in Calls, o \in offers : Updates(c, o)' <=> Updates(c, o)
    BY <2>1 DEF Updates
  <2>3. KeptInv'
    BY <2>1, <2>2 DEF UpdateInv, KeptInv, Kept, Working
  <2>4. AnsweredInv'
    BY <2>1, <2>2 DEF UpdateInv, AnsweredInv, Told
  <2> QED
    BY <2>1, <2>3, <2>4 DEF UpdateInv, NewInv
<1> QED
  BY <1>1, ChangeKeeps, StepKeeps DEF Next

LEMMA UpdateIsKept == TypeInv /\ UpdateInv => SchemaKept
<1> SUFFICES ASSUME TypeInv, UpdateInv, NEW o \in offers, NEW c \in Calls,
                    call[c].op = "updateVendorProduct", call[c].offer = o.id,
                    call[c].state = "answered", o.id \notin crossedOffers
             PROVE  o.schema[call[c].key] \in
                      {d \in c..MaxCalls : call[d].offer = o.id /\ call[d].key = call[c].key}
  BY DEF SchemaKept
<1>1. Updates(c, o)
  BY DEF Updates
<1>2. PICK d \in Calls : /\ d >= c /\ Updates(d, o) /\ call[d].key = call[c].key
                         /\ o.schema[call[c].key] = d
  BY <1>1 DEF UpdateInv, AnsweredInv, Told
<1>3. d \in c..MaxCalls
  BY <1>2, CatalogueAssumption DEF Calls
<1> QED
  BY <1>2, <1>3 DEF Updates

-----------------------------------------------------------------------------
(* The catalogue *)

AllInv ==
  /\ TypeInv /\ ScriptInv /\ VendorInv /\ ProductInv /\ OfferInv /\ FreshInv /\ PairInv
  /\ UpdateInv /\ OffersDistinct

LEMMA AllInit == Init => AllInv
BY TypeInit, ScriptInit, VendorInit, ProductInit, PairInit, UpdateInit, DistinctInit DEF AllInv

LEMMA AllStep == AllInv /\ [Next]_vars => AllInv'
<1> SUFFICES ASSUME AllInv, [Next]_vars PROVE AllInv'
  OBVIOUS
<1>1. /\ TypeInv /\ ScriptInv /\ VendorInv /\ ProductInv /\ OfferInv /\ FreshInv /\ PairInv
      /\ UpdateInv /\ OffersDistinct
  BY DEF AllInv
<1>2. TypeInv' /\ ScriptInv' /\ VendorInv' /\ ProductInv'
  BY <1>1, TypeStep, ScriptStep, VendorStep, ProductStep
<1>3. OfferInv' /\ FreshInv' /\ PairInv' /\ UpdateInv'
  BY <1>1, OfferStep, FreshStep, PairStep, UpdateStep
<1>4. OffersDistinct'
  BY <1>1, <1>3, DistinctStep
<1> QED
  BY <1>2, <1>3, <1>4 DEF AllInv

LEMMA Always == Spec => []AllInv
BY AllInit, AllStep, PTL DEF Spec

(* Whatever the administrators' calls and the seedings do to the catalogue,    *)
(* every row and every handler of admin/Product, admin/Vendor, admin/Bundle    *)
(* and the seedings holds what its columns and variables may.                *)
THEOREM CatalogueTypes == Spec => []TypeInv
<1>1. AllInv => TypeInv
  BY DEF AllInv
<1> QED
  BY <1>1, Always, PTL

(* The seedings, alone or at once, cut off or run again, offer a vendor's      *)
(* product or bundle once, but for a vendor given another's name.             *)
THEOREM OffersSeededOnce == Spec => []SeededOnce
<1>1. AllInv => SeededOnce
  BY SeededIsOnce DEF AllInv
<1> QED
  BY <1>1, Always, PTL

(* createVendorProduct looks for the offer before it adds it: a vendor has one *)
(* of a product or bundle, unless two calls that offer the product overlapped. *)
THEOREM OffersAreDistinct == Spec => []OffersDistinct
<1>1. AllInv => OffersDistinct
  BY DEF AllInv
<1> QED
  BY <1>1, Always, PTL

(* updateVendorProduct reads schemaData twice and writes it whole: what an     *)
(* answered update put there stays until another of the same key, unless two   *)
(* updates of the offer overlapped.                                          *)
THEOREM UpdatesKept == Spec => []SchemaKept
<1>1. AllInv => SchemaKept
  BY UpdateIsKept DEF AllInv
<1> QED
  BY <1>1, Always, PTL
=============================================================================
