------------------------------- MODULE Catalogue -------------------------------
(***************************************************************************)
(* The catalogue that vendor selection reads: vendors, products, bundles and  *)
(* the offers (rows of VendorProduct) that join them, under concurrent calls  *)
(* of administrators and of the two seedings.                                 *)
(*                                                                           *)
(* A handler is a script of single reads and writes of the database; none of  *)
(* them is in a transaction, and any of them may throw.  The seedings are      *)
(* loops, whose turns put the inner steps into the script.  A row is known by *)
(* the call that added it and by what it was added as.                        *)
(***************************************************************************)
EXTENDS Naturals, Sequences, Functions

CONSTANTS
  MaxCalls,      \* how many calls a behaviour has
  ProductCodes,  \* the products of electricity and airtime that are seeded, in order
  Networks,      \* the network providers whose bundles are, in their order
  None           \* no value

ASSUME CatalogueAssumption ==
  /\ MaxCalls \in Nat \ {0}
  /\ Networks \in Seq({"9MOBILE", "MTN", "GLO", "AIRTEL"})
  /\ \A i, j \in DOMAIN Networks : Networks[i] = Networks[j] => i = j
  /\ ProductCodes \in Seq(Range(ProductCodes))
  /\ \A i, j \in DOMAIN ProductCodes : ProductCodes[i] = ProductCodes[j] => i = j

ASSUME NoneAssumption == None \notin 1..MaxCalls

VARIABLES
  vendors,       \* rows of Vendor
  products,      \* rows of Product
  bundles,       \* rows of Bundle
  offers,        \* rows of VendorProduct
  call,          \* per call: the handler and what is left of its script
  renamed,       \* history: vendors that were renamed
  crossedPairs,  \* history: vendors and products whose offers were added at once
  crossedOffers  \* history: offers that were updated at once

history == <<renamed, crossedPairs, crossedOffers>>
vars    == <<vendors, products, bundles, offers, call, history>>

Calls == 1..MaxCalls

-----------------------------------------------------------------------------
(* The tables of utils/Constants.ts *)

Vendors     == <<"IRECHARGE", "BUYPOWERNG", "BAXI">>
VendorNames == Range(Vendors)

(* Each product of electricity and airtime is offered by every vendor. *)
SEED(product) == <<"BAXI", "BUYPOWERNG", "IRECHARGE">>

(* The vendors of a network's bundles: one bundle for each list that occurs,   *)
(* in the order of the first that has it.  Three of AIRTEL's bundles name a    *)
(* vendor BUYPOWER, which there is not.                                      *)
bundlesOf9MOBILE ==
  << <<"IRECHARGE", "BAXI", "BUYPOWERNG">>, <<"IRECHARGE", "BUYPOWERNG">>, <<"IRECHARGE">>,
     <<"IRECHARGE", "BAXI">>, <<"BAXI">>, <<"BAXI", "BUYPOWERNG">>, <<"BUYPOWERNG">> >>

bundlesOfAIRTEL ==
  << <<"IRECHARGE", "BAXI", "BUYPOWERNG">>, <<"IRECHARGE", "BAXI">>,
     <<"IRECHARGE", "BUYPOWERNG">>, <<"IRECHARGE">>, <<"BAXI">>, <<"BAXI", "BUYPOWER">>,
     <<"BUYPOWERNG">> >>

bundlesOfGLO ==
  << <<"IRECHARGE">>, <<"BAXI">>, <<"BAXI", "BUYPOWERNG">>, <<"BUYPOWERNG">> >>

bundlesOfMTN ==
  << <<"IRECHARGE", "BUYPOWERNG">>, <<"IRECHARGE">>, <<"IRECHARGE", "BAXI", "BUYPOWERNG">>,
     <<"IRECHARGE", "BAXI">>, <<"BAXI", "BUYPOWERNG">>, <<"BAXI">>, <<"BUYPOWERNG">> >>

SEED_DATA_WITH_BUNDLE_FLOW(network) ==
  CASE network = "9MOBILE" -> bundlesOf9MOBILE
    [] network = "AIRTEL"  -> bundlesOfAIRTEL
    [] network = "GLO"     -> bundlesOfGLO
    [] network = "MTN"     -> bundlesOfMTN

Codes == Range(ProductCodes) \cup Range(Networks)

(* The codes an administrator gives a bundle: a bound, and those that clash. *)
TypedBundles == {<<n, 1>> : n \in Range(Networks)}
SoldBy(bundle) == SEED_DATA_WITH_BUNDLE_FLOW(bundle[1])[bundle[2]]

(* A vendor's name as a row gets it when it is added, or as it was typed:      *)
(* capitalizeVendorName and trimVendorName run before a creation only.        *)
Spellings  == {"trimmed", "typed"}
Trim(name) == <<name[1], "trimmed">>

SchemaKeys == {"code", "datacode"}

-----------------------------------------------------------------------------
(* The handlers, as scripts *)

On(do, what) == [do |-> do, what |-> what]

createVendor(name)  == <<On("refuseVendor", name), On("addVendor", name)>>
updateVendor(name)  == <<On("refuseVendor", name), On("renameVendor", name)>>
createProduct(code) == <<On("refuseProduct", code), On("addProduct", code)>>
updateProduct(code) == <<On("refuseProduct", code), On("renameProduct", code)>>
addNewBundle(bundle) == <<On("addBundle", bundle)>>

(* Slip: nobody looks whether the vendor has an offer of the product. *)
createUnseen(vendor) == <<On("addOffer", vendor)>>

createVendorProduct(vendor) == <<On("refuseOffer", vendor), On("addOffer", vendor)>>
updateVendorProduct(key)    == <<On("readSchema", key), On("writeSchema", key)>>

offersOf(names) == [i \in DOMAIN names |-> On("addOffer", names[i])]

(* A turn of a seeding's loops, once the script of the last one is done: over  *)
(* the vendors, the products and a product's bundles.                         *)
seedDataToDb(h) ==
  IF h.viewed < Len(Vendors) THEN On("viewVendor", Vendors[h.viewed + 1])
  ELSE IF h.next < Len(ProductCodes) THEN On("addProduct", ProductCodes[h.next + 1])
  ELSE On("answer", None)

seedDataBundlesToDb(h) ==
  IF h.viewed < Len(Vendors) THEN On("needVendor", Vendors[h.viewed + 1])
  ELSE IF h.next > 0 /\ h.nth < Len(SEED_DATA_WITH_BUNDLE_FLOW(Networks[h.next]))
       THEN On("addBundle", <<Networks[h.next], h.nth + 1>>)
  ELSE IF h.next < Len(Networks) THEN On("addProduct", Networks[h.next + 1])
  ELSE On("answer", None)

(* What a handler does next. *)
NextOf(h) ==
  IF h.todo # <<>> THEN Head(h.todo)
  ELSE IF h.op = "seedDataToDb" THEN seedDataToDb(h)
  ELSE IF h.op = "seedDataBundlesToDb" THEN seedDataBundlesToDb(h)
  ELSE On("answer", None)

Seeding == {"seedDataToDb", "seedDataBundlesToDb"}
Adding  == Seeding \cup {"createVendorProduct"}

NoDocs == [n \in VendorNames |-> None]
Bare   == [k \in SchemaKeys |-> None]

(* The rows *)
VendorRow(id, name)  == [id |-> id, name |-> name]
ProductRow(id, code) == [id |-> id, code |-> code]
BundleRow(id, code)  == [id |-> id, code |-> code]
OfferRow(id, vendor, product, bundle, schema) ==
  [id |-> id, by |-> id[1], vendor |-> vendor, product |-> product,
   bundle |-> bundle, schema |-> schema]

Idle == [op |-> None, state |-> "new", todo |-> <<>>, docs |-> NoDocs, product |-> None,
         bundle |-> None, offer |-> None, schema |-> Bare, key |-> None,
         viewed |-> 0, next |-> 0, nth |-> 0]

(* A handler with the rows it works on: vendors, a product, a bundle, an offer. *)
Handler(op, todo, docs, product, bundle) ==
  [Idle EXCEPT !.op = op, !.state = "working", !.todo = todo,
               !.docs = docs, !.product = product, !.bundle = bundle]

Working(c) == call[c].state = "working"

-----------------------------------------------------------------------------
(* Handlers begin *)

Begin(c, handler) ==
  /\ call[c].state = "new" /\ \A d \in 1..(c - 1) : call[d].state # "new"
  /\ call' = [call EXCEPT ![c] = handler]
  /\ UNCHANGED <<vendors, products, bundles, offers>>

(* createVendor, createProduct, addNewBundle and the two seedings.  A bundle   *)
(* names its product, which is not looked up, and vendors that are there.     *)
Create(c) ==
  /\ UNCHANGED history
  /\ \/ \E n \in VendorNames, s \in Spellings :
          Begin(c, Handler("createVendor", createVendor(<<n, s>>), NoDocs, None, None))
     \/ \E p \in Codes :
          Begin(c, Handler("createProduct", createProduct(p), NoDocs, None, None))
     \/ \E b \in TypedBundles :
          /\ vendors # {}
          /\ Begin(c, Handler("addNewBundle", addNewBundle(b), NoDocs, None, None))
     \/ Begin(c, Handler("seedDataToDb", <<>>, NoDocs, None, None))
     \/ Begin(c, Handler("seedDataBundlesToDb", <<>>, NoDocs, None, None))

(* updateVendor and updateProduct. *)
Rename(c) ==
  /\ UNCHANGED history
  /\ \/ \E v \in vendors, n \in VendorNames, s \in Spellings :
          Begin(c, Handler("updateVendor", updateVendor(<<n, s>>),
                           [NoDocs EXCEPT ![v.id[2]] = v.id], None, None))
     \/ \E p \in products, code \in Codes :
          Begin(c, Handler("updateProduct", updateProduct(code), NoDocs, p.id, None))

(* createVendorProduct: the vendor, the product and, for a data product, a     *)
(* bundle are there.                                                         *)
CreateOffer(c) ==
  \E v \in vendors, p \in products :
    /\ \E b \in IF p.id[2] \in Range(Networks) THEN {x.id : x \in bundles} ELSE {None} :
         Begin(c, Handler("createVendorProduct", createVendorProduct(v.id[2]),
                          [NoDocs EXCEPT ![v.id[2]] = v.id], p.id, b))
    /\ crossedPairs' =
         IF \E d \in Calls : Working(d) /\ call[d].op \in Adding /\ call[d].product = p.id
         THEN crossedPairs \cup {<<v.id, p.id>>} ELSE crossedPairs
    /\ UNCHANGED <<renamed, crossedOffers>>

(* `{ ...old, ...new }` *)
Overwrite(old, new) == new
Merge(old, new) == [k \in SchemaKeys |-> IF new[k] # None THEN new[k] ELSE old[k]]

(* updateVendorProduct: what the controller read, with the key it is given. *)
UpdateOffer(c) ==
  \E o \in offers, k \in SchemaKeys :
    /\ Begin(c, [Handler("updateVendorProduct", updateVendorProduct(k), NoDocs, None, None)
                 EXCEPT !.offer = o.id, !.key = k,
                        !.schema = Merge(o.schema, [Bare EXCEPT ![k] = c])])
    /\ crossedOffers' =
         IF \E d \in Calls : Working(d) /\ call[d].offer = o.id
         THEN crossedOffers \cup {o.id} ELSE crossedOffers
    /\ UNCHANGED <<renamed, crossedPairs>>

-----------------------------------------------------------------------------
(* Steps *)

At(c, step) == Working(c) /\ NextOf(call[c]).do = step
What(c)     == NextOf(call[c]).what

Pass(c)   == call' = [call EXCEPT ![c].todo = Tail(@)]
Finish(c) == call' = [call EXCEPT ![c].state = "refused"]

VendorNamed(name) == {v \in vendors : v.name = name}
ProductWith(code) == {p \in products : p.code = code}

(* "... already exists" *)
Refuse(c) ==
  /\ \/ /\ At(c, "refuseVendor")
        /\ IF VendorNamed(What(c)) # {} THEN Finish(c) ELSE Pass(c)
     \/ /\ At(c, "refuseProduct")
        /\ IF ProductWith(What(c)) # {} THEN Finish(c) ELSE Pass(c)
     \/ /\ At(c, "refuseOffer")
        /\ IF \E o \in offers : /\ o.vendor = call[c].docs[What(c)]
                                /\ o.product = call[c].product
           THEN Finish(c) ELSE Pass(c)
  /\ UNCHANGED <<vendors, products, bundles, offers, history>>

(* The seedings look the vendors up: one adds those that are not there, the    *)
(* other throws.                                                             *)
ViewVendor(c) ==
  LET found == VendorNamed(<<What(c), "trimmed">>)
  IN /\ \/ /\ At(c, "viewVendor") \/ At(c, "needVendor")
           /\ \E v \in found :
                call' = [call EXCEPT ![c].docs[What(c)] = v.id, ![c].viewed = @ + 1]
        \/ /\ At(c, "viewVendor") /\ found = {}
           /\ call' = [call EXCEPT ![c].todo = <<On("addVendor", <<What(c), "trimmed">>)>>,
                                  ![c].viewed = @ + 1]
        \/ At(c, "needVendor") /\ found = {} /\ Finish(c)
     /\ UNCHANGED <<vendors, products, bundles, offers, history>>

(* Vendor.name, Product.masterProductCode and Bundle.bundleCode are unique: a  *)
(* second row is refused by the database.                                    *)
AddVendor(c) ==
  LET name == Trim(What(c))
      id   == <<c, name[1]>>
  IN /\ At(c, "addVendor")
     /\ IF VendorNamed(name) # {} THEN Finish(c) /\ UNCHANGED vendors
        ELSE /\ vendors' = vendors \cup {VendorRow(id, name)}
             /\ call' = [call EXCEPT ![c].docs[name[1]] = id, ![c].todo = Tail(@)]
     /\ UNCHANGED <<products, bundles, offers, history>>

(* A product's loop begins: a seeding's offers of it are next, or its bundles. *)
Take(c, id) ==
  [call EXCEPT ![c].product = id, ![c].bundle = None, ![c].next = @ + 1, ![c].nth = 0,
               ![c].todo = IF call[c].op = "seedDataToDb" THEN offersOf(SEED(What(c))) ELSE <<>>]

(* Slip: a product that is there is used again. *)
AddOrUse(c) ==
  LET id == <<c, What(c)>>
  IN /\ At(c, "addProduct")
     /\ \/ \E p \in ProductWith(What(c)) : call' = Take(c, p.id) /\ UNCHANGED products
        \/ /\ ProductWith(What(c)) = {}
           /\ products' = products \cup {ProductRow(id, What(c))}
           /\ call' = Take(c, id)
     /\ UNCHANGED <<vendors, bundles, offers, history>>

AddProduct(c) ==
  LET id == <<c, What(c)>>
  IN /\ At(c, "addProduct")
     /\ IF ProductWith(What(c)) # {} THEN Finish(c) /\ UNCHANGED products
        ELSE /\ products' = products \cup {ProductRow(id, What(c))}
             /\ call' = Take(c, id)
     /\ UNCHANGED <<vendors, bundles, offers, history>>

(* A seeding takes the ids of a bundle's vendors from those it looked up: a    *)
(* name that is not among them is a TypeError.                               *)
AddBundle(c) ==
  LET id      == <<c, What(c)>>
      unknown == call[c].op \in Seeding /\ ~(Range(SoldBy(What(c))) \subseteq VendorNames)
  IN /\ At(c, "addBundle")
     /\ IF unknown \/ \E b \in bundles : b.code = What(c) THEN Finish(c) /\ UNCHANGED bundles
        ELSE /\ bundles' = bundles \cup {BundleRow(id, What(c))}
             /\ call' = [call EXCEPT ![c].bundle = id, ![c].nth = @ + 1,
                           ![c].todo = IF call[c].op \in Seeding THEN offersOf(SoldBy(What(c)))
                                       ELSE <<>>]
     /\ UNCHANGED <<vendors, products, offers, history>>

(* No constraint joins a vendor and a product.  schemaData has a code, and in  *)
(* the seeding of bundles a datacode.                                        *)
AddOffer(c) ==
  LET vendor == call[c].docs[What(c)]
      schema == [Bare EXCEPT !["code"] = c,
                             !["datacode"] = IF call[c].op = "seedDataBundlesToDb" THEN c ELSE @]
  IN /\ At(c, "addOffer")
     /\ offers' = offers \cup {OfferRow(<<c, What(c), call[c].product, call[c].bundle>>,
                                    vendor, call[c].product, call[c].bundle, schema)}
     /\ Pass(c)
     /\ UNCHANGED <<vendors, products, bundles, history>>

(* A row is updated by its id; a name or code that is taken is refused. *)
RenameVendor(c) ==
  /\ At(c, "renameVendor")
  /\ IF VendorNamed(What(c)) # {} THEN Finish(c) /\ UNCHANGED <<vendors, renamed>>
     ELSE /\ vendors' = {IF v.id = call[c].docs[v.id[2]] THEN [v EXCEPT !.name = What(c)]
                         ELSE v : v \in vendors}
          /\ renamed' = renamed \cup {v.id : v \in {w \in vendors : w.id = call[c].docs[w.id[2]]}}
          /\ Pass(c)
  /\ UNCHANGED <<products, bundles, offers, crossedPairs, crossedOffers>>

RenameProduct(c) ==
  /\ At(c, "renameProduct")
  /\ IF ProductWith(What(c)) # {} THEN Finish(c) /\ UNCHANGED products
     ELSE /\ products' = {IF p.id = call[c].product THEN [p EXCEPT !.code = What(c)]
                          ELSE p : p \in products}
          /\ Pass(c)
  /\ UNCHANGED <<vendors, bundles, offers, history>>

(* The service reads the row again and merges the controller's copy into it;  *)
(* the write replaces the whole column.                                      *)
ReadSchema(c) ==
  /\ At(c, "readSchema")
  /\ \E o \in offers :
       /\ o.id = call[c].offer
       /\ call' = [call EXCEPT ![c].schema = Merge(o.schema, @), ![c].todo = Tail(@)]
  /\ UNCHANGED <<vendors, products, bundles, offers, history>>

WriteSchema(c) ==
  /\ At(c, "writeSchema")
  /\ offers' = {IF o.id = call[c].offer THEN [o EXCEPT !.schema = call[c].schema]
                ELSE o : o \in offers}
  /\ Pass(c)
  /\ UNCHANGED <<vendors, products, bundles, history>>

Answer(c) ==
  /\ At(c, "answer")
  /\ call' = [call EXCEPT ![c].state = "answered"]
  /\ UNCHANGED <<vendors, products, bundles, offers, history>>

(* Any await may throw: what was written stays. *)
Throw(c) ==
  /\ Working(c)
  /\ call' = [call EXCEPT ![c].state = "thrown"]
  /\ UNCHANGED <<vendors, products, bundles, offers, history>>

-----------------------------------------------------------------------------

Init ==
  /\ vendors = {} /\ products = {} /\ bundles = {} /\ offers = {}
  /\ call = [c \in Calls |-> Idle]
  /\ renamed = {} /\ crossedPairs = {} /\ crossedOffers = {}

Start(c) == Create(c) \/ Rename(c) \/ CreateOffer(c) \/ UpdateOffer(c)

Step(c) ==
  \/ Refuse(c) \/ ViewVendor(c)
  \/ AddVendor(c) \/ AddProduct(c) \/ AddBundle(c) \/ AddOffer(c)
  \/ RenameVendor(c) \/ RenameProduct(c) \/ ReadSchema(c) \/ WriteSchema(c)
  \/ Answer(c) \/ Throw(c)

Next == \E c \in Calls : Start(c) \/ Step(c)

Spec == Init /\ [][Next]_vars

-----------------------------------------------------------------------------
(* Safety *)

Alike(o, q) == o.vendor = q.vendor /\ o.product = q.product /\ o.bundle = q.bundle

(* Whatever overlaps or is cut off, the seedings offer a vendor's product or   *)
(* bundle once: vendors and products are looked up and added in separate      *)
(* awaits, and offers have no constraint of their own.  Not so a vendor that   *)
(* was given another one's name: a seeding takes it for both.                 *)
SeededOnce ==
  \A o, q \in offers :
    /\ Alike(o, q) /\ o.vendor \notin renamed
    /\ call[o.by].op \in Seeding /\ call[q.by].op \in Seeding
    => o = q

(* A vendor has one offer of a product, or of a bundle, unless two of them     *)
(* were added at once, or the vendor was given another one's name: the lookup  *)
(* and the addition are two awaits, and no constraint stands behind them.     *)
OffersDistinct ==
  \A o, q \in offers :
    /\ Alike(o, q) /\ o.vendor \notin renamed
    /\ <<o.vendor, o.product>> \notin crossedPairs
    => o = q

(* What an answered update put in an offer's schemaData is there until an      *)
(* update of the same key, unless updates of the offer overlapped: the column  *)
(* is read twice and written whole.                                          *)
SchemaKept ==
  \A o \in offers, c \in Calls :
    /\ call[c].op = "updateVendorProduct" /\ call[c].offer = o.id
    /\ call[c].state = "answered"
    /\ o.id \notin crossedOffers
    => o.schema[call[c].key] \in
         {d \in c..MaxCalls : call[d].offer = o.id /\ call[d].key = call[c].key}
=============================================================================
