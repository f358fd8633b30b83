------------------------ MODULE DesktopInTurnProofs -------------------------
(***************************************************************************)
(* Proof that the desktop's request handlers keep all the checks they make *)
(* as long as no request begins before the one ahead of it has answered:   *)
(* what goes wrong with them goes wrong only through an interleaving.      *)
(* The facts about the records and about the calls under way come from     *)
(* DesktopHandlersProofs.                                                  *)
(***************************************************************************)
EXTENDS DesktopHandlersProofs

\* The provers tried in turn at a leaf that names none.
USE SMT, Zenon, SMTT(20)

OneAtATime(wk) == \A v, w \in Workers : wk[v] # << >> /\ wk[w] # << >> => v = w

\* What the club's handlers have looked up before their calls: the phone of a new
\* customer is new, a payment is not paid yet, and a group that goes is left first
\* by every customer in it.
TurnClubCall(r, s, i) ==
  /\ s[i].kind = "customer" /\ r["customer"][s[i].id] = Missing =>
       /\ Len(s) = 1 /\ {"phone", "group"} \subseteq DOMAIN s[i].fields
       /\ \A x \in Ids : r["customer"][x].live = "yes" => r["customer"][x].f["phone"] # s[i].fields["phone"]
  /\ s[i].kind = "customer" /\ r["customer"][s[i].id].live = "yes" => "phone" \notin DOMAIN s[i].fields
  /\ s[i].kind = "membership_payment" =>
       /\ i = 1
       /\ LET f == r["membership_payment"][s[i].id].f IN ~("status" \in DOMAIN f /\ f["status"] = "paid")
  /\ s[i].op = "delete" =>
       /\ \A j \in 1..(i - 1) : s[j].op = "save" /\ s[j].kind = "customer" /\ s[j].fields = [group |-> NoGroup]
       /\ \A x \in Ids : r["customer"][x].live = "yes" /\ r["customer"][x].f["group"] = s[i].id =>
                           \E j \in 1..(i - 1) : s[j].id = x

CustomersWhole(r) ==
  \A x \in Ids : r["customer"][x].live = "yes" => {"phone", "group"} \subseteq DOMAIN r["customer"][x].f

PhonesDiffer(r) ==
  \A x, y \in Ids : r["customer"][x].live = "yes" /\ r["customer"][y].live = "yes" /\ x # y =>
    r["customer"][x].f["phone"] # r["customer"][y].f["phone"]

TurnClub(r, wk) ==
  /\ OneAtATime(wk) /\ CustomersWhole(r) /\ PhonesDiffer(r)
  /\ \A w \in Workers : \A i \in DOMAIN wk[w] : TurnClubCall(r, wk[w], i)

SettingsKinds == {"cafe_profile", "category", "printer", "printer_route"}

\* A route is saved for the category it is for already, or is its category's first.
TurnSettingsCall(r, s, i) ==
  /\ Len(s) = 1
  /\ s[i].kind = "printer_route" /\ s[i].op = "save" =>
       \/ /\ r["printer_route"][s[i].id].live = "yes"
          /\ "category" \in DOMAIN s[i].fields =>
               s[i].fields["category"] = r["printer_route"][s[i].id].f["category"]
       \/ /\ r["printer_route"][s[i].id] = Missing
          /\ "category" \in DOMAIN s[i].fields
          /\ \A x \in Ids : r["printer_route"][x].live = "yes" =>
                              r["printer_route"][x].f["category"] # s[i].fields["category"]

RoutesWhole(r) ==
  \A x \in Ids : r["printer_route"][x].live = "yes" => "category" \in DOMAIN r["printer_route"][x].f

RoutesDiffer(r) ==
  \A x, y \in Ids : r["printer_route"][x].live = "yes" /\ r["printer_route"][y].live = "yes" /\ x # y =>
    r["printer_route"][x].f["category"] # r["printer_route"][y].f["category"]

TurnSettings(r, wk) ==
  /\ OneAtATime(wk) /\ RoutesWhole(r) /\ RoutesDiffer(r)
  /\ \A w \in Workers : \A i \in DOMAIN wk[w] : TurnSettingsCall(r, wk[w], i)

TitleOf(r, k) ==
  IF "title" \in DOMAIN r["ingredient_category"][k].f THEN r["ingredient_category"][k].f["title"] ELSE ""

\* A category of the stock that is about to go is named by no ingredient.
TurnCatalogCall(r, s, i) ==
  /\ s[i].kind = "ingredient" /\ s[i].op = "save" => "category" \in DOMAIN s[i].fields
  /\ s[i].kind = "ingredient_category" =>
       /\ s[i].op = "delete" /\ Len(s) = 1
       /\ \A x \in Ids : r["ingredient"][x].live = "yes" =>
                           r["ingredient"][x].f["category"] # TitleOf(r, s[i].id)

IngredientsWhole(r) ==
  \A x \in Ids : r["ingredient"][x].live = "yes" => "category" \in DOMAIN r["ingredient"][x].f

TurnCatalog(r, wk) ==
  /\ OneAtATime(wk) /\ IngredientsWhole(r)
  /\ \A w \in Workers : \A i \in DOMAIN wk[w] : TurnCatalogCall(r, wk[w], i)

LEMMA BeginsInTurn ==
  ASSUME Queues(work), NEW w \in Workers, NEW s, IsSeq(s), NEW kinds, Begin(w, s, kinds), clean' = "yes"
  PROVE  /\ work'[w] = s /\ records' = records /\ clean = "yes"
         /\ \A v \in Workers : v # w => DOMAIN work'[v] = {}
         /\ \A k \in kinds : Entities(k) = Live(k)
         /\ OneAtATime(work')
<1>1. /\ work' = [work EXCEPT ![w] = s] /\ records' = records
      /\ clean = "yes" /\ (\A v \in Workers : Idle(v)) /\ \A k \in kinds : Entities(k) = Live(k)
  BY DEF Begin
<1>2. work'[w] = s /\ \A v \in Workers : v # w => work'[v] = work[v]
  BY Zenon, <1>1, QueueChange
<1>3. \A v \in Workers : v # w => work'[v] = << >>
  BY <1>1, <1>2 DEF Idle
<1> QED
  BY <1>1, <1>2, <1>3, NoCalls DEF OneAtATime

\* While one request is served, the calls that remain after one of them are its own.
LEMMA ServedInTurn ==
  ASSUME NEW K, RecordsInv(records, work, K), NEW w \in Workers, StoreCall(w), OneAtATime(work)
  PROVE  /\ OneAtATime(work')
         /\ \A v \in Workers : v # w => DOMAIN work'[v] = {}
<1>1. 1 \in DOMAIN work[w] /\ \A v \in Workers : v # w => work'[v] = work[v]
  BY StoreCallDoes
<1>2. work[w] # << >>
  BY <1>1, NoCalls
<1>3. \A v \in Workers : v # w => work'[v] = << >>
  BY <1>1, <1>2 DEF OneAtATime
<1> QED
  BY <1>3, NoCalls DEF OneAtATime

LEMMA OneTurnSave ==
  ASSUME NEW kind, NEW id, NEW fields, NEW must,
         kind = "customer" /\ records["customer"][id] = Missing =>
           /\ {"phone", "group"} \subseteq DOMAIN fields
           /\ \A x \in Ids : records["customer"][x].live = "yes" => records["customer"][x].f["phone"] # fields["phone"],
         kind = "customer" /\ records["customer"][id].live = "yes" => "phone" \notin DOMAIN fields,
         kind = "membership_payment" => records["membership_payment"][id] = Missing
  PROVE  LET s == <<Save(kind, id, fields, must)>>
         IN IsSeq(s) /\ \A i \in DOMAIN s : TurnClubCall(records, s, i)
<1> DEFINE c == Save(kind, id, fields, must)
<1>1. c.op = "save" /\ c.kind = kind /\ c.id = id /\ c.fields = fields
  BY ONLY SaveIs
<1> HIDE DEF c
<1>2. IsSeq(<<c>>) /\ DOMAIN <<c>> = {1} /\ <<c>>[1] = c /\ Len(<<c>>) = 1
  BY OneCall
<1>3. DOMAIN Missing.f = {}
  BY NoCalls DEF Missing, NoFields
<1>4. TurnClubCall(records, <<c>>, 1)
  BY <1>1, <1>2, <1>3 DEF TurnClubCall
<1> QED
  BY Zenon, <1>2, <1>4 DEF c

\* A phone that no listed customer has is new when the listing is complete.
LEMMA PhoneIsNew ==
  ASSUME CustomersWhole(records), Entities("customer") = Live("customer"), NEW p, WithPhone(p) = {}
  PROVE  \A x \in Ids : records["customer"][x].live = "yes" => records["customer"][x].f["phone"] # p
<1> SUFFICES ASSUME NEW x \in Ids, records["customer"][x].live = "yes", records["customer"][x].f["phone"] = p
             PROVE  FALSE
  OBVIOUS
<1>1. x \in Entities("customer")
  BY DEF Live, IsLive
<1>2. Field("customer", x, "phone") = p
  BY Zenon DEF CustomersWhole, Field
<1> QED
  BY <1>1, <1>2 DEF WithPhone

LEMMA ListedWhole ==
  ASSUME NEW w, NEW s, NEW kinds, Begin(w, s, kinds), clean' = "yes", NEW k \in kinds
  PROVE  Entities(k) = Live(k)
BY DEF Begin

LEMMA ClubTurnBegins ==
  ASSUME TurnClub(records, work), PayersLive(records), NEW w \in Workers, ClubRequest(w), clean' = "yes"
  PROVE  \E s, kinds : Begin(w, s, kinds) /\ IsSeq(s) /\ \A i \in DOMAIN s : TurnClubCall(records, s, i)
<1>0. Missing.live # "yes" /\ CustomersWhole(records)
  BY DEF Missing, TurnClub
<1>1. CASE NewCustomer(w)
  <2>1. PICK p \in Phones, g \in KnownGroups \cup {NoGroup}, m \in {"true", "false"}, id \in Fresh("customer") :
          /\ WithPhone(p) = {}
          /\ Begin(w, <<Save("customer", id, [phone |-> p, group |-> g, credit |-> "false", member |-> m], "yes")>>,
                   {"customer"})
    BY ZenonT(30), <1>1 DEF NewCustomer
  <2> DEFINE f == [phone |-> p, group |-> g, credit |-> "false", member |-> m]
  <2>2. {"phone", "group"} \subseteq DOMAIN f /\ f["phone"] = p
    OBVIOUS
  <2> HIDE DEF f
  <2>3. Begin(w, <<Save("customer", id, f, "yes")>>, {"customer"})
    BY <2>1 DEF f
  <2>4. Entities("customer") = Live("customer")
    BY <2>3, ListedWhole
  <2>5. \A x \in Ids : records["customer"][x].live = "yes" => records["customer"][x].f["phone"] # f["phone"]
    BY Zenon, <1>0, <2>1, <2>2, <2>4, PhoneIsNew
  <2>6. records["customer"][id] = Missing
    BY FreshIs
  <2> QED
    BY ZenonT(30), <1>0, <2>2, <2>3, <2>5, <2>6, OneTurnSave
\* The calls that save one customer who is there, without the phone.
<1>2. ASSUME NEW c \in Customers, NEW f, "phone" \notin DOMAIN f, NEW must, NEW kinds,
             Begin(w, <<Save("customer", c, f, must)>>, kinds)
      PROVE  \E s, ks : Begin(w, s, ks) /\ IsSeq(s) /\ \A i \in DOMAIN s : TurnClubCall(records, s, i)
  <2>1. records["customer"][c] # Missing
    BY LiveIsKnown DEF Customers
  <2> QED
    BY Zenon, <1>2, <2>1, OneTurnSave
<1>3. CASE EditCustomer(w)
  <2>1. PICK c \in Customers, g \in KnownGroups \cup {NoGroup}, credit \in {"true", "false"} :
          Begin(w, <<Save("customer", c, [group |-> g, credit |-> credit], "yes")>>, {})
    BY <1>3 DEF EditCustomer
  <2>2. "phone" \notin DOMAIN [group |-> g, credit |-> credit]
    BY Zenon
  <2> QED
    BY ZenonT(30), <1>2, <2>1, <2>2
<1>4. CASE handleClubCreditToggle(w)
  <2>1. PICK c \in Customers :
          Begin(w, <<Save("customer", c, [credit |-> Opposite(Field("customer", c, "credit"))], "yes")>>, {})
    BY <1>4 DEF handleClubCreditToggle
  <2>2. "phone" \notin DOMAIN [credit |-> Opposite(Field("customer", c, "credit"))]
    OBVIOUS
  <2> QED
    BY Zenon, <1>2, <2>1, <2>2
<1>5. CASE handleClubGroupMemberRemove(w)
  <2>1. PICK c \in Customers : Begin(w, <<Save("customer", c, [group |-> NoGroup], "yes")>>, {})
    BY <1>5 DEF handleClubGroupMemberRemove
  <2>2. "phone" \notin DOMAIN [group |-> NoGroup]
    OBVIOUS
  <2> QED
    BY Zenon, <1>2, <2>1, <2>2
<1>6. CASE handleClubGroupMember(w)
  <2>1. PICK g \in KnownGroups, p \in Phones :
          \/ \E c \in WithPhone(p) : Begin(w, <<Save("customer", c, [group |-> g], "yes")>>, {"customer"})
          \/ \E id \in Fresh("customer") :
               /\ WithPhone(p) = {}
               /\ Begin(w, <<Save("customer", id, [phone |-> p, group |-> g, member |-> "true"], "yes")>>, {"customer"})
    BY Zenon, <1>6 DEF handleClubGroupMember
  <2>2. ASSUME NEW c \in WithPhone(p), Begin(w, <<Save("customer", c, [group |-> g], "yes")>>, {"customer"})
        PROVE  \E s, ks : Begin(w, s, ks) /\ IsSeq(s) /\ \A i \in DOMAIN s : TurnClubCall(records, s, i)
    <3>1. c \in Customers
      BY DEF WithPhone, Entities, Customers
    <3>2. "phone" \notin DOMAIN [group |-> g]
      OBVIOUS
    <3> QED
      BY ZenonT(30), <1>2, <2>2, <3>1, <3>2
  <2>3. ASSUME NEW id \in Fresh("customer"), WithPhone(p) = {},
               Begin(w, <<Save("customer", id, [phone |-> p, group |-> g, member |-> "true"], "yes")>>, {"customer"})
        PROVE  \E s, ks : Begin(w, s, ks) /\ IsSeq(s) /\ \A i \in DOMAIN s : TurnClubCall(records, s, i)
    <3> DEFINE f == [phone |-> p, group |-> g, member |-> "true"]
    <3>1. {"phone", "group"} \subseteq DOMAIN f /\ f["phone"] = p
      OBVIOUS
    <3> HIDE DEF f
    <3>2. Begin(w, <<Save("customer", id, f, "yes")>>, {"customer"})
      BY <2>3 DEF f
    <3>3. Entities("customer") = Live("customer")
      BY <3>2, ListedWhole
    <3>4. \A x \in Ids : records["customer"][x].live = "yes" => records["customer"][x].f["phone"] # f["phone"]
      BY Zenon, <1>0, <2>3, <3>1, <3>3, PhoneIsNew
    <3>5. records["customer"][id] = Missing
      BY FreshIs
    <3> QED
      BY ZenonT(30), <1>0, <3>1, <3>2, <3>4, <3>5, OneTurnSave
  <2> QED
    BY Zenon, <2>1, <2>2, <2>3
<1>7. CASE handleClubPayment(w)
  <2>1. PICK c \in Customers, id \in Fresh("membership_payment") :
          Begin(w, <<Save("membership_payment", id, [customer |-> c, status |-> "pending"], "yes")>>, {})
    BY <1>7 DEF handleClubPayment
  <2>2. records["membership_payment"][id] = Missing
    BY FreshIs
  <2> QED
    BY Zenon, <2>1, <2>2, OneTurnSave
<1>8. ASSUME NEW id, NEW f, NEW must, NEW kinds, Begin(w, <<Save("customer_group", id, f, must)>>, kinds)
      PROVE  \E s, ks : Begin(w, s, ks) /\ IsSeq(s) /\ \A i \in DOMAIN s : TurnClubCall(records, s, i)
  BY Zenon, <1>8, OneTurnSave
<1>9. CASE handleClubGroup(w) \/ handleClubGroupToggle(w) \/ handleClubGroupCredit(w)
  BY Zenon, <1>8, <1>9 DEF handleClubGroup, handleClubGroupToggle, handleClubGroupCredit
<1>10. CASE handleClubPaymentConfirm(w)
  <2>1. PICK p \in Live("membership_payment"), ref \in References :
          /\ Field("membership_payment", p, "status") = "pending"
          /\ Begin(w, << Save("membership_payment", p, [status |-> "paid", ref |-> ref], "yes"),
                         Save("customer", Field("membership_payment", p, "customer"), [member |-> "true"], "no") >>, {})
    BY <1>10 DEF handleClubPaymentConfirm
  <2> DEFINE x == Field("membership_payment", p, "customer")
             d == Save("membership_payment", p, [status |-> "paid", ref |-> ref], "yes")
             e == Save("customer", x, [member |-> "true"], "no")
  <2>2. p \in Ids /\ records["membership_payment"][p].live = "yes"
    BY LiveIsKnown
  <2>3. records["customer"][x].live = "yes"
    BY Zenon, <2>2 DEF PayersLive, Field
  <2> HIDE DEF x
  <2>4. d.op = "save" /\ d.kind = "membership_payment" /\ d.id = p
    BY ONLY SaveIs
  <2>5. e.op = "save" /\ e.kind = "customer" /\ e.id = x /\ e.fields = [member |-> "true"]
    BY ONLY SaveIs
  <2>6. Begin(w, <<d, e>>, {})
    BY <2>1 DEF x
  <2> HIDE DEF d, e
  <2>7. IsSeq(<<d, e>>) /\ DOMAIN <<d, e>> = {1, 2} /\ <<d, e>>[1] = d /\ <<d, e>>[2] = e
    BY TwoCalls
  <2>8. LET f == records["membership_payment"][p].f IN ~("status" \in DOMAIN f /\ f["status"] = "paid")
    BY Zenon, <2>1 DEF Field
  <2>9. "phone" \notin DOMAIN e.fields
    BY <2>5
  <2>10. TurnClubCall(records, <<d, e>>, 1)
    BY Zenon, <2>4, <2>7, <2>8 DEF TurnClubCall
  <2>11. TurnClubCall(records, <<d, e>>, 2)
    BY Zenon, <1>0, <2>3, <2>5, <2>7, <2>9 DEF TurnClubCall
  <2> QED
    BY ZenonT(30), <2>6, <2>7, <2>10, <2>11
<1>11. CASE handleClubGroupDelete(w)
  <2>1. PICK g \in KnownGroups :
          \E ms \in InOrder(GroupMembers(g)) : Begin(w, DeletionCalls(ms, g), {"customer"})
    BY Zenon, <1>11 DEF handleClubGroupDelete, GroupMembers, DeletionCalls
  <2>2. PICK ms \in InOrder(GroupMembers(g)) : Begin(w, DeletionCalls(ms, g), {"customer"})
    BY <2>1
  <2> DEFINE M == GroupMembers(g)
             n == Cardinality(M)
             s == DeletionCalls(ms, g)
  <2>3. g \in Ids
    BY DEF KnownGroups, Known
  <2>4. /\ n \in Nat /\ IsSeq(s) /\ DOMAIN s = 1..(n + 1)
        /\ \A i \in 1..n : ms[i] \in M /\ s[i] = Save("customer", ms[i], [group |-> NoGroup], "no")
        /\ s[n + 1] = Delete("customer_group", g)
        /\ \A x \in M : \E i \in 1..n : ms[i] = x
    BY <2>3, GroupDeleteCalls
  <2>5. Entities("customer") = Live("customer")
    BY <2>2, ListedWhole
  <2>6. ASSUME NEW x \in Ids, records["customer"][x].live = "yes", records["customer"][x].f["group"] = g
        PROVE  x \in M
    BY Zenon, <1>0, <2>5, <2>6 DEF GroupMembers, Live, IsLive, Field, CustomersWhole
  <2>7. \A c \in M : c \in Live("customer")
    BY ZenonT(30) DEF GroupMembers, Entities
  <2> HIDE DEF s, M, n
  <2>8. ASSUME NEW i \in 1..n
        PROVE  /\ s[i].op = "save" /\ s[i].kind = "customer" /\ s[i].id = ms[i] /\ s[i].fields = [group |-> NoGroup]
               /\ records["customer"][s[i].id] # Missing /\ "phone" \notin DOMAIN s[i].fields
    <3>1. s[i].op = "save" /\ s[i].kind = "customer" /\ s[i].id = ms[i] /\ s[i].fields = [group |-> NoGroup]
      BY <2>4, SaveIs
    <3>2. records["customer"][ms[i]] # Missing
      BY Zenon, <2>4, <2>7, LiveIsKnown
    <3>3. "phone" \notin DOMAIN [group |-> NoGroup]
      BY Zenon
    <3> QED
      BY ZenonT(30), <3>1, <3>2, <3>3
  <2>9. s[n + 1].op = "delete" /\ s[n + 1].kind = "customer_group" /\ s[n + 1].id = g
    BY <2>4, DeleteIs
  <2>10. \A i \in 1..n : TurnClubCall(records, s, i)
    BY Zenon, <2>8 DEF TurnClubCall
  <2>11. TurnClubCall(records, s, n + 1)
    <3>1. (n + 1) - 1 = n
      BY <2>4
    <3>2. \A j \in 1..n : s[j].op = "save" /\ s[j].kind = "customer" /\ s[j].fields = [group |-> NoGroup]
      BY <2>8
    <3>3. \A x \in Ids : records["customer"][x].live = "yes" /\ records["customer"][x].f["group"] = g =>
                           \E j \in 1..n : s[j].id = x
      BY ONLY SMTT(20), SMTT(30), <2>4, <2>6, <2>8
    <3> QED
      BY ZenonT(30), <2>9, <3>1, <3>2, <3>3 DEF TurnClubCall
  <2>12. \A i \in DOMAIN s : i = n + 1 \/ i \in 1..n
    BY <2>4
  <2>13. \A i \in DOMAIN s : TurnClubCall(records, s, i)
    BY <2>10, <2>11, <2>12
  <2> QED
    BY <2>2, <2>4, <2>13 DEF s
<1> QED
  BY ZenonT(30), <1>1, <1>3, <1>4, <1>5, <1>6, <1>7, <1>9, <1>10, <1>11 DEF ClubRequest, handleClubCustomer

LEMMA ClubTurnBeginKeeps ==
  ASSUME ClubInv(records, work), TurnClub(records, work), NEW w \in Workers, ClubRequest(w), clean' = "yes"
  PROVE  TurnClub(records', work') /\ records' = records
<1>1. PICK s, kinds : Begin(w, s, kinds) /\ IsSeq(s) /\ \A i \in DOMAIN s : TurnClubCall(records, s, i)
  BY ClubTurnBegins DEF ClubInv
<1>2. /\ work'[w] = s /\ records' = records /\ OneAtATime(work')
      /\ \A v \in Workers : v # w => DOMAIN work'[v] = {}
  BY Zenon, <1>1, BeginsInTurn DEF ClubInv, RecordsInv
<1>3. \A v \in Workers : \A i \in DOMAIN work'[v] : TurnClubCall(records', work'[v], i)
  BY <1>1, <1>2
<1> QED
  BY <1>2, <1>3 DEF TurnClub

\* What a store call of the club leaves alone when requests come in turn.
ClubKept(r, q) ==
  /\ \A p \in Ids :
       LET f == r["membership_payment"][p].f IN
       "status" \in DOMAIN f /\ f["status"] = "paid" => q["membership_payment"][p] = r["membership_payment"][p]
  /\ \A g \in Ids :
       r["customer_group"][g].live = "yes" /\ q["customer_group"][g].live # "yes" =>
         \A x \in Ids : q["customer"][x].live = "yes" => q["customer"][x].f["group"] # g

LEMMA ClubTurnStoreKeeps ==
  ASSUME ClubInv(records, work), TurnClub(records, work), NEW w \in Workers, StoreCall(w)
  PROVE  TurnClub(records', work') /\ ClubKept(records, records')
<1> DEFINE c == work[w][1]
<1>0. RecordsInv(records, work, ClubKinds)
  BY DEF ClubInv
<1>1. /\ RecordsInv(records', work', ClubKinds) /\ 1 \in DOMAIN work[w]
      /\ Outcome(records, records', work[w], work'[w], ClubKinds)
  BY <1>0, StoreCallDoes
<1>2. /\ CustomersWhole(records) /\ PhonesDiffer(records)
      /\ TurnClubCall(records, work[w], 1) /\ ClubCall(records, work[w], 1)
  BY Zenon, <1>1 DEF TurnClub, ClubInv, ClubCalls
<1>3. CallTyped(c, ClubKinds)
  BY Zenon, <1>0, <1>1 DEF RecordsInv
<1>4. c.kind \in ClubKinds /\ c.id \in Ids /\ (c.op = "delete" => c.kind = "customer_group" /\ Len(work[w]) = 1)
  BY Zenon, <1>2, <1>3 DEF CallTyped, ClubCall
<1>5. OneAtATime(work') /\ \A v \in Workers : v # w => DOMAIN work'[v] = {}
  BY <1>0, ServedInTurn DEF TurnClub
<1>6. Missing.live = "no" /\ Gone.live = "gone"
  BY DEF Missing, Gone
\* Every customer keeps the phone, and a new one has a new phone.
<1>7. ASSUME NEW x \in Ids, records'["customer"][x].live = "yes"
      PROVE  /\ {"phone", "group"} \subseteq DOMAIN records'["customer"][x].f
             /\ \/ /\ records["customer"][x].live = "yes"
                   /\ records'["customer"][x].f["phone"] = records["customer"][x].f["phone"]
                \/ /\ x = c.id
                   /\ \A y \in Ids : records["customer"][y].live = "yes" =>
                                       records["customer"][y].f["phone"] # records'["customer"][x].f["phone"]
  <2>1. CASE records'["customer"][x] = records["customer"][x]
    BY Zenon, <1>2, <1>7, <2>1 DEF CustomersWhole
  <2>2. CASE records'["customer"][x] # records["customer"][x]
    <3>1. c.op = "save" /\ c.kind = "customer" /\ c.id = x
      BY Zenon, <1>1, <1>4, <2>2 DEF Outcome, OnlyThis, ClubKinds
    <3>2. Written(records["customer"][x], records'["customer"][x], c.fields)
      BY Zenon, <1>1, <3>1 DEF Outcome
    <3>3. CASE records["customer"][x].live = "yes"
      <4>1. "phone" \notin DOMAIN c.fields
        BY Zenon, <1>2, <3>1, <3>3 DEF TurnClubCall
      <4>2. {"phone", "group"} \subseteq DOMAIN records["customer"][x].f
        BY Zenon, <1>2, <3>3 DEF CustomersWhole
      <4> QED
        BY Zenon, <3>2, <3>3, <4>1, <4>2 DEF Written
    <3>4. CASE records["customer"][x].live # "yes"
      <4>1. records["customer"][x] = Missing
        BY Zenon, <1>2, <3>1, <3>4 DEF ClubCall
      <4>2. /\ {"phone", "group"} \subseteq DOMAIN c.fields
            /\ \A y \in Ids : records["customer"][y].live = "yes" => records["customer"][y].f["phone"] # c.fields["phone"]
        BY Zenon, <1>2, <3>1, <4>1 DEF TurnClubCall
      <4>3. records'["customer"][x].f = c.fields
        BY <3>2, <3>4 DEF Written
      <4> QED
        BY <3>1, <4>2, <4>3
    <3> QED
      BY Zenon, <3>3, <3>4
  <2> QED
    BY Zenon, <2>1, <2>2
<1>8. CustomersWhole(records') /\ PhonesDiffer(records')
  <2>1. CustomersWhole(records')
    BY ZenonT(30), <1>7 DEF CustomersWhole
  <2>2. ASSUME NEW x \in Ids, NEW y \in Ids, records'["customer"][x].live = "yes", records'["customer"][y].live = "yes", x # y
        PROVE  records'["customer"][x].f["phone"] # records'["customer"][y].f["phone"]
    BY <1>2, <1>7, <2>2 DEF PhonesDiffer
  <2> QED
    BY Zenon, <2>1, <2>2 DEF PhonesDiffer
<1>9. ASSUME NEW i \in DOMAIN work'[w]
      PROVE  TurnClubCall(records', work'[w], i)
  <2> DEFINE a == i + 1
             s == work[w]
             d == s[a]
  <2>1. a \in DOMAIN s /\ work'[w][i] = d /\ a # 1
    BY <1>0, <1>4, CallsThatRemain DEF Remains
  <2>2. i \in Nat /\ a \in Nat /\ a - 1 = i /\ i >= 1
    <3>1. IsSeq(work'[w]) /\ i \in Nat
      BY Zenon, <1>1, QueueFactsOf DEF RecordsInv
    <3>2. i # 0
      BY <2>1
    <3> QED
      BY <3>1, <3>2
  <2>3. Len(s) \in Nat /\ DOMAIN s = 1..Len(s)
    BY Zenon, <1>0, QueueFacts DEF RecordsInv
  <2>4. Len(s) # 1
    BY <2>1, <2>2, <2>3
  <2> HIDE DEF a
  <2>5. TurnClubCall(records, s, a) /\ ClubCall(records, s, a)
    BY Zenon, <2>1 DEF TurnClub, ClubInv, ClubCalls
  <2>6. CallTyped(d, ClubKinds)
    BY Zenon, <1>0, <2>1 DEF RecordsInv
  <2>7. d.kind # "membership_payment"
    BY Zenon, <2>1, <2>5 DEF TurnClubCall
  <2>8. d.kind = "customer" => records["customer"][d.id].live = "yes" /\ "phone" \notin DOMAIN d.fields
    BY Zenon, <2>4, <2>5 DEF TurnClubCall, ClubCall
  <2>9. d.kind = "customer" => records'["customer"][d.id] # Missing
    BY ZenonT(30), <1>1, <1>6, <2>6, <2>8, ClubOnlyGrows DEF ClubGrows, CallTyped
  <2>10. ASSUME d.op = "delete"
         PROVE  /\ \A j \in 1..(i - 1) : LET e == work'[w][j] IN
                     e.op = "save" /\ e.kind = "customer" /\ e.fields = [group |-> NoGroup]
                /\ \A x \in Ids : records'["customer"][x].live = "yes" /\ records'["customer"][x].f["group"] = d.id =>
                                    \E j \in 1..(i - 1) : work'[w][j].id = x
    <3>1. /\ \A j \in 1..i : s[j].op = "save" /\ s[j].kind = "customer" /\ s[j].fields = [group |-> NoGroup]
          /\ \A x \in Ids : records["customer"][x].live = "yes" /\ records["customer"][x].f["group"] = d.id =>
                              \E j \in 1..i : s[j].id = x
      BY Zenon, <2>2, <2>5, <2>10 DEF TurnClubCall
    <3>2. ASSUME NEW j \in 1..(i - 1)
          PROVE  work'[w][j] = s[j + 1] /\ j + 1 \in 1..i
      <4>1. j \in Nat /\ j >= 1 /\ j <= i - 1
        BY ONLY SMTT(20), SMTT(30), <2>2
      <4>2. IsSeq(work'[w]) /\ i <= Len(work'[w]) /\ Len(work'[w]) \in Nat /\ DOMAIN work'[w] = 1..Len(work'[w])
        BY ONLY SMTT(20), SMTT(30), <1>1, QueueFactsOf, SeqFacts DEF RecordsInv
      <4>3. j \in DOMAIN work'[w]
        BY <2>2, <4>1, <4>2
      <4>4. work'[w][j] = s[j + 1]
        BY <1>0, <1>4, <4>3, CallsThatRemain DEF Remains
      <4> QED
        BY <2>2, <4>1, <4>4
    <3>3. 1 \in 1..i
      BY <2>2
    <3>4. c.op = "save" /\ c.kind = "customer" /\ c.fields = [group |-> NoGroup]
      BY <3>1, <3>3
    <3>5. Written(records["customer"][c.id], records'["customer"][c.id], c.fields)
          /\ OnlyThis(records, records', ClubKinds, "customer", c.id)
      BY Zenon, <1>1, <3>4 DEF Outcome
    <3>6. "group" \in DOMAIN c.fields /\ c.fields["group"] = NoGroup
      BY <3>4
    <3>7. records'["customer"][c.id].f["group"] = NoGroup
      BY Zenon, <3>5, <3>6 DEF Written
    <3>8. d.id # NoGroup
      BY Zenon, <2>6, IdsAreNumbers DEF CallTyped, NoGroup
    <3>9. ASSUME NEW x \in Ids, records'["customer"][x].live = "yes", records'["customer"][x].f["group"] = d.id
          PROVE  \E j \in 1..(i - 1) : work'[w][j].id = x
      <4>1. x # c.id
        BY ZenonT(30), <3>7, <3>8, <3>9
      <4>2. records'["customer"][x] = records["customer"][x]
        BY <3>5, <4>1 DEF OnlyThis, ClubKinds
      <4>3. PICK j \in 1..i : s[j].id = x
        BY Zenon, <3>1, <3>9, <4>2
      <4>4. j # 1
        BY <4>1, <4>3
      <4>5. j - 1 \in 1..(i - 1) /\ (j - 1) + 1 = j
        BY <2>2, <4>4
      <4>6. work'[w][j - 1] = s[j]
        BY <3>2, <4>5
      <4> QED
        BY ZenonT(30), <4>3, <4>5, <4>6
    <3> QED
      BY ONLY SMTT(20), SMTT(30), <3>1, <3>2, <3>9
  <2> HIDE DEF d
  <2> QED
    BY ZenonT(30), <2>1, <2>7, <2>8, <2>9, <2>10 DEF TurnClubCall
<1>10. \A v \in Workers : \A i \in DOMAIN work'[v] : TurnClubCall(records', work'[v], i)
  BY <1>5, <1>9
<1>11. TurnClub(records', work')
  BY <1>5, <1>8, <1>10 DEF TurnClub
<1>12. ASSUME NEW p \in Ids, "status" \in DOMAIN records["membership_payment"][p].f,
              records["membership_payment"][p].f["status"] = "paid"
       PROVE  records'["membership_payment"][p] = records["membership_payment"][p]
  <2>1. ~(c.kind = "membership_payment" /\ c.id = p)
    BY Zenon, <1>2, <1>12 DEF TurnClubCall
  <2> QED
    BY Zenon, <1>1, <2>1 DEF Outcome, OnlyThis, ClubKinds
<1>13. ASSUME NEW g \in Ids, records["customer_group"][g].live = "yes", records'["customer_group"][g].live # "yes",
              NEW x \in Ids, records'["customer"][x].live = "yes"
       PROVE  records'["customer"][x].f["group"] # g
  <2>1. records'["customer_group"][g] # records["customer_group"][g]
    BY <1>13
  <2>2. c.op = "delete" /\ c.kind = "customer_group" /\ c.id = g
    BY Zenon, <1>1, <1>13, <2>1 DEF Outcome, OnlyThis, ClubKinds, Written
  <2>3. records'["customer"][x] = records["customer"][x]
    BY ZenonT(30), <1>1, <2>2 DEF Outcome, OnlyThis, ClubKinds
  <2>4. 1..(1 - 1) = {}
    OBVIOUS
  <2> QED
    BY ZenonT(30), <1>2, <1>13, <2>2, <2>3, <2>4 DEF TurnClubCall
<1>14. ClubKept(records, records')
  BY <1>12, <1>13 DEF ClubKept
<1> QED
  BY <1>11, <1>14

\* The print settings.
LEMMA OneSettingsSave ==
  ASSUME NEW kind \in SettingsKinds, NEW id \in Ids, NEW fields, NEW must,
         kind = "printer_route" =>
           \/ /\ records["printer_route"][id].live = "yes"
              /\ "category" \in DOMAIN fields => fields["category"] = records["printer_route"][id].f["category"]
           \/ /\ id \in Fresh("printer_route")
              /\ "category" \in DOMAIN fields
              /\ \A x \in Ids : records["printer_route"][x].live = "yes" =>
                                  records["printer_route"][x].f["category"] # fields["category"],
         kind # "printer_route" => records[kind][id] # Missing \/ id \in Fresh(kind)
  PROVE  LET s == <<Save(kind, id, fields, must)>>
         IN NewCalls(s, SettingsKinds) /\ \A i \in DOMAIN s : TurnSettingsCall(records, s, i)
<1> DEFINE c == Save(kind, id, fields, must)
<1>1. c.op = "save" /\ c.kind = kind /\ c.id = id /\ c.fields = fields
  BY ONLY SaveIs
<1>2. records[kind][id].live = "yes" => records[kind][id] # Missing
  BY DEF Missing
<1>3. NewCalls(<<c>>, SettingsKinds)
  BY Zenon, <1>2, OneSave
<1> HIDE DEF c
<1>4. DOMAIN <<c>> = {1} /\ <<c>>[1] = c /\ Len(<<c>>) = 1
  BY OneCall
<1>5. id \in Fresh(kind) => records[kind][id] = Missing
  BY FreshIs
<1>6. TurnSettingsCall(records, <<c>>, 1)
  BY <1>1, <1>4, <1>5 DEF TurnSettingsCall
<1> QED
  BY ZenonT(30), <1>3, <1>4, <1>6 DEF c

SettingsInv(r, wk) == RecordsInv(r, wk, SettingsKinds) /\ TurnSettings(r, wk) /\ r["cafe_profile"][Profile] # Missing

SettingsBegin(s) == NewCalls(s, SettingsKinds) /\ \A i \in DOMAIN s : TurnSettingsCall(records, s, i)

LEMMA SettingsTurnBegins ==
  ASSUME SettingsInv(records, work), NEW w \in Workers, SettingsRequest(w), clean' = "yes"
  PROVE  \E s, kinds : Begin(w, s, kinds) /\ SettingsBegin(s)
<1>1. ASSUME NEW f, NEW must, NEW kinds, Begin(w, <<Save("cafe_profile", Profile, f, must)>>, kinds)
      PROVE  \E s, ks : Begin(w, s, ks) /\ SettingsBegin(s)
  <2>1. "cafe_profile" \in SettingsKinds /\ Profile \in Ids /\ records["cafe_profile"][Profile] # Missing
    BY ProfileIsThere DEF SettingsInv, SettingsKinds
  <2> QED
    BY Zenon, <1>1, <2>1, OneSettingsSave DEF SettingsBegin
<1>2. CASE handlePrinterToggle(w)
  BY <1>1, <1>2 DEF handlePrinterToggle
<1>3. CASE handlePrintPolicy(w)
  BY <1>1, <1>3 DEF handlePrintPolicy
<1>4. CASE handlePOSStages(w)
  BY <1>1, <1>4 DEF handlePOSStages
<1>5. "printer_route" \in SettingsKinds /\ RoutesWhole(records)
  BY DEF SettingsKinds, SettingsInv, TurnSettings
<1>6. ASSUME NEW cat, NEW r \in RoutesOf(cat)
      PROVE  /\ r \in Ids /\ records["printer_route"][r].live = "yes"
             /\ records["printer_route"][r].f["category"] = cat
  BY <1>6 DEF RoutesOf, Entities, Live, IsLive, Has
<1>7. ASSUME NEW cat, NEW p, NEW n, SaveRoute(w, cat, p, n)
      PROVE  \E s, ks : Begin(w, s, ks) /\ SettingsBegin(s)
  <2>1. CASE \E r \in RoutesOf(cat) :
               Begin(w, <<Save("printer_route", r, [category |-> cat, printer |-> p, copies |-> n,
                                                    active |-> Field("printer_route", r, "active")], "yes")>>,
                     {"printer_route"})
    <3>1. PICK r \in RoutesOf(cat) :
               Begin(w, <<Save("printer_route", r, [category |-> cat, printer |-> p, copies |-> n,
                                                    active |-> Field("printer_route", r, "active")], "yes")>>,
                     {"printer_route"})
      BY <2>1
    <3> DEFINE f == [category |-> cat, printer |-> p, copies |-> n, active |-> Field("printer_route", r, "active")]
    <3>2. f["category"] = cat
      OBVIOUS
    <3> HIDE DEF f
    <3>3. Begin(w, <<Save("printer_route", r, f, "yes")>>, {"printer_route"})
      BY <3>1 DEF f
    <3>4. SettingsBegin(<<Save("printer_route", r, f, "yes")>>)
      BY ZenonT(30), <1>5, <1>6, <3>2, OneSettingsSave DEF SettingsBegin
    <3> QED
      BY ZenonT(30), <3>3, <3>4
  <2>2. CASE /\ RoutesOf(cat) = {}
             /\ \E id \in Fresh("printer_route") :
                  Begin(w, <<Save("printer_route", id, [category |-> cat, printer |-> p, copies |-> n,
                                                        active |-> "true"], "yes")>>, {"printer_route"})
    <3>1. PICK id \in Fresh("printer_route") :
                  Begin(w, <<Save("printer_route", id, [category |-> cat, printer |-> p, copies |-> n,
                                                        active |-> "true"], "yes")>>, {"printer_route"})
      BY <2>2
    <3> DEFINE f == [category |-> cat, printer |-> p, copies |-> n, active |-> "true"]
    <3>2. "category" \in DOMAIN f /\ f["category"] = cat
      OBVIOUS
    <3> HIDE DEF f
    <3>3. Begin(w, <<Save("printer_route", id, f, "yes")>>, {"printer_route"})
      BY <3>1 DEF f
    <3>4. Entities("printer_route") = Live("printer_route")
      BY <3>3, ListedWhole
    <3>5. \A x \in Ids : records["printer_route"][x].live = "yes" => records["printer_route"][x].f["category"] # f["category"]
      BY ZenonT(30), <1>5, <2>2, <3>2, <3>4 DEF RoutesOf, Live, IsLive, Has, RoutesWhole
    <3>6. SettingsBegin(<<Save("printer_route", id, f, "yes")>>)
      BY ZenonT(30), <1>5, <3>2, <3>5, FreshIs, OneSettingsSave DEF SettingsBegin
    <3> QED
      BY <3>3, <3>6
  <2> QED
    BY ZenonT(30), <1>7, <2>1, <2>2 DEF SaveRoute
<1>8. ASSUME NEW cat, ClearRoute(w, cat)
      PROVE  \E s, ks : Begin(w, s, ks) /\ SettingsBegin(s)
  <2>1. PICK r \in RoutesOf(cat) : Begin(w, <<Delete("printer_route", r)>>, {"printer_route"})
    BY <1>8 DEF ClearRoute
  <2> DEFINE d == Delete("printer_route", r)
  <2>2. d.op = "delete"
    BY ONLY DeleteIs
  <2>3. NewCalls(<<d>>, SettingsKinds)
    BY ZenonT(30), <1>5, <1>6, OneDelete
  <2>4. Begin(w, <<d>>, {"printer_route"})
    BY <2>1
  <2> HIDE DEF d
  <2>5. DOMAIN <<d>> = {1} /\ <<d>>[1] = d /\ Len(<<d>>) = 1
    BY OneCall
  <2>6. TurnSettingsCall(records, <<d>>, 1)
    BY <2>2, <2>5 DEF TurnSettingsCall
  <2> QED
    BY ZenonT(30), <2>3, <2>4, <2>5, <2>6 DEF SettingsBegin
<1>9. CASE handlePrinterRouteSave(w)
  BY <1>7, <1>8, <1>9 DEF handlePrinterRouteSave
<1>10. CASE handlePrinterRouteToggle(w)
  <2>1. PICK cat \in Known("category") : \E r \in RoutesOf(cat) :
          Begin(w, <<Save("printer_route", r,
                       [active |-> IF Field("printer_route", r, "active") = "false" THEN "true" ELSE "false"],
                       "yes")>>, {"printer_route"})
    BY <1>10 DEF handlePrinterRouteToggle
  <2>2. PICK r \in RoutesOf(cat) :
          Begin(w, <<Save("printer_route", r,
                       [active |-> IF Field("printer_route", r, "active") = "false" THEN "true" ELSE "false"],
                       "yes")>>, {"printer_route"})
    BY <2>1
  <2> DEFINE f == [active |-> IF Field("printer_route", r, "active") = "false" THEN "true" ELSE "false"]
  <2>3. "category" \notin DOMAIN f
    OBVIOUS
  <2> HIDE DEF f
  <2>4. Begin(w, <<Save("printer_route", r, f, "yes")>>, {"printer_route"})
    BY <2>2 DEF f
  <2>5. SettingsBegin(<<Save("printer_route", r, f, "yes")>>)
    BY ZenonT(30), <1>5, <1>6, <2>3, OneSettingsSave DEF SettingsBegin
  <2> QED
    BY <2>4, <2>5
<1> QED
  BY ZenonT(30), <1>2, <1>3, <1>4, <1>9, <1>10 DEF SettingsRequest

LEMMA SettingsTurnBeginKeeps ==
  ASSUME SettingsInv(records, work), NEW w \in Workers, SettingsRequest(w), clean' = "yes"
  PROVE  SettingsInv(records', work')
<1>1. PICK s, kinds : Begin(w, s, kinds) /\ SettingsBegin(s)
  BY SettingsTurnBegins
<1>2. RecordsInv(records', work', SettingsKinds)
  BY <1>1, BeginKeeps DEF SettingsBegin, SettingsInv
<1>3. IsSeq(s) /\ Queues(work)
  BY Zenon, <1>1 DEF SettingsBegin, NewCalls, SettingsInv, RecordsInv
<1>4. /\ work'[w] = s /\ records' = records /\ OneAtATime(work')
      /\ \A v \in Workers : v # w => DOMAIN work'[v] = {}
  BY SMTT(20), SMTT(30), <1>1, <1>3, BeginsInTurn
<1>5. \A v \in Workers : \A i \in DOMAIN work'[v] : TurnSettingsCall(records', work'[v], i)
  BY <1>1, <1>4 DEF SettingsBegin
<1> QED
  BY ZenonT(30), <1>2, <1>4, <1>5 DEF SettingsInv, TurnSettings

LEMMA SettingsTurnStoreKeeps ==
  ASSUME SettingsInv(records, work), NEW w \in Workers, StoreCall(w)
  PROVE  SettingsInv(records', work')
<1> DEFINE c == work[w][1]
<1>0. RecordsInv(records, work, SettingsKinds) /\ records["cafe_profile"][Profile] # Missing
  BY DEF SettingsInv
<1>1. /\ RecordsInv(records', work', SettingsKinds) /\ 1 \in DOMAIN work[w]
      /\ Outcome(records, records', work[w], work'[w], SettingsKinds)
      /\ \A k \in SettingsKinds : \A i \in Ids : records'[k][i] = Missing => records[k][i] = Missing
      /\ \A i \in DOMAIN work'[w] : i + 1 \in DOMAIN work[w]
  BY ZenonT(30), <1>0, StoreCallDoes
<1>2. RoutesWhole(records) /\ RoutesDiffer(records) /\ TurnSettingsCall(records, work[w], 1)
  BY <1>1 DEF SettingsInv, TurnSettings
<1>3. OneAtATime(work') /\ \A v \in Workers : v # w => DOMAIN work'[v] = {}
  BY <1>0, ServedInTurn DEF SettingsInv, TurnSettings
<1>4. Len(work[w]) = 1
  BY Zenon, <1>2 DEF TurnSettingsCall
<1>5. ASSUME NEW i \in DOMAIN work'[w] PROVE FALSE
  <2>1. i + 1 \in DOMAIN work[w]
    BY ZenonT(30), <1>1
  <2>2. ~(w = w /\ i + 1 = 1)
    BY ZenonT(30), <1>0, <1>4, CallsThatRemain
  <2>3. DOMAIN work[w] = 1..Len(work[w])
    BY <1>0, QueueFacts DEF RecordsInv
  <2> QED
    BY <1>4, <2>1, <2>2, <2>3
<1>6. Missing.live = "no" /\ Gone.live = "gone"
  BY DEF Missing, Gone
<1>7. ASSUME NEW x \in Ids, records'["printer_route"][x].live = "yes"
      PROVE  /\ "category" \in DOMAIN records'["printer_route"][x].f
             /\ \/ /\ records["printer_route"][x].live = "yes"
                   /\ records'["printer_route"][x].f["category"] = records["printer_route"][x].f["category"]
                \/ /\ x = c.id
                   /\ \A y \in Ids : records["printer_route"][y].live = "yes" =>
                        records["printer_route"][y].f["category"] # records'["printer_route"][x].f["category"]
  <2>1. CASE records'["printer_route"][x] = records["printer_route"][x]
    BY Zenon, <1>2, <1>7, <2>1 DEF RoutesWhole
  <2>2. CASE records'["printer_route"][x] # records["printer_route"][x]
    <3>1. c.op = "save" /\ c.kind = "printer_route" /\ c.id = x
      BY ZenonT(30), <1>1, <1>6, <1>7, <2>2 DEF Outcome, OnlyThis, SettingsKinds
    <3>2. Written(records["printer_route"][x], records'["printer_route"][x], c.fields)
      BY Zenon, <1>1, <3>1 DEF Outcome
    <3>3. CASE /\ records["printer_route"][x].live = "yes"
               /\ "category" \in DOMAIN c.fields => c.fields["category"] = records["printer_route"][x].f["category"]
      <4>1. "category" \in DOMAIN records["printer_route"][x].f
        BY Zenon, <1>2, <3>3 DEF RoutesWhole
      <4> QED
        BY ZenonT(30), <3>2, <3>3, <4>1 DEF Written
    <3>4. CASE /\ records["printer_route"][x] = Missing
               /\ "category" \in DOMAIN c.fields
               /\ \A y \in Ids : records["printer_route"][y].live = "yes" =>
                                   records["printer_route"][y].f["category"] # c.fields["category"]
      <4>1. records'["printer_route"][x].f = c.fields
        BY ZenonT(30), <1>6, <3>2, <3>4 DEF Written
      <4> QED
        BY ZenonT(30), <3>1, <3>4, <4>1
    <3> QED
      BY ZenonT(30), <1>2, <3>1, <3>3, <3>4 DEF TurnSettingsCall
  <2> QED
    BY Zenon, <2>1, <2>2
<1>8. RoutesWhole(records')
  BY Zenon, <1>7 DEF RoutesWhole
<1>9. RoutesDiffer(records')
  <2>1. ASSUME NEW x \in Ids, NEW y \in Ids, records'["printer_route"][x].live = "yes",
               records'["printer_route"][y].live = "yes", x # y
        PROVE  records'["printer_route"][x].f["category"] # records'["printer_route"][y].f["category"]
    BY <1>2, <1>7, <2>1 DEF RoutesDiffer
  <2> QED
    BY ZenonT(30), <2>1 DEF RoutesDiffer
<1>10. records'["cafe_profile"][Profile] # Missing
  BY ZenonT(30), <1>0, <1>1, ProfileIsThere DEF SettingsKinds
<1>11. \A v \in Workers : \A i \in DOMAIN work'[v] : TurnSettingsCall(records', work'[v], i)
  BY <1>3, <1>5
<1> QED
  BY ZenonT(30), <1>1, <1>3, <1>8, <1>9, <1>10, <1>11 DEF SettingsInv, TurnSettings

LEMMA SettingsStart ==
  ASSUME HandlersInit, part = "settings"
  PROVE  SettingsInv(records, work)
<1> DEFINE A == [pos_stages |-> "ready"]
           B == [title |-> "c"]
           C == [title |-> "p"]
           T == {Stored(A), Stored(B), Stored(C), Missing}
<1>1. records = SettingsRecords /\ work = [w \in Workers |-> << >>]
  BY DEF HandlersInit, RecordsInit
<1>2. records = [cafe_profile  |-> [i \in Ids |-> IF i = Profile THEN Stored(A) ELSE Missing],
                 category      |-> [i \in Ids |-> IF i <= 2 THEN Stored(B) ELSE Missing],
                 printer       |-> [i \in Ids |-> IF i <= 2 THEN Stored(C) ELSE Missing],
                 printer_route |-> [i \in Ids |-> Missing]]
  BY ZenonT(30), <1>1 DEF SettingsRecords
<1> HIDE DEF A, B, C
<1>3. records \in [SettingsKinds -> [Ids -> T]]
  BY <1>2 DEF SettingsKinds
<1>4. Shaped(records, SettingsKinds)
  BY Zenon, <1>3 DEF Shaped
<1>5. Queues(work) /\ \A w \in Workers : work[w] = << >> /\ DOMAIN work[w] = {}
  <2>1. work \in [Workers -> Seq({})]
    BY <1>1
  <2>2. \A w \in Workers : work[w] = << >>
    BY <1>1
  <2> QED
    BY <2>1, <2>2, NoCalls DEF Queues
<1>6. RecordsInv(records, work, SettingsKinds)
  BY ZenonT(30), <1>4, <1>5 DEF RecordsInv, DrawnOnce
<1>7. \A i \in Ids : records["printer_route"][i].live = "no"
  BY <1>2 DEF Missing
<1>8. records["cafe_profile"][Profile] # Missing
  <2>1. records["cafe_profile"][Profile] = Stored(A)
    BY ZenonT(30), <1>2, ProfileIsThere
  <2> QED
    BY <2>1 DEF Stored, Missing
<1>9. TurnSettings(records, work)
  BY <1>5, <1>7 DEF TurnSettings, OneAtATime, RoutesWhole, RoutesDiffer
<1> QED
  BY <1>6, <1>8, <1>9 DEF SettingsInv

\* The catalogue.
StockInv(r, wk) == RecordsInv(r, wk, CatalogKinds) /\ TurnCatalog(r, wk)

StockBegin(s) == NewCalls(s, CatalogKinds) /\ \A i \in DOMAIN s : TurnCatalogCall(records, s, i)

LEMMA OneStockSave ==
  ASSUME NEW kind \in CatalogKinds, kind # "ingredient_category", NEW id \in Ids, NEW fields, NEW must,
         records[kind][id] # Missing \/ id \in Fresh(kind),
         kind = "ingredient" => "category" \in DOMAIN fields
  PROVE  StockBegin(<<Save(kind, id, fields, must)>>)
<1> DEFINE c == Save(kind, id, fields, must)
<1>1. c.op = "save" /\ c.kind = kind /\ c.id = id /\ c.fields = fields
  BY ONLY SaveIs
<1>2. NewCalls(<<c>>, CatalogKinds)
  BY OneSave
<1> HIDE DEF c
<1>3. DOMAIN <<c>> = {1} /\ <<c>>[1] = c
  BY OneCall
<1>4. TurnCatalogCall(records, <<c>>, 1)
  BY ZenonT(30), <1>1, <1>3 DEF TurnCatalogCall
<1> QED
  BY ZenonT(30), <1>2, <1>3, <1>4 DEF c, StockBegin

LEMMA OneStockDelete ==
  ASSUME NEW kind \in CatalogKinds, NEW id \in Ids,
         kind = "ingredient_category" =>
           \A x \in Ids : records["ingredient"][x].live = "yes" =>
                            records["ingredient"][x].f["category"] # TitleOf(records, id)
  PROVE  StockBegin(<<Delete(kind, id)>>)
<1> DEFINE c == Delete(kind, id)
<1>1. c.op = "delete" /\ c.kind = kind /\ c.id = id
  BY ONLY DeleteIs
<1>2. NewCalls(<<c>>, CatalogKinds)
  BY OneDelete
<1> HIDE DEF c
<1>3. DOMAIN <<c>> = {1} /\ <<c>>[1] = c /\ Len(<<c>>) = 1
  BY OneCall
<1>4. TurnCatalogCall(records, <<c>>, 1)
  BY <1>1, <1>3 DEF TurnCatalogCall
<1> QED
  BY <1>2, <1>3, <1>4 DEF c, StockBegin

LEMMA StockTurnBegins ==
  ASSUME StockInv(records, work), NEW w \in Workers, CatalogRequest(w), clean' = "yes"
  PROVE  \E s, kinds : Begin(w, s, kinds) /\ StockBegin(s)
<1>0. CatalogKinds = {"product", "recipe", "ingredient", "ingredient_category", "task"}
  BY DEF CatalogKinds
<1>1. CASE PlainSave(w)
  <2>1. PICK id \in Fresh("ingredient") \cup Known("ingredient"), l \in Labels :
          Begin(w, <<Save("ingredient", id, [category |-> l], "yes")>>, {})
    BY Zenon, <1>1 DEF PlainSave
  <2>2. "category" \in DOMAIN [category |-> l]
    OBVIOUS
  <2>3. id \in Ids /\ (records["ingredient"][id] # Missing \/ id \in Fresh("ingredient"))
    BY FreshIs DEF Known
  <2>4. StockBegin(<<Save("ingredient", id, [category |-> l], "yes")>>)
    BY ZenonT(30), <1>0, <2>2, <2>3, OneStockSave
  <2> QED
    BY <2>1, <2>4
<1>2. CASE ProductForm(w)
  <2>1. PICK p \in Fresh("product") \cup Known("product") :
    \/ \E fields \in {[stock |-> "typed"], NoFields} : Begin(w, <<Save("product", p, fields, "yes")>>, {})
    \/ Begin(w, <<Save("product", p, [stock |-> "none"], "yes"), RecipeOfProduct(p)>>, {})
    BY <1>2 DEF ProductForm
  <2>2. p \in Ids /\ (records["product"][p] # Missing \/ p \in Fresh("product"))
    BY FreshIs DEF Known
  <2>3. ASSUME NEW f, Begin(w, <<Save("product", p, f, "yes")>>, {})
        PROVE  \E s, kinds : Begin(w, s, kinds) /\ StockBegin(s)
    BY ZenonT(30), <1>0, <2>2, <2>3, OneStockSave
  <2>4. CASE Begin(w, <<Save("product", p, [stock |-> "none"], "yes"), RecipeOfProduct(p)>>, {})
    <3> DEFINE d == Save("product", p, [stock |-> "none"], "yes")
               e == RecipeOfProduct(p)
    <3>1. d.op = "save" /\ d.kind = "product" /\ d.id = p
      BY ONLY SaveIs
    <3>2. e.op = "recipe" /\ e.kind = "product" /\ e.id = p
      BY RecipeOfIs
    <3> HIDE DEF d, e
    <3>3. IsSeq(<<d, e>>) /\ DOMAIN <<d, e>> = {1, 2} /\ <<d, e>>[1] = d /\ <<d, e>>[2] = e
      BY TwoCalls
    <3>4. CallTyped(d, CatalogKinds) /\ CallTyped(e, CatalogKinds)
      BY <1>0, <2>2, <3>1, <3>2 DEF CallTyped
    <3>5. NewCalls(<<d, e>>, CatalogKinds)
      BY ZenonT(30), <2>2, <3>1, <3>2, <3>3, <3>4 DEF NewCalls
    <3>6. TurnCatalogCall(records, <<d, e>>, 1) /\ TurnCatalogCall(records, <<d, e>>, 2)
      BY ZenonT(30), <3>1, <3>2, <3>3 DEF TurnCatalogCall
    <3>7. StockBegin(<<d, e>>)
      BY <3>3, <3>5, <3>6 DEF StockBegin
    <3> QED
      BY ZenonT(30), <2>4, <3>7 DEF d, e
  <2> QED
    BY ZenonT(30), <2>1, <2>3, <2>4
<1>3. CASE handleSaveRecipe(w)
  <2>1. PICK p \in Live("product"), r \in Fresh("recipe") \cup Known("recipe") :
          Begin(w, <<Save("recipe", r, [product |-> p], "yes")>>, {})
    BY <1>3 DEF handleSaveRecipe
  <2>2. r \in Ids /\ (records["recipe"][r] # Missing \/ r \in Fresh("recipe"))
    BY FreshIs DEF Known
  <2> QED
    BY ZenonT(30), <1>0, <2>1, <2>2, OneStockSave
<1>4. CASE handleProductsImport(w)
  <2>1. PICK a \in Fresh("product"), b \in Fresh("product") :
          /\ a # b
          /\ Begin(w, << Save("product", a, [stock |-> "typed"], "no"), Save("product", b, [stock |-> "typed"], "no") >>, {})
    BY <1>4 DEF handleProductsImport
  <2> DEFINE d == Save("product", a, [stock |-> "typed"], "no")
             e == Save("product", b, [stock |-> "typed"], "no")
  <2>2. d.op = "save" /\ d.kind = "product" /\ d.id = a
    BY ONLY SaveIs
  <2>3. e.op = "save" /\ e.kind = "product" /\ e.id = b
    BY ONLY SaveIs
  <2> HIDE DEF d, e
  <2>4. IsSeq(<<d, e>>) /\ DOMAIN <<d, e>> = {1, 2} /\ <<d, e>>[1] = d /\ <<d, e>>[2] = e
    BY TwoCalls
  <2>5. CallTyped(d, CatalogKinds) /\ CallTyped(e, CatalogKinds)
    BY ZenonT(30), <1>0, <2>2, <2>3, FreshIs DEF CallTyped
  <2>6. NewCalls(<<d, e>>, CatalogKinds)
    BY ZenonT(30), <2>1, <2>2, <2>3, <2>4, <2>5 DEF NewCalls
  <2>7. TurnCatalogCall(records, <<d, e>>, 1) /\ TurnCatalogCall(records, <<d, e>>, 2)
    BY ZenonT(30), <2>2, <2>3, <2>4 DEF TurnCatalogCall
  <2>8. StockBegin(<<d, e>>)
    BY <2>4, <2>6, <2>7 DEF StockBegin
  <2> QED
    BY <2>1, <2>8 DEF d, e
<1>5. CASE PlainDelete(w)
  <2>1. PICK kind \in {"product", "recipe", "ingredient"} : \E id \in Live(kind) : Begin(w, <<Delete(kind, id)>>, {})
    BY <1>5 DEF PlainDelete
  <2>2. PICK id \in Live(kind) : Begin(w, <<Delete(kind, id)>>, {})
    BY <2>1
  <2>3. kind # "ingredient_category" /\ kind \in CatalogKinds /\ id \in Ids
    BY <1>0 DEF Live
  <2> QED
    BY ZenonT(30), <2>2, <2>3, OneStockDelete
<1>6. CASE DeleteCategory(w)
  <2>1. PICK id \in Live("ingredient_category") :
          /\ \A i \in Entities("ingredient") :
               Field("ingredient", i, "category") # Field("ingredient_category", id, "title")
          /\ Begin(w, <<Delete("ingredient_category", id)>>, {"ingredient"})
    BY <1>6 DEF DeleteCategory
  <2>2. id \in Ids
    BY DEF Live
  <2>3. Entities("ingredient") = Live("ingredient")
    BY <2>1, ListedWhole
  <2>4. IngredientsWhole(records)
    BY DEF StockInv, TurnCatalog
  <2>5. \A x \in Ids : records["ingredient"][x].live = "yes" =>
                         records["ingredient"][x].f["category"] # TitleOf(records, id)
    BY ZenonT(30), <2>1, <2>3, <2>4 DEF Live, IsLive, Field, TitleOf, IngredientsWhole
  <2>6. StockBegin(<<Delete("ingredient_category", id)>>)
    BY ZenonT(30), <1>0, <2>2, <2>5, OneStockDelete
  <2> QED
    BY <2>1, <2>6
<1>7. CASE handleTaskToggle(w)
  <2>1. PICK t \in Live("task") :
          Begin(w, <<Save("task", t, [done |-> IF Field("task", t, "done") = "true" THEN "false" ELSE "true"], "no")>>, {})
    BY <1>7 DEF handleTaskToggle
  <2>2. t \in Ids /\ records["task"][t] # Missing
    BY LiveIsKnown
  <2> QED
    BY ZenonT(30), <1>0, <2>1, <2>2, OneStockSave
<1> QED
  BY ZenonT(30), <1>1, <1>2, <1>3, <1>4, <1>5, <1>6, <1>7 DEF CatalogRequest, handleLocalSave, handleLocalDelete

LEMMA StockTurnBeginKeeps ==
  ASSUME StockInv(records, work), NEW w \in Workers, CatalogRequest(w), clean' = "yes"
  PROVE  StockInv(records', work') /\ records' = records
<1>1. PICK s, kinds : Begin(w, s, kinds) /\ StockBegin(s)
  BY StockTurnBegins
<1>2. RecordsInv(records', work', CatalogKinds)
  BY <1>1, BeginKeeps DEF StockBegin, StockInv
<1>3. IsSeq(s) /\ Queues(work)
  BY ZenonT(30), <1>1 DEF StockBegin, NewCalls, StockInv, RecordsInv
<1>4. /\ work'[w] = s /\ records' = records /\ OneAtATime(work')
      /\ \A v \in Workers : v # w => DOMAIN work'[v] = {}
  BY <1>1, <1>3, BeginsInTurn
<1>5. \A v \in Workers : \A i \in DOMAIN work'[v] : TurnCatalogCall(records', work'[v], i)
  BY <1>1, <1>4 DEF StockBegin
<1> QED
  BY ZenonT(30), <1>2, <1>4, <1>5 DEF StockInv, TurnCatalog

LEMMA StockLookupKeeps ==
  ASSUME StockInv(records, work), NEW w \in Workers, RecipeLookup(w)
  PROVE  StockInv(records', work') /\ records' = records
<1>1. ~Idle(w) /\ Queues(work) /\ records' = records /\ OneAtATime(work)
  BY DEF RecipeLookup, StockInv, RecordsInv, TurnCatalog
<1>2. PICK s : StockBegin(s) /\ work' = [work EXCEPT ![w] = s]
  <2> DEFINE p == Head(work[w]).id
             mine == {r \in Entities("recipe") : Has("recipe", r, "product", p)}
  <2>1. CASE ~IsLive("product", p)
    <3>1. work' = [work EXCEPT ![w] = << >>]
      BY ZenonT(30), <2>1 DEF RecipeLookup
    <3>2. StockBegin(<< >>)
      BY NoCalls DEF StockBegin, NewCalls
    <3> QED
      BY Zenon, <3>1, <3>2
  <2>2. CASE IsLive("product", p)
    <3>1. PICK r \in IF mine = {} THEN Fresh("recipe") ELSE mine :
            work' = [work EXCEPT ![w] = <<Save("recipe", r, [product |-> p], "no")>>]
      BY Zenon, <2>2 DEF RecipeLookup
    <3>2. r \in Ids /\ (r \in Fresh("recipe") \/ records["recipe"][r].live = "yes")
      BY ZenonT(30), <3>1, FreshIs DEF Entities, Live, IsLive
    <3>3. records["recipe"][r].live = "yes" => records["recipe"][r] # Missing
      BY DEF Missing
    <3>4. "recipe" \in CatalogKinds
      BY DEF CatalogKinds
    <3>5. StockBegin(<<Save("recipe", r, [product |-> p], "no")>>)
      BY Zenon, <3>2, <3>3, <3>4, OneStockSave
    <3> QED
      BY Zenon, <3>1, <3>5
  <2> QED
    BY <2>1, <2>2
<1>3. /\ RecordsInv(records', work', CatalogKinds) /\ work'[w] = s
      /\ \A v \in Workers : v # w => work'[v] = work[v]
  BY ZenonT(30), <1>1, <1>2, CallsReplaced DEF StockInv, StockBegin
<1>4. \A v \in Workers : v # w => work'[v] = << >>
  BY <1>1, <1>3 DEF OneAtATime, Idle
<1>5. OneAtATime(work')
  BY <1>4 DEF OneAtATime
<1>6. \A v \in Workers : \A i \in DOMAIN work'[v] : TurnCatalogCall(records', work'[v], i)
  BY ZenonT(30), <1>1, <1>2, <1>3, <1>4, NoCalls DEF StockBegin
<1> QED
  BY ZenonT(30), <1>1, <1>3, <1>5, <1>6 DEF StockInv, TurnCatalog

\* A category of the stock goes only when no ingredient names it.
StockKept(r, q) ==
  \A k \in Ids : r["ingredient_category"][k].live = "yes" /\ q["ingredient_category"][k].live # "yes" =>
    \A x \in Ids : q["ingredient"][x].live = "yes" => q["ingredient"][x].f["category"] # TitleOf(r, k)

\* A store call of the one request under way keeps what the catalogue's handlers
\* rely on, and lets no category of the stock go that an ingredient names.
LEMMA StockTurnStoreKeeps ==
  ASSUME StockInv(records, work), NEW w \in Workers, StoreCall(w)
  PROVE  StockInv(records', work') /\ StockKept(records, records')
<1> DEFINE c == work[w][1]
<1>0. RecordsInv(records, work, CatalogKinds)
  BY DEF StockInv
<1>1. /\ RecordsInv(records', work', CatalogKinds) /\ 1 \in DOMAIN work[w]
      /\ Outcome(records, records', work[w], work'[w], CatalogKinds)
      /\ \A i \in DOMAIN work'[w] : i + 1 \in DOMAIN work[w] /\ work'[w][i] = work[w][i + 1]
  BY Zenon, <1>0, StoreCallDoes
<1>2. IngredientsWhole(records) /\ TurnCatalogCall(records, work[w], 1)
  BY Zenon, <1>1 DEF StockInv, TurnCatalog
<1>3. OneAtATime(work') /\ \A v \in Workers : v # w => DOMAIN work'[v] = {}
  BY <1>0, ServedInTurn DEF StockInv, TurnCatalog
<1>4. Gone.live = "gone"
  BY DEF Gone
<1>5. ASSUME NEW i \in DOMAIN work'[w]
      PROVE  TurnCatalogCall(records', work'[w], i)
  <2> DEFINE d == work[w][i + 1]
  <2>1. i + 1 \in DOMAIN work[w] /\ work'[w][i] = d
    BY Zenon, <1>1
  <2>2. TurnCatalogCall(records, work[w], i + 1)
    BY Zenon, <2>1 DEF StockInv, TurnCatalog
  <2>3. IsSeq(work'[w]) /\ i \in Nat /\ IsSeq(work[w])
    BY ZenonT(30), <1>0, <1>1, QueueFactsOf DEF RecordsInv
  <2>4. i \in 1..Len(work'[w]) /\ DOMAIN work[w] = 1..Len(work[w]) /\ Len(work[w]) \in Nat
    BY <2>3, SeqFacts
  <2>5. Len(work[w]) # 1
    BY ONLY SMTT(20), SMTT(30), <2>1, <2>3, <2>4
  <2>6. d.kind # "ingredient_category" /\ (d.kind = "ingredient" /\ d.op = "save" => "category" \in DOMAIN d.fields)
    BY <2>2, <2>5 DEF TurnCatalogCall
  <2> HIDE DEF d
  <2> QED
    BY <2>1, <2>6 DEF TurnCatalogCall
<1>6. \A v \in Workers : \A i \in DOMAIN work'[v] : TurnCatalogCall(records', work'[v], i)
  BY ZenonT(30), <1>3, <1>5
<1>7. ASSUME NEW x \in Ids, records'["ingredient"][x].live = "yes"
      PROVE  "category" \in DOMAIN records'["ingredient"][x].f
  <2>1. CASE records'["ingredient"][x] = records["ingredient"][x]
    BY ZenonT(30), <1>2, <1>7, <2>1 DEF IngredientsWhole
  <2>2. CASE records'["ingredient"][x] # records["ingredient"][x]
    <3>1. c.op = "save" /\ c.kind = "ingredient" /\ c.id = x
      BY ZenonT(30), <1>1, <1>4, <1>7, <2>2 DEF Outcome, OnlyThis, CatalogKinds
    <3>2. Written(records["ingredient"][x], records'["ingredient"][x], c.fields)
      BY Zenon, <1>1, <3>1 DEF Outcome
    <3>3. "category" \in DOMAIN c.fields
      BY Zenon, <1>2, <3>1 DEF TurnCatalogCall
    <3> QED
      BY Zenon, <3>2, <3>3 DEF Written
  <2> QED
    BY ZenonT(30), <2>1, <2>2
<1>8. StockInv(records', work')
  BY ZenonT(30), <1>1, <1>3, <1>6, <1>7 DEF StockInv, TurnCatalog, IngredientsWhole
<1>9. ASSUME NEW k \in Ids, records["ingredient_category"][k].live = "yes", records'["ingredient_category"][k].live # "yes",
             NEW x \in Ids, records'["ingredient"][x].live = "yes"
      PROVE  records'["ingredient"][x].f["category"] # TitleOf(records, k)
  <2>1. records'["ingredient_category"][k] # records["ingredient_category"][k]
    BY <1>9
  <2>2. c.kind = "ingredient_category" /\ c.id = k
    BY Zenon, <1>1, <2>1 DEF Outcome, OnlyThis, CatalogKinds
  <2>3. records'["ingredient"][x] = records["ingredient"][x]
    BY Zenon, <1>1, <2>2 DEF Outcome, OnlyThis, CatalogKinds
  <2> QED
    BY ZenonT(30), <1>2, <1>9, <2>2, <2>3 DEF TurnCatalogCall
<1> QED
  BY Zenon, <1>8, <1>9 DEF StockKept

\* The three parts at the start.
LEMMA TurnsStart ==
  ASSUME HandlersInit
  PROVE  /\ part = "club" => ClubInv(records, work) /\ TurnClub(records, work)
         /\ part = "settings" => SettingsInv(records, work)
         /\ part = "catalog" => StockInv(records, work)
<1>1. \A w \in Workers : work[w] = << >> /\ DOMAIN work[w] = {}
  BY NoCalls DEF HandlersInit, RecordsInit
<1>2. OneAtATime(work)
  BY <1>1 DEF OneAtATime
<1>3. CASE part = "club"
  <2> DEFINE A == [phone |-> CHOOSE p \in Phones : TRUE, group |-> 1, credit |-> "false", member |-> "false"]
  <2>1. {"phone", "group"} \subseteq DOMAIN A
    OBVIOUS
  <2>2. records = ClubRecords
    BY <1>3 DEF HandlersInit, RecordsInit
  <2>3. records["customer"] = [i \in Ids |-> IF i = 1 THEN Stored(A) ELSE Missing]
    BY Zenon, <2>2 DEF ClubRecords
  <2> HIDE DEF A
  <2>4. ASSUME NEW x \in Ids, records["customer"][x].live = "yes"
        PROVE  x = 1 /\ records["customer"][x].f = A
    BY <2>3, <2>4 DEF Missing, Stored
  <2>5. CustomersWhole(records) /\ PhonesDiffer(records)
    BY <2>1, <2>4 DEF CustomersWhole, PhonesDiffer
  <2> QED
    BY ZenonT(30), <1>1, <1>2, <1>3, <2>5, ClubStarts DEF TurnClub
<1>4. CASE part = "settings"
  BY ZenonT(30), <1>4, SettingsStart
<1>5. CASE part = "catalog"
  <2> DEFINE B == [category |-> CHOOSE l \in Labels : TRUE]
  <2>1. "category" \in DOMAIN B
    OBVIOUS
  <2>2. records = CatalogRecords
    BY <1>5 DEF HandlersInit, RecordsInit
  <2>3. records["ingredient"] = [i \in Ids |-> IF i = 1 THEN Stored(B) ELSE Missing]
    BY ZenonT(30), <2>2 DEF CatalogRecords
  <2> HIDE DEF B
  <2>4. ASSUME NEW x \in Ids, records["ingredient"][x].live = "yes"
        PROVE  records["ingredient"][x].f = B
    BY <2>3, <2>4 DEF Missing, Stored
  <2>5. IngredientsWhole(records)
    BY <2>1, <2>4 DEF IngredientsWhole
  <2>6. RecordsInv(records, work, CatalogKinds)
    BY ZenonT(30), <1>5, CatalogStarts DEF CatalogInv
  <2> QED
    BY ZenonT(30), <1>1, <1>2, <1>5, <2>5, <2>6 DEF StockInv, TurnCatalog
<1> QED
  BY ZenonT(30), <1>3, <1>4, <1>5

TurnInv(r, wk) ==
  /\ part = "club" => ClubInv(r, wk) /\ TurnClub(r, wk)
  /\ part = "settings" => SettingsInv(r, wk)
  /\ part = "catalog" => StockInv(r, wk)

LEMMA HistoriesGrow ==
  ASSUME [HandlersNext]_vars, clean' = "yes", cut' = "no"
  PROVE  /\ clean = "yes" /\ cut = "no" /\ part' = part
         /\ \/ UNCHANGED <<records, work>>
            \/ part = "club" /\ \E w \in Workers : ClubRequest(w)
            \/ part = "settings" /\ \E w \in Workers : SettingsRequest(w)
            \/ part = "catalog" /\ \E w \in Workers : CatalogRequest(w)
            \/ part = "catalog" /\ \E w \in Workers : RecipeLookup(w)
            \/ \E w \in Workers : StoreCall(w)
<1>1. ASSUME NEW w, NEW s, NEW kinds, Begin(w, s, kinds)
      PROVE  clean = "yes" /\ cut = "no"
  BY <1>1 DEF Begin
<1>2. ASSUME NEW w \in Workers, ClubRequest(w) PROVE clean = "yes" /\ cut = "no"
  BY ZenonT(30), <1>1, <1>2 DEF ClubRequest, handleClubCustomer, NewCustomer, EditCustomer, handleClubCreditToggle,
       handleClubPayment, handleClubPaymentConfirm, handleClubGroup, handleClubGroupToggle,
       handleClubGroupCredit, handleClubGroupDelete, handleClubGroupMember, handleClubGroupMemberRemove
<1>3. ASSUME NEW w \in Workers, SettingsRequest(w) PROVE clean = "yes" /\ cut = "no"
  BY Zenon, <1>1, <1>3 DEF SettingsRequest, handlePrinterToggle, handlePrintPolicy, handlePOSStages,
       handlePrinterRouteSave, SaveRoute, ClearRoute, handlePrinterRouteToggle
<1>4. ASSUME NEW w \in Workers, CatalogRequest(w) PROVE clean = "yes" /\ cut = "no"
  BY ZenonT(30), <1>1, <1>4 DEF CatalogRequest, handleLocalSave, PlainSave, ProductForm, handleSaveRecipe, handleProductsImport,
       handleLocalDelete, PlainDelete, DeleteCategory, handleTaskToggle
<1>5. CASE part = "club" /\ part' = part /\ \E w \in Workers : ClubRequest(w)
  BY <1>2, <1>5
<1>6. CASE part = "settings" /\ part' = part /\ \E w \in Workers : SettingsRequest(w)
  BY <1>3, <1>6
<1>7. CASE part = "catalog" /\ part' = part /\ \E w \in Workers : CatalogRequest(w)
  BY <1>4, <1>7
<1>8. CASE part = "catalog" /\ part' = part /\ \E w \in Workers : RecipeLookup(w)
  BY Zenon, <1>8 DEF RecipeLookup
<1>9. CASE RecordsStep /\ part' = part
  <2>1. CASE \E w \in Workers : StoreCall(w)
    BY ZenonT(30), <1>9, <2>1 DEF StoreCall
  <2>2. CASE (\E w \in Workers : StoreCallFails(w)) \/ Stop
    <3>1. cut' = "yes"
      BY <2>2 DEF StoreCallFails, Stop
    <3> QED
      BY <3>1
  <2> QED
    BY <1>9, <2>1, <2>2 DEF RecordsStep
<1>10. CASE UNCHANGED <<part, records, work, clean, cut>>
  BY <1>10
<1> QED
  BY SMTT(20), SMTT(30), <1>5, <1>6, <1>7, <1>8, <1>9, <1>10 DEF HandlersNext, vars, recordVars

LEMMA TurnKeeps ==
  ASSUME TurnInv(records, work), [HandlersNext]_vars, clean' = "yes", cut' = "no"
  PROVE  /\ part = "club" => ClubInv(records', work') /\ TurnClub(records', work') /\ ClubKept(records, records')
         /\ part = "settings" => SettingsInv(records', work')
         /\ part = "catalog" => StockInv(records', work') /\ StockKept(records, records')
<1>1. ClubKept(records, records)
  BY DEF ClubKept
<1>2. StockKept(records, records)
  BY Zenon DEF StockKept
<1>3. CASE UNCHANGED <<records, work>>
  BY <1>1, <1>2, <1>3 DEF TurnInv
<1>4. CASE part = "club" /\ \E w \in Workers : ClubRequest(w)
  <2>1. PICK w \in Workers : ClubRequest(w)
    BY <1>4
  <2>2. ClubInv(records, work) /\ TurnClub(records, work)
    BY <1>4 DEF TurnInv
  <2>3. ClubInv(records', work')
    BY ZenonT(30), <2>1, <2>2, ClubBeginKeeps
  <2>4. TurnClub(records', work') /\ records' = records
    BY ZenonT(30), <2>1, <2>2, ClubTurnBeginKeeps
  <2> QED
    BY ONLY ZenonT(30), <1>1, <1>4, <2>3, <2>4
<1>5. CASE part = "settings" /\ \E w \in Workers : SettingsRequest(w)
  BY ZenonT(30), <1>5, SettingsTurnBeginKeeps DEF TurnInv
<1>6. CASE part = "catalog" /\ \E w \in Workers : CatalogRequest(w)
  <2>1. StockInv(records', work') /\ records' = records
    BY ZenonT(30), <1>6, StockTurnBeginKeeps DEF TurnInv
  <2> QED
    BY ZenonT(30), <1>2, <1>6, <2>1
<1>7. CASE part = "catalog" /\ \E w \in Workers : RecipeLookup(w)
  <2>1. StockInv(records', work') /\ records' = records
    BY ZenonT(30), <1>7, StockLookupKeeps DEF TurnInv
  <2> QED
    BY <1>2, <1>7, <2>1
<1>8. CASE \E w \in Workers : StoreCall(w)
  <2>1. PICK w \in Workers : StoreCall(w)
    BY <1>8
  <2>2. CASE part = "club"
    <3>1. ClubInv(records, work) /\ TurnClub(records, work)
      BY ZenonT(30), <2>2 DEF TurnInv
    <3>2. ClubInv(records', work')
      BY <2>1, <3>1, ClubStoreKeeps
    <3> QED
      BY ONLY ZenonT(30), <2>1, <2>2, <3>1, <3>2, ClubTurnStoreKeeps
  <2>3. CASE part = "settings"
    BY ZenonT(30), <2>1, <2>3, SettingsTurnStoreKeeps DEF TurnInv
  <2>4. CASE part = "catalog"
    BY ZenonT(30), <2>1, <2>4, StockTurnStoreKeeps DEF TurnInv
  <2> QED
    BY <2>2, <2>3, <2>4
<1> QED
  BY ZenonT(30), <1>3, <1>4, <1>5, <1>6, <1>7, <1>8, HistoriesGrow

\* InTurn holds for every number of requests and records: as long as requests come
\* one after the other and no listing is cut short, what a handler of the club, of
\* the print settings or of the catalogue looked up is still so when it writes.
THEOREM RequestsInTurnAreSafe == HandlersSpec => InTurn
<1> DEFINE I == clean = "yes" /\ cut = "no" => TurnInv(records, work)
<1>1. HandlersInit => I
  BY ZenonT(30), TurnsStart DEF TurnInv
<1>2. I /\ [HandlersNext]_vars => I'
  <2> SUFFICES ASSUME I, [HandlersNext]_vars, clean' = "yes", cut' = "no"
               PROVE  TurnInv(records, work)'
    OBVIOUS
  <2>1. part' = part /\ TurnInv(records, work)
    BY HistoriesGrow
  <2> QED
    BY <2>1, TurnKeeps DEF TurnInv
<1> DEFINE Step ==
      clean' = "yes" /\ cut' = "no" =>
       /\ part = "club" =>
            /\ \A c, d \in Live("customer")' :
                 c # d => records'["customer"][c].f["phone"] # records'["customer"][d].f["phone"]
            /\ \A p \in Ids :
                 Field("membership_payment", p, "status") = "paid" =>
                   records'["membership_payment"][p] = records["membership_payment"][p]
            /\ \A g \in Live("customer_group") :
                 g \notin Live("customer_group")' =>
                   \A c \in Live("customer")' : records'["customer"][c].f["group"] # g
       /\ part = "settings" =>
            \A r, q \in Live("printer_route")' :
              r # q => records'["printer_route"][r].f["category"] # records'["printer_route"][q].f["category"]
       /\ part = "catalog" =>
            \A k \in Live("ingredient_category") :
              k \notin Live("ingredient_category")' =>
                \A i \in Live("ingredient")' :
                  records'["ingredient"][i].f["category"] # Field("ingredient_category", k, "title")
<1>3. I /\ [HandlersNext]_vars => Step
  <2> SUFFICES ASSUME I, [HandlersNext]_vars, clean' = "yes", cut' = "no" PROVE Step
    BY Zenon
  <2>1. TurnInv(records, work)
    BY HistoriesGrow
  <2>2. /\ part = "club" => ClubInv(records', work') /\ TurnClub(records', work') /\ ClubKept(records, records')
        /\ part = "settings" => SettingsInv(records', work')
        /\ part = "catalog" => StockInv(records', work') /\ StockKept(records, records')
    BY ZenonT(30), <2>1, TurnKeeps
  <2>3. \A x : /\ x \in Live("customer")' <=> x \in Ids /\ records'["customer"][x].live = "yes"
               /\ x \in Live("customer_group")' <=> x \in Ids /\ records'["customer_group"][x].live = "yes"
               /\ x \in Live("printer_route")' <=> x \in Ids /\ records'["printer_route"][x].live = "yes"
               /\ x \in Live("ingredient")' <=> x \in Ids /\ records'["ingredient"][x].live = "yes"
               /\ x \in Live("ingredient_category")' <=> x \in Ids /\ records'["ingredient_category"][x].live = "yes"
               /\ x \in Live("customer_group") <=> x \in Ids /\ records["customer_group"][x].live = "yes"
               /\ x \in Live("ingredient_category") <=> x \in Ids /\ records["ingredient_category"][x].live = "yes"
    BY DEF Live, IsLive
  <2>4. CASE part = "club"
    <3>1. PhonesDiffer(records') /\ ClubKept(records, records')
      BY <2>2, <2>4 DEF TurnClub
    <3>2. \A p \in Ids : Field("membership_payment", p, "status") = "paid" =>
            LET f == records["membership_payment"][p].f IN "status" \in DOMAIN f /\ f["status"] = "paid"
      BY Zenon DEF Field
    <3>3. \A c, d \in Live("customer")' :
            c # d => records'["customer"][c].f["phone"] # records'["customer"][d].f["phone"]
      BY ZenonT(30), <2>3, <3>1 DEF PhonesDiffer
    <3>4. \A p \in Ids : Field("membership_payment", p, "status") = "paid" =>
            records'["membership_payment"][p] = records["membership_payment"][p]
      BY <3>1, <3>2 DEF ClubKept
    <3>5. \A g \in Live("customer_group") : g \notin Live("customer_group")' =>
            \A c \in Live("customer")' : records'["customer"][c].f["group"] # g
      BY ZenonT(30), <2>3, <3>1 DEF ClubKept
    <3> QED
      BY ZenonT(30), <2>4, <3>3, <3>4, <3>5
  <2>5. CASE part = "settings"
    <3>1. RoutesDiffer(records')
      BY ONLY ZenonT(30), <2>2, <2>5 DEF SettingsInv, TurnSettings
    <3>2. \A r, q \in Live("printer_route")' :
            r # q => records'["printer_route"][r].f["category"] # records'["printer_route"][q].f["category"]
      BY ONLY ZenonT(30), <2>3, <3>1 DEF RoutesDiffer
    <3> QED
      BY <2>5, <3>2
  <2>6. CASE part = "catalog"
    <3>1. StockKept(records, records')
      BY ONLY ZenonT(30), <2>2, <2>6
    <3>2. \A k : Field("ingredient_category", k, "title") = TitleOf(records, k)
      BY DEF Field, TitleOf
    <3>3. \A k \in Live("ingredient_category") : k \notin Live("ingredient_category")' =>
            \A i \in Live("ingredient")' :
              records'["ingredient"][i].f["category"] # Field("ingredient_category", k, "title")
      BY Zenon, <2>3, <3>1, <3>2 DEF StockKept
    <3> QED
      BY <2>6, <3>3
  <2> QED
    BY Zenon, <2>4, <2>5, <2>6
<1> QED
  BY <1>1, <1>2, <1>3, PTL DEF HandlersSpec, InTurn
=============================================================================
