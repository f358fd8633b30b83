---------------------------- MODULE CustomerClub ----------------------------
(***************************************************************************)
(* The customer club of the desktop till: the /club handlers of app.go.    *)
(* Customers are told apart by their phone, groups and payments by id; of  *)
(* the forms only the fields that handlers read again are kept.            *)
(***************************************************************************)
EXTENDS LocalRecords

CONSTANTS Phones, References

NoGroup == 0

\* Groups a form may name: nothing checks that a group is still there, and the
\* page it was chosen on may be old.
KnownGroups == Known("customer_group")

Customers == Live("customer")

WithPhone(p) == {c \in Entities("customer") : Field("customer", c, "phone") = p}

Opposite(value) == IF value = "true" THEN "false" ELSE "true"

\* Mutant: the phone is not looked up.
NewCustomerUnchecked(w) ==
  \E p \in Phones, id \in Fresh("customer") :
    Begin(w, <<Save("customer", id, [phone |-> p, group |-> NoGroup, credit |-> "false", member |-> "true"], "yes")>>,
          {"customer"})

\* The form of a new customer: the phone must be new among those listed.
NewCustomer(w) ==
  \E p \in Phones, g \in KnownGroups \cup {NoGroup}, m \in {"true", "false"}, id \in Fresh("customer") :
    /\ WithPhone(p) = {}
    /\ Begin(w, <<Save("customer", id, [phone |-> p, group |-> g, credit |-> "false", member |-> m], "yes")>>,
             {"customer"})

\* Mutant: the form's membership box is saved with it.
EditCustomerWhole(w) ==
  \E c \in Customers, m \in {"true", "false"} :
    Begin(w, <<Save("customer", c, [group |-> NoGroup, member |-> m], "yes")>>, {})

\* The form of a known customer leaves phone and membership alone.
EditCustomer(w) ==
  \E c \in Customers, g \in KnownGroups \cup {NoGroup}, credit \in {"true", "false"} :
    Begin(w, <<Save("customer", c, [group |-> g, credit |-> credit], "yes")>>, {})

handleClubCustomer(w) == NewCustomer(w) \/ EditCustomer(w)

handleClubCreditToggle(w) ==
  \E c \in Customers :
    Begin(w, <<Save("customer", c, [credit |-> Opposite(Field("customer", c, "credit"))], "yes")>>, {})

handleClubPayment(w) ==
  \E c \in Customers, id \in Fresh("membership_payment") :
    Begin(w, <<Save("membership_payment", id, [customer |-> c, status |-> "pending"], "yes")>>, {})

\* The payment first, then the membership it pays for; a failure of the second
\* is ignored.
handleClubPaymentConfirm(w) ==
  \E p \in Live("membership_payment"), ref \in References :
    /\ Field("membership_payment", p, "status") = "pending"
    /\ Begin(w, << Save("membership_payment", p, [status |-> "paid", ref |-> ref], "yes"),
                   Save("customer", Field("membership_payment", p, "customer"), [member |-> "true"], "no") >>, {})

\* A new group, or the form of a known one; a deleted one comes back.
handleClubGroup(w) ==
  \/ \E id \in Fresh("customer_group"), credit \in {"true", "false"} :
       Begin(w, <<Save("customer_group", id, [active |-> "true", credit |-> credit], "yes")>>, {})
  \/ \E g \in KnownGroups, credit \in {"true", "false"} :
       Begin(w, <<Save("customer_group", g, [credit |-> credit], "yes")>>, {})

\* A group without the flag counts as active.
handleClubGroupToggle(w) ==
  \E g \in Live("customer_group") :
    Begin(w, <<Save("customer_group", g,
                    [active |-> IF Field("customer_group", g, "active") = "false" THEN "true" ELSE "false"],
                    "yes")>>, {})

handleClubGroupCredit(w) ==
  \E g \in Live("customer_group") :
    Begin(w, <<Save("customer_group", g, [credit |-> Opposite(Field("customer_group", g, "credit"))], "yes")>>, {})

\* The one list of a set of ids, as the store sorts it.
InOrder(S) == {s \in [1..Cardinality(S) -> S] : \A i, j \in DOMAIN s : i < j => s[i] < s[j]}

\* The listed members leave the group one by one, then it goes.
handleClubGroupDelete(w) ==
  \E g \in KnownGroups :
  \E members \in InOrder({c \in Entities("customer") : Field("customer", c, "group") = g}) :
    Begin(w, [i \in DOMAIN members |-> Save("customer", members[i], [group |-> NoGroup], "no")]
               \o <<Delete("customer_group", g)>>, {"customer"})

\* By phone: the first customer listed with it joins, or a new one is made.
handleClubGroupMember(w) ==
  \E g \in KnownGroups, p \in Phones :
    \/ \E c \in WithPhone(p) :
         /\ \A d \in WithPhone(p) : c <= d
         /\ Begin(w, <<Save("customer", c, [group |-> g], "yes")>>, {"customer"})
    \/ \E id \in Fresh("customer") :
         /\ WithPhone(p) = {}
         /\ Begin(w, <<Save("customer", id, [phone |-> p, group |-> g, member |-> "true"], "yes")>>, {"customer"})

handleClubGroupMemberRemove(w) ==
  \E c \in Customers : Begin(w, <<Save("customer", c, [group |-> NoGroup], "yes")>>, {})

ClubRequest(w) ==
  \/ handleClubCustomer(w) \/ handleClubCreditToggle(w)
  \/ handleClubPayment(w) \/ handleClubPaymentConfirm(w)
  \/ handleClubGroup(w) \/ handleClubGroupToggle(w) \/ handleClubGroupCredit(w) \/ handleClubGroupDelete(w)
  \/ handleClubGroupMember(w) \/ handleClubGroupMemberRemove(w)

\* One customer in one group, with a payment to confirm.
ClubRecords ==
  [customer |-> [i \in Ids |-> IF i = 1 THEN Stored([phone |-> CHOOSE p \in Phones : TRUE, group |-> 1, credit |-> "false",
                                                     member |-> "false"]) ELSE Missing],
   customer_group |-> [i \in Ids |-> IF i = 1 THEN Stored([active |-> "true", credit |-> "false"]) ELSE Missing],
   membership_payment |-> [i \in Ids |-> IF i = 1 THEN Stored([customer |-> 1, status |-> "pending"]) ELSE Missing]]
=============================================================================
