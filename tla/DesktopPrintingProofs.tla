------------------------ MODULE DesktopPrintingProofs -----------------------
(***************************************************************************)
(* Machine-checked proofs about DesktopPrinting, for any printers,         *)
(* categories, routes, settings and number of concurrent requests.         *)
(***************************************************************************)
EXTENDS DesktopPrinting, WellFoundedInduction, TLAPS

\* The provers tried in turn at a leaf that names none.
USE SMT, Zenon, SMTT(20)

----------------------------------------------------------------------------
(* Positions in a list.                                                    *)

\* A set of positions that is not empty has a last one.
LEMMA LastPosition ==
  ASSUME NEW n \in Nat, NEW T \in SUBSET (1..n), T # {}
  PROVE  \E i \in T : \A j \in T : j <= i
<1> DEFINE D == {k \in Nat : n - k \in T}
<1>1. D \subseteq Nat /\ D # {}
  <2>1. PICK i \in T : TRUE
    BY Zenon
  <2>2. n - i \in Nat /\ n - (n - i) = i
    OBVIOUS
  <2> QED
    BY Zenon, <2>1, <2>2
<1>2. PICK d \in D : \A e \in D : ~(<<e, d>> \in OpToRel(<, Nat))
  BY Zenon, <1>1, NatLessThanWellFounded, WFMin
<1>3. \A e \in D : ~(e < d)
  BY Zenon, <1>1, <1>2 DEF OpToRel
<1>4. \A j \in T : j <= n - d
  <2> SUFFICES ASSUME NEW j \in T PROVE j <= n - d
    OBVIOUS
  <2>1. n - j \in Nat /\ n - (n - j) = j
    OBVIOUS
  <2>2. ~(n - j < d)
    BY <1>3, <2>1
  <2> QED
    BY <2>2
<1> QED
  BY <1>4

----------------------------------------------------------------------------
(* Lists of anything.                                                      *)

IsSeq(s) == \E S : s \in Seq(S)

LEMMA SeqAppend ==
  ASSUME NEW s, IsSeq(s), NEW x
  PROVE  /\ IsSeq(Append(s, x))
         /\ Len(Append(s, x)) = Len(s) + 1
         /\ DOMAIN Append(s, x) = DOMAIN s \cup {Len(s) + 1}
         /\ Len(s) + 1 \notin DOMAIN s
         /\ Append(s, x)[Len(s) + 1] = x
         /\ \A i \in DOMAIN s : Append(s, x)[i] = s[i]
<1>1. PICK S : s \in Seq(S)
  BY DEF IsSeq
<1>2. s \in Seq(S \cup {x})
  BY <1>1
<1>3. Append(s, x) \in Seq(S \cup {x})
  BY <1>2
<1> QED
  BY <1>2, <1>3 DEF IsSeq

LEMMA SeqTail ==
  ASSUME NEW s, IsSeq(s), s # << >>
  PROVE  /\ IsSeq(Tail(s))
         /\ Head(s) = s[1] /\ 1 \in DOMAIN s
         /\ \A i \in DOMAIN Tail(s) : i + 1 \in DOMAIN s /\ Tail(s)[i] = s[i + 1]
<1>1. PICK S : s \in Seq(S)
  BY DEF IsSeq
<1> QED
  BY <1>1 DEF IsSeq

LEMMA SeqExcept ==
  ASSUME NEW s, IsSeq(s), NEW i \in DOMAIN s, NEW x
  PROVE  IsSeq([s EXCEPT ![i] = x]) /\ Len([s EXCEPT ![i] = x]) = Len(s)
<1>1. PICK S : s \in Seq(S)
  BY DEF IsSeq
<1>2. [s EXCEPT ![i] = x] \in Seq(S \cup {x})
  BY <1>1
<1> QED
  BY <1>1, <1>2 DEF IsSeq

----------------------------------------------------------------------------
(* Helpers of the routing.                                                 *)

\* Copies are clamped to 1..5 (addKitchen, PrintScenario.docs).
LEMMA ClampType ==
  ASSUME NEW n \in Int
  PROVE  Clamp(n) \in 1..5
BY DEF Clamp, CopyLimit

\* The route of a category is one of the stored routes, or none.
LEMMA RouteType ==
  ASSUME NEW routes \in Seq([cat : Categories, printer : Printers, copies : Int, active : {"yes", "no"}]),
         NEW active, NEW c, routeByCat(routes, active, c) # 0
  PROVE  routeByCat(routes, active, c) \in InForce(routes, active)
<1> DEFINE mine == {i \in InForce(routes, active) : routes[i].cat = c}
<1>1. mine # {}
  BY DEF routeByCat
<1>2. mine \in SUBSET (1..Len(routes))
  BY DEF InForce
<1>3. \E i \in mine : \A j \in mine : j <= i
  <2>1. Len(routes) \in Nat
    OBVIOUS
  <2> HIDE DEF mine
  <2> QED
    BY Zenon, <1>1, <1>2, <2>1, LastPosition
<1>4. routeByCat(routes, active, c) \in mine
  BY <1>1, <1>3 DEF routeByCat
<1> QED
  BY <1>4
----------------------------------------------------------------------------
(* The invariant of the routing loop.                                      *)

Fields == {"pc", "kind", "doc", "want", "todo", "left", "tickets", "wants", "list", "out", "copy", "res", "known"}

RouteOf(k, c) == routeByCat(k.routes, k.active, c)

\* The categories among S that a route sends to printer p.
RoutedTo(k, S, p) == {c \in S : RouteOf(k, c) # 0 /\ Destination(k.routes[RouteOf(k, c)], k.active) = p}

\* Half-way: the categories already seen are on the tickets of their printers,
\* or left over; a printer none was routed to has no ticket.
HalfRouted(k, q) ==
  /\ q.todo \subseteq k.cats
  /\ q.left = {c \in k.cats \ q.todo : RouteOf(k, c) = 0}
  /\ DOMAIN q.tickets = Printers
  /\ \A p \in Printers :
       LET S == RoutedTo(k, k.cats \ q.todo, p) IN
       /\ TicketFor(k, q.tickets[p], S, q.want.kitchen)
       /\ S = {} => q.tickets[p] = NoTicket

RequestInv(k, q) ==
  /\ DOMAIN q = Fields
  /\ q.pc = "routing" => q.want.kitchen \in Int
  /\ q.want.kitchen > 0 /\ k.active # << >> =>
       /\ q.pc = "routing" => HalfRouted(k, q)
       /\ q.pc = "look" => AsRouted(k, q.tickets, q.want.kitchen)

RouteInv ==
  /\ cfg \in Configs
  /\ DOMAIN req = Requests
  /\ \A r \in Requests : RequestInv(cfg, req[r])

\* What every step does but those of the routing: request r, if any, is past it.
LEMMA PastRouting ==
  ASSUME NEW k, NEW q, DOMAIN q = Fields, q.pc \notin {"routing", "look"}
  PROVE  RequestInv(k, q)
BY DEF RequestInv

LEMMA DocsType ==
  ASSUME NEW s \in Profiles, NEW event \in {"create", "notable", "checkout", "complete"}
  PROVE  docs(printPolicy(s, event), event).kitchen \in Int
<1>1. printPolicy(s, event).copies \in Int
  BY ProfilesTyped DEF printPolicy, Scenario
<1>2. Clamp(printPolicy(s, event).copies) \in Int
  BY <1>1, ClampType
<1> HIDE DEF printPolicy, Clamp
<1>3. CASE event = "checkout"
  BY <1>3 DEF docs, checkoutDocs, Docs, NoDocs
<1>4. CASE event # "checkout"
  BY <1>2, <1>4 DEF docs, Docs, NoDocs
<1> QED
  BY <1>3, <1>4

\* The route of a category has a number of copies.
LEMMA RouteCopies ==
  ASSUME NEW k \in Configs, NEW c, RouteOf(k, c) # 0
  PROVE  k.routes[RouteOf(k, c)].copies \in Int
<1> DEFINE R == [cat : Categories, printer : Printers, copies : Int, active : {"yes", "no"}]
           i == RouteOf(k, c)
           rs == k.routes
<1>1. rs \in Seq(R)
  BY Zenon, RoutesTyped
<1>2. i \in DOMAIN rs
  BY <1>1, RouteType, Zenon DEF RouteOf, InForce
<1>3. rs[i] \in R
  <2> HIDE DEF R, i, rs
  <2> QED
    BY <1>1, <1>2
<1> QED
  BY <1>3

\* Copies a category asks for are a number.
LEMMA ShareType ==
  ASSUME NEW k \in Configs, NEW c, NEW want \in Int
  PROVE  Share(k, c, want) \in Int
<1>1. CASE RouteOf(k, c) = 0
  BY <1>1, ClampType DEF Share, RouteOf
<1>2. CASE RouteOf(k, c) # 0
  <2>1. Clamp(k.routes[RouteOf(k, c)].copies) \in Int
    BY <1>2, RouteCopies, ClampType
  <2>2. want * Clamp(k.routes[RouteOf(k, c)].copies) \in Int
    BY <2>1
  <2> QED
    BY <2>2, <1>2, ClampType DEF Share, RouteOf
<1> QED
  BY <1>1, <1>2

\* addKitchen adds categories to a printer's ticket and touches no other.
LEMMA AddKitchenExact ==
  ASSUME NEW k \in Configs, NEW want \in Int, NEW t, DOMAIN t = Printers, NEW p, NEW C, C # {}, NEW n \in Int,
         \A c \in C : Share(k, c, want) = Clamp(n)
  PROVE  LET u == addKitchen(t, p, "no", C, n) IN
         /\ DOMAIN u = Printers
         /\ \A q \in Printers : q # p => u[q] = t[q]
         /\ p \in Printers =>
              \A S : TicketFor(k, t[p], S, want) => TicketFor(k, u[p], S \cup C, want)
<1> DEFINE u == addKitchen(t, p, "no", C, n)
<1>1. DOMAIN u = Printers /\ \A q \in Printers : q # p => u[q] = t[q]
  BY DEF addKitchen
<1>2. ASSUME p \in Printers, NEW S, TicketFor(k, t[p], S, want)
      PROVE  TicketFor(k, u[p], S \cup C, want)
  <2>1. Clamp(n) \in Int
    BY ClampType
  <2>2. \A c \in S \cup C : Share(k, c, want) \in Int
    BY ShareType
  <2>3. p # NoPrinter
    BY <1>2, NoPrinterIsNone
  <2>4. CASE S = {}
    <3>1. u[p] = [on |-> "yes", full |-> "no", cats |-> C, copies |-> Clamp(n)]
      BY <1>2, <2>3, <2>4 DEF addKitchen, TicketFor
    <3> QED
      BY <2>1, <2>4, <3>1 DEF TicketFor
  <2>5. CASE S # {}
    <3>1. t[p].copies \in Int
      BY <1>2, <2>2, <2>5 DEF TicketFor
    <3>2. u[p] = [on |-> "yes", full |-> "no", cats |-> S \cup C,
                  copies |-> IF Clamp(n) > t[p].copies THEN Clamp(n) ELSE t[p].copies]
      BY <1>2, <2>3, <2>5 DEF addKitchen, TicketFor
    <3> HIDE DEF u
    <3>3. CASE Clamp(n) > t[p].copies
      BY <1>2, <2>1, <2>2, <2>5, <3>1, <3>2, <3>3 DEF TicketFor
    <3>4. CASE ~(Clamp(n) > t[p].copies)
      BY <1>2, <2>1, <2>2, <2>5, <3>1, <3>2, <3>4 DEF TicketFor
    <3> QED
      BY <3>3, <3>4
  <2> QED
    BY <2>4, <2>5
<1> QED
  BY <1>1, <1>2

\* A new request has seen no category.
LEMMA BeginRoutes ==
  ASSUME RouteInv, NEW r \in Requests, NEW kind, NEW doc, NEW want, want.kitchen \in Int, Begin(r, kind, doc, want)
  PROVE  RouteInv'
<1>1. cfg' = cfg /\ DOMAIN req' = Requests /\ \A q \in Requests : q # r => req'[q] = req[q]
  BY DEF Begin, RouteInv
<1>2. /\ DOMAIN req'[r] = Fields
      /\ req'[r].pc = "routing" /\ req'[r].want = want /\ req'[r].left = {} /\ req'[r].tickets = NoTickets
      /\ req'[r].todo = IF want.kitchen > 0 /\ cfg.active # << >> THEN cfg.cats ELSE {}
  BY DEF Begin, RouteInv, Blank, Fields
<1>3. ASSUME want.kitchen > 0, cfg.active # << >>
      PROVE  HalfRouted(cfg, req'[r])
  <2>1. \A p \in Printers : RoutedTo(cfg, cfg.cats \ req'[r].todo, p) = {}
    BY <1>2, <1>3 DEF RoutedTo
  <2>2. \A p \in Printers : TicketFor(cfg, NoTickets[p], {}, want.kitchen) /\ NoTickets[p] = NoTicket
    BY DEF TicketFor, NoTickets, NoTicket
  <2> QED
    BY <1>2, <1>3, <2>1, <2>2, Zenon DEF HalfRouted, NoTickets
<1>4. RequestInv(cfg, req'[r])
  BY <1>2, <1>3 DEF RequestInv
<1> QED
  BY <1>1, <1>4 DEF RouteInv

\* One round of the loop.
LEMMA RouteCategoryRoutes ==
  ASSUME RouteInv, NEW r \in Requests, RouteCategory(r)
  PROVE  RouteInv'
<1> DEFINE q == req[r]
           want == req[r].want.kitchen
<1>1. cfg' = cfg /\ DOMAIN req' = Requests /\ \A s \in Requests : s # r => req'[s] = req[s]
  BY DEF RouteCategory, RouteInv
<1>2. PICK c \in req[r].todo :
        LET i == RouteOf(cfg, c) IN
        req' = [req EXCEPT ![r].todo = @ \ {c},
                 ![r].left = IF i = 0 THEN @ \cup {c} ELSE @,
                 ![r].tickets = IF i = 0 THEN @
                                ELSE addKitchen(@, Destination(cfg.routes[i], cfg.active), "no", {c},
                                                req[r].want.kitchen * Clamp(cfg.routes[i].copies))]
  BY Zenon DEF RouteCategory, RouteOf
<1>3. q.pc = "routing" /\ DOMAIN q = Fields /\ want \in Int
  BY DEF RouteCategory, RouteInv, RequestInv
<1> DEFINE i == RouteOf(cfg, c)
           dest == Destination(cfg.routes[i], cfg.active)
           n == want * Clamp(cfg.routes[i].copies)
           u == addKitchen(q.tickets, dest, "no", {c}, n)
<1>4. /\ DOMAIN req'[r] = Fields
      /\ req'[r].pc = "routing" /\ req'[r].want = q.want
      /\ req'[r].todo = q.todo \ {c}
      /\ req'[r].left = IF i = 0 THEN q.left \cup {c} ELSE q.left
      /\ req'[r].tickets = IF i = 0 THEN q.tickets ELSE u
  <2> HIDE DEF i, u
  <2>1. req' = [req EXCEPT ![r].todo = @ \ {c},
                 ![r].left = IF i = 0 THEN @ \cup {c} ELSE @,
                 ![r].tickets = IF i = 0 THEN @ ELSE u]
    BY <1>2, <1>3 DEF i, u, RouteInv, Fields
  <2> QED
    BY <2>1, <1>3 DEF Fields, RouteInv
<1>5. ASSUME want > 0, cfg.active # << >>
      PROVE  HalfRouted(cfg, req'[r])
  <2>1. HalfRouted(cfg, q)
    BY <1>3, <1>5 DEF RouteInv, RequestInv
  <2>2. c \in cfg.cats /\ c \in q.todo /\ q.todo \subseteq cfg.cats
    BY <1>2, <2>1, Zenon DEF HalfRouted
  <2> DEFINE seen == cfg.cats \ q.todo
             seen1 == cfg.cats \ req'[r].todo
  <2>3. seen1 = seen \cup {c} /\ req'[r].todo \subseteq cfg.cats
    BY <1>4, <2>2
  <2>4. req'[r].left = {x \in seen1 : RouteOf(cfg, x) = 0}
    BY <1>4, <2>1, <2>3 DEF HalfRouted
  <2>5. CASE i = 0
    <3>1. \A p \in Printers : RoutedTo(cfg, seen1, p) = RoutedTo(cfg, seen, p)
      BY <2>3, <2>5 DEF RoutedTo
    <3> QED
      BY <1>4, <2>1, <2>3, <2>4, <2>5, <3>1, Zenon DEF HalfRouted
  <2>6. CASE i # 0
    <3>1. \A p \in Printers : RoutedTo(cfg, seen1, p) = RoutedTo(cfg, seen, p) \cup (IF p = dest THEN {c} ELSE {})
      BY <2>3, <2>6 DEF RoutedTo
    <3>2. Share(cfg, c, want) = Clamp(n)
      BY <2>6 DEF Share, RouteOf
    <3>3. n \in Int
      <4>1. cfg.routes[i].copies \in Int
        BY <2>6, RouteCopies DEF RouteInv
      <4>2. Clamp(cfg.routes[i].copies) \in Int
        BY <4>1, ClampType
      <4> QED
        BY <1>3, <4>2
    <3> HIDE DEF n
    <3>4. /\ DOMAIN u = Printers
          /\ \A p \in Printers : p # dest => u[p] = q.tickets[p]
          /\ dest \in Printers =>
               \A S : TicketFor(cfg, q.tickets[dest], S, want) => TicketFor(cfg, u[dest], S \cup {c}, want)
      <4> HIDE DEF dest
      <4>1. cfg \in Configs /\ DOMAIN q.tickets = Printers /\ {c} # {}
        BY <2>1 DEF RouteInv, HalfRouted
      <4>2. \A x \in {c} : Share(cfg, x, want) = Clamp(n)
        BY <3>2
      <4> QED
        BY Zenon, <1>3, <3>3, <4>1, <4>2, AddKitchenExact
    <3> HIDE DEF u, dest
    <3>5. ASSUME NEW p \in Printers
          PROVE  /\ TicketFor(cfg, u[p], RoutedTo(cfg, seen1, p), want)
                 /\ RoutedTo(cfg, seen1, p) = {} => u[p] = NoTicket
      <4> DEFINE S == RoutedTo(cfg, seen, p)
      <4>1. TicketFor(cfg, q.tickets[p], S, want) /\ (S = {} => q.tickets[p] = NoTicket)
        BY <2>1, <3>5 DEF HalfRouted
      <4>2. RoutedTo(cfg, seen1, p) = S \cup (IF p = dest THEN {c} ELSE {})
        BY <3>1, <3>5
      <4> HIDE DEF S, seen1, want
      <4>3. CASE p = dest
        <5>1. RoutedTo(cfg, seen1, p) = S \cup {c} /\ S \cup {c} # {}
          BY <4>2, <4>3
        <5> QED
          BY <3>4, <3>5, <4>1, <4>3, <5>1, Zenon
      <4>4. CASE p # dest
        <5>1. RoutedTo(cfg, seen1, p) = S /\ u[p] = q.tickets[p]
          BY <3>4, <3>5, <4>2, <4>4
        <5> QED
          BY <4>1, <5>1
      <4> QED
        BY <4>3, <4>4
    <3> QED
      BY Zenon, <1>4, <2>3, <2>4, <2>6, <3>4, <3>5 DEF HalfRouted
  <2> QED
    BY <2>5, <2>6
<1>6. RequestInv(cfg, req'[r])
  BY <1>3, <1>4, <1>5 DEF RequestInv
<1> QED
  BY <1>1, <1>6 DEF RouteInv

\* The end of the loop: what is left over goes to the kitchen station.
LEMMA EnqueueRoutes ==
  ASSUME RouteInv, NEW r \in Requests, EnqueueOrderPrintJobsDocs(r)
  PROVE  RouteInv'
<1> DEFINE q == req[r]
           want == req[r].want.kitchen
           kp == kitchenStation(cfg.active)
           t1 == addDefault(q.tickets, cfg.routes, cfg.active, q.left, want)
<1>1. cfg' = cfg /\ DOMAIN req' = Requests /\ \A s \in Requests : s # r => req'[s] = req[s]
  BY DEF EnqueueOrderPrintJobsDocs, RouteInv
<1>2. q.pc = "routing" /\ q.todo = {} /\ DOMAIN q = Fields /\ want \in Int
  BY DEF EnqueueOrderPrintJobsDocs, RouteInv, RequestInv
<1>3. /\ DOMAIN req'[r] = Fields /\ req'[r].pc = "look" /\ req'[r].want = q.want
      /\ want > 0 /\ cfg.active # << >> => req'[r].tickets = t1
  <2> HIDE DEF t1
  <2>1. PICK t, w : /\ req' = [req EXCEPT ![r].pc = "look", ![r].tickets = t, ![r].wants = w]
                    /\ want > 0 /\ cfg.active # << >> => t = t1
    BY Zenon DEF EnqueueOrderPrintJobsDocs, t1
  <2> QED
    BY <1>2, <2>1 DEF Fields, RouteInv
<1>4. ASSUME want > 0, cfg.active # << >>
      PROVE  AsRouted(cfg, t1, want)
  <2>1. HalfRouted(cfg, q) /\ cfg \in Configs
    BY <1>2, <1>4 DEF RouteInv, RequestInv
  <2>2. q.left = {c \in cfg.cats : RouteOf(cfg, c) = 0} /\ DOMAIN q.tickets = Printers
    BY <1>2, <2>1 DEF HalfRouted
  <2>3. \A p \in Printers : /\ TicketFor(cfg, q.tickets[p], RoutedTo(cfg, cfg.cats, p), want)
                            /\ RoutedTo(cfg, cfg.cats, p) = {} => q.tickets[p] = NoTicket
    BY <1>2, <2>1 DEF HalfRouted
  <2>4. CASE InForce(cfg.routes, cfg.active) = {}
    <3>1. \A p \in Printers : q.tickets[p] = NoTicket
      BY <2>3, <2>4 DEF RoutedTo, RouteOf, routeByCat
    <3>2. t1 = IF kp # cashier(cfg.active) THEN addKitchen(q.tickets, kp, "yes", {}, want) ELSE q.tickets
      BY <2>4 DEF addDefault
    <3>3. ASSUME NEW p \in Printers
          PROVE  t1[p] = IF p = kp /\ p # cashier(cfg.active)
                         THEN [on |-> "yes", full |-> "yes", cats |-> {}, copies |-> Clamp(want)]
                         ELSE NoTicket
      <4> HIDE DEF t1, kp
      <4>1. p # NoPrinter
        BY NoPrinterIsNone
      <4> QED
        BY <2>2, <3>1, <3>2, <4>1 DEF addKitchen, NoTicket
    <3> QED
      BY <2>4, <3>3 DEF AsRouted
  <2>5. CASE InForce(cfg.routes, cfg.active) # {}
    <3>1. \A p \in Printers :
            {c \in cfg.cats : Home(cfg, c) = p} = RoutedTo(cfg, cfg.cats, p) \cup (IF p = kp THEN q.left ELSE {})
      BY <2>2 DEF RoutedTo, Home, RouteOf
    <3>2. CASE q.left = {}
      <4>1. t1 = q.tickets
        BY <2>5, <3>2 DEF addDefault
      <4>2. \A p \in Printers : {c \in cfg.cats : Home(cfg, c) = p} = RoutedTo(cfg, cfg.cats, p)
        BY <3>1, <3>2
      <4> QED
        BY <2>3, <2>5, <4>1, <4>2, Zenon DEF AsRouted
    <3>3. CASE q.left # {}
      <4>1. t1 = addKitchen(q.tickets, kp, "no", q.left, want)
        BY <2>5, <3>3 DEF addDefault
      <4>2. \A c \in q.left : Share(cfg, c, want) = Clamp(want)
        BY <2>2 DEF Share, RouteOf
      <4> DEFINE u == addKitchen(q.tickets, kp, "no", q.left, want)
      <4> HIDE DEF kp, t1
      <4>3. /\ \A p \in Printers : p # kp => u[p] = q.tickets[p]
            /\ kp \in Printers =>
                 \A S : TicketFor(cfg, q.tickets[kp], S, want) => TicketFor(cfg, u[kp], S \cup q.left, want)
        <5> DEFINE k == cfg
                   t == q.tickets
                   C == q.left
        <5>1. /\ k \in Configs /\ DOMAIN t = Printers /\ want \in Int /\ C # {}
              /\ \A c \in C : Share(k, c, want) = Clamp(want)
          BY <1>2, <2>1, <2>2, <3>3, <4>2
        <5> HIDE DEF k, t, C, want
        <5>2. LET v == addKitchen(t, kp, "no", C, want) IN
              /\ DOMAIN v = Printers
              /\ \A p \in Printers : p # kp => v[p] = t[p]
              /\ kp \in Printers => \A S : TicketFor(k, t[kp], S, want) => TicketFor(k, v[kp], S \cup C, want)
          BY ONLY <5>1, AddKitchenExact, Zenon
        <5> QED
          BY <5>2 DEF k, t, C, want
      <4>4. ASSUME NEW p \in Printers
            PROVE  TicketFor(cfg, t1[p], {c \in cfg.cats : Home(cfg, c) = p}, want)
        <5>1. CASE p = kp
          <6>1. {c \in cfg.cats : Home(cfg, c) = p} = RoutedTo(cfg, cfg.cats, p) \cup q.left
            BY <3>1, <5>1
          <6> QED
            BY <2>3, <4>1, <4>3, <5>1, <6>1
        <5>2. CASE p # kp
          <6>1. {c \in cfg.cats : Home(cfg, c) = p} = RoutedTo(cfg, cfg.cats, p)
            BY <3>1, <5>2
          <6> QED
            BY <2>3, <4>1, <4>3, <5>2, <6>1
        <5> QED
          BY <5>1, <5>2
      <4> QED
        BY <2>5, <4>4 DEF AsRouted
    <3> QED
      BY <3>2, <3>3
  <2> QED
    BY <2>4, <2>5
<1>5. RequestInv(cfg, req'[r])
  BY <1>3, <1>4 DEF RequestInv
<1> QED
  BY <1>1, <1>5 DEF RouteInv

\* The steps after the routing leave request r past it and the others alone.
LEMMA ProceedPasses ==
  ASSUME NEW q, DOMAIN q = Fields
  PROVE  DOMAIN Proceed(q) = Fields /\ Proceed(q).pc \in {"create", "dispatch", "done"}
BY DEF Proceed, Fields, Blank

LEMMA OthersPass ==
  ASSUME RouteInv, NEW r \in Requests, cfg' = cfg, DOMAIN req' = Requests,
         \A q \in Requests : q # r => req'[q] = req[q],
         DOMAIN req'[r] = Fields, req'[r].pc \notin {"routing", "look"}
  PROVE  RouteInv'
BY PastRouting DEF RouteInv

LEMMA WorkPasses ==
  ASSUME RouteInv, NEW r \in Requests,
         \/ ReadExisting(r) \/ KeepOld(r) \/ CreateNew(r) \/ handlePrintRetry(r) \/ handlePrintTest(r)
         \/ Reprint(r) \/ MarkPrinting(r) \/ SendCopy(r) \/ Verdict(r) \/ StoreFails(r)
  PROVE  RouteInv'
<1>1. DOMAIN req = Requests /\ DOMAIN req[r] = Fields
  BY DEF RouteInv, RequestInv
<1>2. ASSUME NEW q, DOMAIN q = Fields, q.pc \notin {"routing", "look"}, cfg' = cfg, req' = [req EXCEPT ![r] = q]
      PROVE  RouteInv'
  BY <1>1, <1>2, OthersPass
<1>3. \A w, v : LET q == Returned(req[r], w, v) IN DOMAIN q = Fields /\ q.pc \in {"create", "dispatch", "done"}
  BY <1>1, ProceedPasses, Zenon DEF Returned, Fields
<1>4. DOMAIN NextJob(r) = Fields /\ NextJob(r).pc \in {"create", "dispatch", "done"}
  BY <1>1, ProceedPasses, Zenon DEF NextJob, Fields
<1>5. CASE ReadExisting(r)
  BY <1>1, <1>5, OthersPass, Zenon DEF ReadExisting, Fields
<1>6. CASE KeepOld(r)
  BY <1>2, <1>3, <1>6, Zenon DEF KeepOld
<1>7. CASE CreateNew(r)
  <2>1. PICK w, v : req' = [req EXCEPT ![r] = Returned(req[r], w, v)]
    BY <1>7, Zenon DEF CreateNew
  <2>2. cfg' = cfg
    BY <1>7, Zenon DEF CreateNew
  <2>3. \A p \in {"create", "dispatch", "done"} : p \notin {"routing", "look"}
    OBVIOUS
  <2> QED
    BY <1>2, <1>3, <2>1, <2>2, <2>3, Zenon
<1>8. CASE handlePrintRetry(r)
  <2>1. PICK j \in DOMAIN jobs :
          req' = [req EXCEPT ![r] = [Blank EXCEPT !.pc = "dispatch", !.kind = "retry", !.out = <<View(j)>>,
                                                  !.known = PrintedJobs]]
    BY <1>8, Zenon DEF handlePrintRetry
  <2>2. DOMAIN req'[r] = Fields /\ req'[r].pc = "dispatch"
    BY <1>1, <2>1 DEF Blank, Fields
  <2> QED
    BY <1>1, <1>8, <2>1, <2>2, OthersPass, Zenon DEF handlePrintRetry
<1>9. CASE handlePrintTest(r)
  BY <1>1, <1>9, OthersPass DEF handlePrintTest, Blank, Fields
<1>10. CASE Reprint(r)
  BY <1>1, <1>10, OthersPass DEF Reprint, MayReprint, Fields
<1>11. CASE MarkPrinting(r)
  BY <1>1, <1>11, OthersPass DEF MarkPrinting, Fields
<1>12. CASE SendCopy(r)
  <2>1. PICK p, v : /\ req' = [req EXCEPT ![r].copy = @ + 1, ![r].pc = p, ![r].res = v]
                    /\ p \in {"send", "verdict"}
    BY <1>1, <1>12, Zenon DEF SendCopy, Fields
  <2>2. DOMAIN req'[r] = Fields /\ req'[r].pc = p
    BY <1>1, <2>1 DEF Fields
  <2> QED
    <3>1. cfg' = cfg /\ req' = [req EXCEPT ![r] = req'[r]]
      BY Zenon, <1>1, <1>12, <2>1 DEF SendCopy
    <3>2. req'[r].pc \notin {"routing", "look"}
      BY <2>1, <2>2
    <3> QED
      BY <1>2, <2>2, <3>1, <3>2, ZenonT(30)
<1>13. CASE Verdict(r)
  BY <1>2, <1>4, <1>13, Zenon DEF Verdict
<1>14. CASE StoreFails(r)
  BY <1>1, <1>2, <1>4, <1>14, OthersPass DEF StoreFails, MayReprint, Blank, Fields
<1> QED
  BY <1>5, <1>6, <1>7, <1>8, <1>9, <1>10, <1>11, <1>12, <1>13, <1>14

LEMMA RouteInvStep == RouteInv /\ [Next]_vars => RouteInv'
<1> SUFFICES ASSUME RouteInv, [Next]_vars
             PROVE  RouteInv'
  OBVIOUS
<1>1. ASSUME NEW r \in Requests, autoPrintAsync(r)
      PROVE  RouteInv'
  BY <1>1, BeginRoutes, DocsType DEF autoPrintAsync
<1>2. ASSUME NEW r \in Requests, handlePrintOrder(r)
      PROVE  RouteInv'
  <2>1. Docs(1, 1).kitchen \in Int
    BY DEF Docs
  <2> QED
    BY <1>2, <2>1, BeginRoutes DEF handlePrintOrder
<1>3. ASSUME NEW r \in Requests, Work(r)
      PROVE  RouteInv'
  BY <1>3, RouteCategoryRoutes, EnqueueRoutes, WorkPasses DEF Work
<1>4. ASSUME NEW r \in Requests, handlePrintRetry(r) \/ handlePrintTest(r) \/ StoreFails(r)
      PROVE  RouteInv'
  BY <1>4, WorkPasses
<1>5. ASSUME NEW j \in DOMAIN jobs, PushedOut(j)
      PROVE  RouteInv'
  BY <1>5 DEF PushedOut, RouteInv
<1>6. CASE Crash
  <2>1. cfg' = cfg /\ DOMAIN req' = Requests
    BY <1>6 DEF Crash
  <2>2. ASSUME NEW r \in Requests
        PROVE  RequestInv(cfg, req'[r])
    BY <1>6, <2>2, PastRouting DEF Crash, RouteInv, Blank, Fields
  <2> QED
    BY <2>1, <2>2 DEF RouteInv
<1>7. CASE UNCHANGED vars
  BY <1>7 DEF vars, RouteInv
<1> QED
  BY <1>1, <1>2, <1>3, <1>4, <1>5, <1>6, <1>7 DEF Next

\* The kitchen tickets of every request are the ones the routing rules ask for,
\* for any printers, routes and categories and in whatever order the loop of
\* EnqueueOrderPrintJobsDocs meets the categories of the order.
THEOREM TicketsFollowTheRoutes == Spec => []RoutingSound
<1>1. Init => RouteInv
  <2>1. DOMAIN Blank = Fields /\ Blank.pc = "idle"
    BY DEF Blank, Fields
  <2> QED
    BY <2>1, PastRouting DEF Init, RouteInv
<1>2. RouteInv => RoutingSound
  BY DEF RouteInv, RequestInv, RoutingSound
<1> QED
  BY <1>1, <1>2, RouteInvStep, PTL DEF Spec

----------------------------------------------------------------------------
(* The jobs: what is on paper, and which jobs their creators had seen.     *)

JobFields == {"key", "status", "attempts", "listed", "paper", "known", "aside", "reprint"}

\* All copies of the ticket came out in one attempt.
Full(b) == Clamp(b.key.copies) \in Int /\ b.paper >= Clamp(b.key.copies)

\* A job that says "printed" is, and its creator had seen no job with its key.
JobOK(js, j) ==
  /\ DOMAIN js[j] = JobFields
  /\ js[j].paper \in Nat
  /\ js[j].status = "printed" => Full(js[j])
  /\ js[j].known \subseteq DOMAIN js
  /\ \A i \in js[j].known : js[i].key = js[j].key => js[j].key.doc = "test"

JobsOK(js) == IsSeq(js) /\ \A j \in DOMAIN js : JobOK(js, j)

\* A view a request holds is of a job, and has its key.
ViewOK(js, v) ==
  /\ DOMAIN v = {"id", "key", "status", "attempts"}
  /\ v.id \in DOMAIN js
  /\ v.key = js[v.id].key

ViewsOK(js, q) ==
  /\ DOMAIN q = Fields
  /\ IsSeq(q.out)
  /\ \A i \in DOMAIN q.out : ViewOK(js, q.out[i])
  /\ \A v \in q.list : ViewOK(js, v)

\* The copies sent so far in this attempt are on paper.
SendingOK(js, q) ==
  /\ q.pc \in {"dispatch", "send", "verdict"} => q.out # << >>
  /\ q.pc = "dispatch" => q.copy = 0
  /\ q.pc = "send" => q.copy \in Nat /\ q.copy <= js[q.out[1].id].paper
  /\ q.pc = "verdict" /\ q.res = "printed" => Full(js[q.out[1].id])

RequestOK(js, q) == ViewsOK(js, q) /\ SendingOK(js, q)

JobsInv ==
  /\ JobsOK(jobs)
  /\ DOMAIN req = Requests
  /\ \A r \in Requests : RequestOK(jobs, req[r])

\* Jobs are never removed, keep their keys, and paper does not go away.
Grows(js, ks) ==
  \A j \in DOMAIN js : j \in DOMAIN ks /\ ks[j].key = js[j].key /\ ks[j].paper >= js[j].paper

LEMMA GrowsKeeps ==
  ASSUME NEW js, NEW ks, JobsOK(js), JobsOK(ks), Grows(js, ks), NEW q, RequestOK(js, q)
  PROVE  RequestOK(ks, q)
<1>1. ViewsOK(ks, q)
  BY DEF RequestOK, ViewsOK, ViewOK, Grows
<1>2. ASSUME q.pc \in {"send", "verdict"}
      PROVE  LET j == q.out[1].id IN
             j \in DOMAIN js /\ j \in DOMAIN ks /\ ks[j].key = js[j].key /\ ks[j].paper >= js[j].paper
             /\ js[j].paper \in Nat /\ ks[j].paper \in Nat
  <2>1. q.out # << >> /\ IsSeq(q.out)
    BY <1>2 DEF RequestOK, SendingOK, ViewsOK
  <2>2. 1 \in DOMAIN q.out
    BY <2>1, SeqTail
  <2>3. q.out[1].id \in DOMAIN js
    BY <2>2 DEF RequestOK, ViewsOK, ViewOK
  <2> QED
    BY <2>3 DEF Grows, JobsOK, JobOK
<1> DEFINE j == q.out[1].id
<1>3. ASSUME q.pc = "send"
      PROVE  q.copy \in Nat /\ q.copy <= ks[j].paper
  <2>1. q.copy \in Nat /\ q.copy <= js[j].paper
    BY <1>3 DEF RequestOK, SendingOK
  <2>2. js[j].paper \in Nat /\ ks[j].paper \in Nat /\ ks[j].paper >= js[j].paper
    BY <1>2, <1>3
  <2> QED
    BY <2>1, <2>2
<1>4. ASSUME q.pc = "verdict", q.res = "printed"
      PROVE  Full(ks[j])
  <2>1. Full(js[j])
    BY <1>4 DEF RequestOK, SendingOK
  <2>2. js[j].paper \in Nat /\ ks[j].paper \in Nat /\ ks[j].paper >= js[j].paper /\ ks[j].key = js[j].key
    BY <1>2, <1>4
  <2> HIDE DEF j
  <2> QED
    BY <2>1, <2>2 DEF Full
<1>5. SendingOK(ks, q)
  BY <1>3, <1>4, Zenon DEF RequestOK, SendingOK
<1> QED
  BY <1>1, <1>5 DEF RequestOK

\* A step of one request.
LEMMA OneRequest ==
  ASSUME JobsInv, JobsOK(jobs'), Grows(jobs, jobs'), NEW r \in Requests, NEW q,
         req' = [req EXCEPT ![r] = q], RequestOK(jobs', q)
  PROVE  JobsInv'
BY GrowsKeeps DEF JobsInv

LEMMA RequestStep ==
  ASSUME JobsInv, JobsOK(jobs'), Grows(jobs, jobs'), NEW r \in Requests,
         DOMAIN req' = Requests, \A s \in Requests : s # r => req'[s] = req[s], RequestOK(jobs', req'[r])
  PROVE  JobsInv'
BY GrowsKeeps DEF JobsInv

LEMMA SameJobs ==
  ASSUME JobsInv, jobs' = jobs
  PROVE  JobsOK(jobs') /\ Grows(jobs, jobs')
BY DEF JobsInv, JobsOK, JobOK, Grows

LEMMA JobChanges ==
  ASSUME NEW js, JobsOK(js), NEW j \in DOMAIN js, NEW b, DOMAIN b = JobFields,
         b.key = js[j].key, b.known = js[j].known, b.paper \in Nat, b.paper >= js[j].paper,
         b.status = "printed" => Full(b)
  PROVE  JobsOK([js EXCEPT ![j] = b]) /\ Grows(js, [js EXCEPT ![j] = b])
<1> DEFINE ks == [js EXCEPT ![j] = b]
<1>1. IsSeq(ks) /\ DOMAIN ks = DOMAIN js
  BY SeqExcept DEF JobsOK
<1>2. \A i \in DOMAIN js : ks[i].key = js[i].key /\ ks[i].known = js[i].known
  OBVIOUS
<1>3. \A i \in DOMAIN js : ks[i].paper >= js[i].paper
  BY DEF JobsOK, JobOK
<1>4. \A i \in DOMAIN js : DOMAIN ks[i] = JobFields /\ ks[i].paper \in Nat /\ (ks[i].status = "printed" => Full(ks[i]))
  BY DEF JobsOK, JobOK
<1> HIDE DEF ks
<1>5. \A i \in DOMAIN ks : JobOK(ks, i)
  BY <1>1, <1>2, <1>4 DEF JobsOK, JobOK
<1> QED
  BY <1>1, <1>2, <1>3, <1>5, Zenon DEF JobsOK, Grows, ks

LEMMA JobAdded ==
  ASSUME NEW js, JobsOK(js), NEW key, NEW status, status # "printed", NEW known \in SUBSET DOMAIN js, NEW aside,
         \A i \in known : js[i].key # key
  PROVE  LET ks == Append(js, Job(key, status, known, aside)) IN
         JobsOK(ks) /\ Grows(js, ks) /\ Len(ks) \in DOMAIN ks /\ Len(ks) = Len(js) + 1
<1> DEFINE b == Job(key, status, known, aside)
           ks == Append(js, b)
           n == Len(js) + 1
<1>1. /\ DOMAIN b = JobFields /\ b.paper = 0 /\ b.status = status /\ b.known = known /\ b.key = key
  BY DEF Job, JobFields
<1> HIDE DEF b
<1>2. /\ IsSeq(ks) /\ Len(ks) = n /\ DOMAIN ks = DOMAIN js \cup {n} /\ n \notin DOMAIN js
      /\ ks[n] = b /\ \A i \in DOMAIN js : ks[i] = js[i]
  BY SeqAppend DEF JobsOK
<1> HIDE DEF ks, n
<1>3. \A i \in DOMAIN ks : JobOK(ks, i)
  <2>1. \A i \in DOMAIN js : JobOK(ks, i)
    BY <1>2 DEF JobsOK, JobOK
  <2>2. JobOK(ks, n)
    BY <1>1, <1>2 DEF JobOK
  <2> QED
    BY <1>2, <2>1, <2>2
<1>4. Grows(js, ks)
  BY <1>2 DEF Grows, JobsOK, JobOK
<1> QED
  BY <1>2, <1>3, <1>4 DEF JobsOK, ks, b, n

\* A request on its way to the next ticket or the next job.
LEMMA ProceedOK ==
  ASSUME NEW js, NEW q, ViewsOK(js, q)
  PROVE  RequestOK(js, Proceed(q))
<1>1. CASE q.pc = "create" /\ q.wants # {}
  BY <1>1 DEF Proceed, RequestOK, SendingOK
<1>2. CASE ~(q.pc = "create" /\ q.wants # {}) /\ q.out = << >>
  <2> DEFINE d == [Blank EXCEPT !.pc = "done"]
  <2>1. DOMAIN d = Fields /\ d.pc = "done" /\ d.out = << >> /\ d.list = {}
    BY DEF Blank, Fields
  <2>2. IsSeq(<< >>) /\ DOMAIN << >> = {}
    BY DEF IsSeq
  <2>3. Proceed(q) = d
    BY <1>2 DEF Proceed
  <2> HIDE DEF d
  <2> QED
    BY <2>1, <2>2, <2>3 DEF RequestOK, ViewsOK, SendingOK
<1>3. CASE ~(q.pc = "create" /\ q.wants # {}) /\ q.out # << >>
  <2> DEFINE d == [q EXCEPT !.pc = "dispatch", !.list = {}, !.copy = 0, !.res = "none"]
  <2>1. DOMAIN d = Fields /\ d.pc = "dispatch" /\ d.out = q.out /\ d.list = {} /\ d.copy = 0
    BY DEF ViewsOK, Fields
  <2>2. Proceed(q) = d
    BY <1>3 DEF Proceed
  <2> HIDE DEF d
  <2> QED
    BY <1>3, <2>1, <2>2 DEF RequestOK, ViewsOK, SendingOK
<1> QED
  BY <1>1, <1>2, <1>3

LEMMA ReturnedOK ==
  ASSUME NEW js, NEW q, ViewsOK(js, q), NEW w, NEW v, ViewOK(js, v)
  PROVE  RequestOK(js, Returned(q, w, v))
<1> DEFINE o == IF Skips(q.kind, q.doc, v) THEN q.out ELSE Append(q.out, v)
           d == [q EXCEPT !.wants = @ \ {w}, !.out = o]
<1>1. IsSeq(o) /\ \A i \in DOMAIN o : ViewOK(js, o[i])
  <2>1. CASE Skips(q.kind, q.doc, v)
    BY <2>1 DEF ViewsOK
  <2>2. CASE ~Skips(q.kind, q.doc, v)
    BY <2>2, SeqAppend DEF ViewsOK
  <2> QED
    BY <2>1, <2>2
<1> HIDE DEF o
<1>2. DOMAIN d = Fields /\ d.out = o /\ d.list = q.list
  BY DEF ViewsOK, Fields
<1>3. Returned(q, w, v) = Proceed(d)
  BY DEF Returned, o, ViewsOK, Fields
<1> HIDE DEF d
<1>4. ViewsOK(js, d)
  BY <1>1, <1>2 DEF ViewsOK
<1> QED
  BY <1>3, <1>4, ProceedOK

LEMMA NextJobOK ==
  ASSUME NEW js, NEW r, RequestOK(js, req[r]), req[r].out # << >>
  PROVE  RequestOK(js, NextJob(r))
<1> DEFINE q == req[r]
           d == [q EXCEPT !.out = Tail(@)]
<1>1. DOMAIN d = Fields /\ d.out = Tail(q.out) /\ d.list = q.list
  BY DEF RequestOK, ViewsOK, Fields
<1>2. IsSeq(Tail(q.out)) /\ \A i \in DOMAIN Tail(q.out) : ViewOK(js, Tail(q.out)[i])
  BY SeqTail DEF RequestOK, ViewsOK
<1>3. NextJob(r) = Proceed(d)
  BY DEF NextJob
<1>4. \A v \in q.list : ViewOK(js, v)
  BY DEF RequestOK, ViewsOK
<1> HIDE DEF d
<1>5. ViewsOK(js, d)
  BY <1>1, <1>2, <1>4 DEF ViewsOK
<1> QED
  BY <1>3, <1>5, ProceedOK

\* A request that has no job in hand.
LEMMA RestingOK ==
  ASSUME NEW js, NEW q, DOMAIN q = Fields, q.out = << >>, q.list = {},
         q.pc \notin {"dispatch", "send", "verdict"}
  PROVE  RequestOK(js, q)
<1>1. IsSeq(<< >>) /\ DOMAIN << >> = {}
  BY DEF IsSeq
<1> QED
  BY <1>1 DEF RequestOK, ViewsOK, SendingOK

\* A request whose one job is in hand.
LEMMA OneJobOK ==
  ASSUME NEW js, NEW q, NEW v, ViewOK(js, v), DOMAIN q = Fields, q.out = <<v>>, q.list = {},
         q.pc = "dispatch", q.copy = 0
  PROVE  RequestOK(js, q)
<1>1. IsSeq(<<v>>) /\ DOMAIN <<v>> = {1} /\ <<v>>[1] = v /\ <<v>> # << >>
  <2>1. <<v>> \in Seq({v})
    OBVIOUS
  <2>2. IsSeq(<<v>>)
    BY <2>1, Zenon DEF IsSeq
  <2>3. DOMAIN <<v>> = {1} /\ <<v>>[1] = v
    OBVIOUS
  <2>4. <<v>> # << >>
    OBVIOUS
  <2> QED
    BY <2>2, <2>3, <2>4
<1> QED
  BY <1>1 DEF RequestOK, ViewsOK, SendingOK

LEMMA ViewIsOK ==
  ASSUME NEW j \in DOMAIN jobs
  PROVE  ViewOK(jobs, View(j))
BY DEF View, ViewOK

----------------------------------------------------------------------------
(* Each step keeps JobsInv.                                                *)

LEMMA BeginKeeps ==
  ASSUME JobsInv, NEW r \in Requests, NEW kind, NEW doc, NEW want, Begin(r, kind, doc, want)
  PROVE  JobsInv'
<1>1. jobs' = jobs
  BY DEF Begin
<1>2. /\ DOMAIN req' = Requests /\ \A s \in Requests : s # r => req'[s] = req[s]
      /\ DOMAIN req'[r] = Fields /\ req'[r].pc = "routing" /\ req'[r].out = << >> /\ req'[r].list = {}
  BY DEF Begin, Blank, Fields, JobsInv
<1>3. RequestOK(jobs', req'[r])
  BY <1>2, RestingOK
<1> QED
  BY <1>1, <1>2, <1>3, SameJobs, RequestStep

\* Steps that leave the jobs, and what the request holds of them, alone.
LEMMA RoutingKeeps ==
  ASSUME JobsInv, NEW r \in Requests, RouteCategory(r) \/ EnqueueOrderPrintJobsDocs(r)
  PROVE  JobsInv'
<1>1. DOMAIN req = Requests /\ DOMAIN req[r] = Fields /\ RequestOK(jobs, req[r])
  BY DEF JobsInv, RequestOK, ViewsOK
<1>2. jobs' = jobs
  BY Zenon DEF RouteCategory, EnqueueOrderPrintJobsDocs
<1>3. /\ DOMAIN req' = Requests /\ \A s \in Requests : s # r => req'[s] = req[s]
      /\ DOMAIN req'[r] = Fields /\ req'[r].pc \in {"routing", "look"}
      /\ req'[r].out = req[r].out /\ req'[r].list = req[r].list
  <2>1. CASE RouteCategory(r)
    <3>1. PICK c \in req[r].todo :
            LET i == RouteOf(cfg, c) IN
            req' = [req EXCEPT ![r].todo = @ \ {c},
                     ![r].left = IF i = 0 THEN @ \cup {c} ELSE @,
                     ![r].tickets = IF i = 0 THEN @
                                    ELSE addKitchen(@, Destination(cfg.routes[i], cfg.active), "no", {c},
                                                    req[r].want.kitchen * Clamp(cfg.routes[i].copies))]
      BY <2>1, Zenon DEF RouteCategory, RouteOf
    <3>2. req[r].pc = "routing"
      BY <2>1, Zenon DEF RouteCategory
    <3> DEFINE i == RouteOf(cfg, c)
               u == addKitchen(req[r].tickets, Destination(cfg.routes[i], cfg.active), "no", {c},
                               req[r].want.kitchen * Clamp(cfg.routes[i].copies))
    <3> HIDE DEF i, u
    <3>3. req' = [req EXCEPT ![r].todo = @ \ {c},
                   ![r].left = IF i = 0 THEN @ \cup {c} ELSE @,
                   ![r].tickets = IF i = 0 THEN @ ELSE u]
      BY <1>1, <3>1 DEF i, u, Fields
    <3> QED
      BY <1>1, <3>2, <3>3 DEF Fields
  <2>2. CASE EnqueueOrderPrintJobsDocs(r)
    <3>1. PICK b, c : req' = [req EXCEPT ![r].pc = "look", ![r].tickets = b, ![r].wants = c]
      BY <2>2, ZenonT(30) DEF EnqueueOrderPrintJobsDocs
    <3> QED
      BY <1>1, <3>1 DEF Fields
  <2> QED
    BY <2>1, <2>2
<1>4. RequestOK(jobs, req'[r])
  BY <1>1, <1>3 DEF RequestOK, ViewsOK, SendingOK
<1> QED
  BY <1>2, <1>3, <1>4, SameJobs, RequestStep

LEMMA ReadExistingKeeps ==
  ASSUME JobsInv, NEW r \in Requests, ReadExisting(r)
  PROVE  JobsInv'
<1>1. DOMAIN req = Requests /\ DOMAIN req[r] = Fields /\ RequestOK(jobs, req[r])
  BY DEF JobsInv, RequestOK, ViewsOK
<1>2. jobs' = jobs
  BY DEF ReadExisting
<1> DEFINE L == {View(j) : j \in PrintJobs}
<1>3. \A v \in L : ViewOK(jobs, v)
  <2> SUFFICES ASSUME NEW j \in PrintJobs PROVE ViewOK(jobs, View(j))
    OBVIOUS
  <2> QED
    BY ViewIsOK DEF PrintJobs
<1> HIDE DEF L
<1>4. /\ DOMAIN req' = Requests /\ \A s \in Requests : s # r => req'[s] = req[s]
      /\ DOMAIN req'[r] = Fields /\ req'[r].pc = "create" /\ req'[r].out = req[r].out /\ req'[r].list = L
  <2>1. req' = [req EXCEPT ![r].pc = "create", ![r].want = NoDocs, ![r].tickets = NoTickets, ![r].left = {},
                  ![r].list = L]
    BY DEF ReadExisting, L
  <2> QED
    BY <1>1, <2>1 DEF Fields
<1>5. RequestOK(jobs, req'[r])
  BY <1>1, <1>3, <1>4 DEF RequestOK, ViewsOK, SendingOK
<1> QED
  BY <1>2, <1>4, <1>5, SameJobs, RequestStep

LEMMA KeepOldKeeps ==
  ASSUME JobsInv, NEW r \in Requests, KeepOld(r)
  PROVE  JobsInv'
<1>1. jobs' = jobs
  BY DEF KeepOld
<1>2. PICK w \in NextWant(r), old \in req[r].list : req' = [req EXCEPT ![r] = Returned(req[r], w, old)]
  BY Zenon DEF KeepOld
<1>3. ViewsOK(jobs, req[r]) /\ ViewOK(jobs, old)
  BY DEF JobsInv, RequestOK, ViewsOK
<1>4. RequestOK(jobs, Returned(req[r], w, old))
  BY <1>3, ReturnedOK
<1> QED
  BY Zenon, <1>1, <1>2, <1>4, SameJobs, OneRequest

LEMMA CreateNewKeeps ==
  ASSUME JobsInv, NEW r \in Requests, CreateNew(r)
  PROVE  JobsInv'
<1> DEFINE known == {v.id : v \in req[r].list}
           n == Len(jobs')
           view == [id |-> n, key |-> jobs'[n].key, status |-> jobs'[n].status, attempts |-> jobs'[n].attempts]
<1>1. PICK w \in NextWant(r), aside \in {"yes", "no"} :
        /\ ~ \E old \in req[r].list : old.key = w
        /\ savePrintJob(w, known, aside)
        /\ req' = [req EXCEPT ![r] = Returned(req[r], w, view)]
  BY Zenon DEF CreateNew, View
<1>2. RequestOK(jobs, req[r]) /\ JobsOK(jobs)
  BY DEF JobsInv
<1>3. known \subseteq DOMAIN jobs /\ \A i \in known : jobs[i].key # w
  <2>1. \A v \in req[r].list : v.id \in DOMAIN jobs /\ v.key = jobs[v.id].key
    BY <1>2 DEF RequestOK, ViewsOK, ViewOK
  <2>2. \A v \in req[r].list : v.key # w
    BY <1>1, Zenon
  <2> QED
    BY <2>1, <2>2
<1> HIDE DEF known
<1>4. PICK status : /\ status # "printed"
                    /\ jobs' = Append(jobs, Job(w, status, known, aside))
  BY <1>1 DEF savePrintJob
<1>5. JobsOK(jobs') /\ Grows(jobs, jobs') /\ n \in DOMAIN jobs'
  BY <1>2, <1>3, <1>4, JobAdded
<1>6. ViewOK(jobs', view)
  BY <1>5 DEF ViewOK
<1>7. ViewsOK(jobs', req[r])
  BY <1>2, <1>5, GrowsKeeps DEF RequestOK
<1> HIDE DEF view
<1>8. RequestOK(jobs', Returned(req[r], w, view))
  BY <1>6, <1>7, ReturnedOK
<1> QED
  BY Zenon, <1>1, <1>5, <1>8, OneRequest

LEMMA RetryKeeps ==
  ASSUME JobsInv, NEW r \in Requests, handlePrintRetry(r)
  PROVE  JobsInv'
<1>1. jobs' = jobs
  BY DEF handlePrintRetry
<1>2. PICK j \in DOMAIN jobs :
        req' = [req EXCEPT ![r] = [Blank EXCEPT !.pc = "dispatch", !.kind = "retry", !.out = <<View(j)>>,
                                                !.known = PrintedJobs]]
  BY Zenon DEF handlePrintRetry
<1>3. ViewOK(jobs, View(j))
  BY ViewIsOK
<1> DEFINE v == View(j)
<1> HIDE DEF v
<1>4. /\ DOMAIN req' = Requests /\ \A s \in Requests : s # r => req'[s] = req[s]
      /\ DOMAIN req'[r] = Fields /\ req'[r].pc = "dispatch" /\ req'[r].out = <<v>> /\ req'[r].list = {}
      /\ req'[r].copy = 0
  BY <1>2 DEF Blank, Fields, v, JobsInv
<1>5. RequestOK(jobs, req'[r])
  BY <1>3, <1>4, OneJobOK DEF v
<1> QED
  BY <1>1, <1>4, <1>5, SameJobs, RequestStep

LEMMA TestKeeps ==
  ASSUME JobsInv, NEW r \in Requests, handlePrintTest(r)
  PROVE  JobsInv'
<1> DEFINE n == Len(jobs')
           v == [id |-> n, key |-> jobs'[n].key, status |-> jobs'[n].status, attempts |-> jobs'[n].attempts]
<1>1. req' = [req EXCEPT ![r] = [Blank EXCEPT !.pc = "dispatch", !.kind = "test", !.out = <<v>>]]
  BY DEF handlePrintTest, View
<1>2. PICK key, status : /\ status # "printed"
                         /\ jobs' = Append(jobs, Job(key, status, {}, "no"))
  BY DEF handlePrintTest, EnqueueTestPrintJob, savePrintJob
<1>3. JobsOK(jobs') /\ Grows(jobs, jobs') /\ n \in DOMAIN jobs'
  BY <1>2, JobAdded DEF JobsInv
<1>4. ViewOK(jobs', v)
  BY <1>3 DEF ViewOK
<1> HIDE DEF v
<1>5. /\ DOMAIN req' = Requests /\ \A s \in Requests : s # r => req'[s] = req[s]
      /\ DOMAIN req'[r] = Fields /\ req'[r].pc = "dispatch" /\ req'[r].out = <<v>> /\ req'[r].list = {}
      /\ req'[r].copy = 0
  BY <1>1 DEF Blank, Fields, JobsInv
<1>6. RequestOK(jobs', req'[r])
  BY ZenonT(30), <1>4, <1>5, OneJobOK
<1> QED
  BY <1>3, <1>5, <1>6, RequestStep

\* The job in hand.
LEMMA InHand ==
  ASSUME JobsInv, NEW r \in Requests, req[r].pc \in {"dispatch", "send", "verdict"}
  PROVE  /\ req[r].out # << >> /\ Head(req[r].out) = req[r].out[1] /\ 1 \in DOMAIN req[r].out
         /\ req[r].out[1].id \in DOMAIN jobs
         /\ RequestOK(jobs, req[r]) /\ DOMAIN req = Requests /\ DOMAIN req[r] = Fields
<1>1. RequestOK(jobs, req[r]) /\ DOMAIN req = Requests /\ DOMAIN req[r] = Fields
  BY DEF JobsInv, RequestOK, ViewsOK
<1>2. req[r].out # << >> /\ IsSeq(req[r].out)
  BY <1>1 DEF RequestOK, ViewsOK, SendingOK
<1>3. Head(req[r].out) = req[r].out[1] /\ 1 \in DOMAIN req[r].out
  BY <1>2, SeqTail
<1> QED
  BY <1>1, <1>2, <1>3 DEF RequestOK, ViewsOK, ViewOK

\* Marking the first view of a request "pending".
LEMMA MarkView ==
  ASSUME JobsInv, NEW js, NEW r \in Requests, req[r].pc = "dispatch", RequestOK(js, req[r]),
         req' = [req EXCEPT ![r].out[1].status = "pending"]
  PROVE  /\ DOMAIN req' = Requests /\ \A s \in Requests : s # r => req'[s] = req[s]
         /\ RequestOK(js, req'[r])
<1> DEFINE o == req[r].out
           v == [o[1] EXCEPT !.status = "pending"]
           o1 == [o EXCEPT ![1] = v]
<1>1. o # << >> /\ 1 \in DOMAIN o /\ DOMAIN req = Requests /\ DOMAIN req[r] = Fields /\ IsSeq(o)
  BY InHand DEF RequestOK, ViewsOK
<1>2. ViewOK(js, v)
  BY <1>1 DEF RequestOK, ViewsOK, ViewOK
<1>3. IsSeq(o1) /\ Len(o1) = Len(o) /\ DOMAIN o1 = DOMAIN o
  <2> HIDE DEF v
  <2> QED
    BY <1>1, SeqExcept
<1>4. \A i \in DOMAIN o1 : ViewOK(js, o1[i])
  <2> HIDE DEF v
  <2> QED
    BY <1>1, <1>2 DEF RequestOK, ViewsOK
<1>5. o1 # << >>
  BY <1>1, <1>3
<1>6. req' = [req EXCEPT ![r] = [@ EXCEPT !.out = o1]]
  OBVIOUS
<1> HIDE DEF o1
<1>7. /\ DOMAIN req' = Requests /\ \A s \in Requests : s # r => req'[s] = req[s]
      /\ DOMAIN req'[r] = Fields /\ req'[r].out = o1 /\ req'[r].list = req[r].list
      /\ req'[r].pc = "dispatch" /\ req'[r].copy = req[r].copy
  BY <1>1, <1>6 DEF Fields
<1>8. ViewsOK(js, req'[r])
  BY <1>3, <1>4, <1>7, Zenon DEF ViewsOK, RequestOK
<1>9. SendingOK(js, req'[r])
  BY <1>5, <1>7, Zenon DEF SendingOK, RequestOK
<1> QED
  BY <1>7, <1>8, <1>9 DEF RequestOK

LEMMA ReprintKeeps ==
  ASSUME JobsInv, NEW r \in Requests, Reprint(r)
  PROVE  JobsInv'
<1> DEFINE j == req[r].out[1].id
           b == [jobs[j] EXCEPT !.status = "pending", !.reprint = Again(r, j)]
<1>1. req[r].pc = "dispatch"
  BY DEF Reprint, MayReprint
<1>2. j \in DOMAIN jobs /\ Head(req[r].out).id = j /\ JobsOK(jobs) /\ DOMAIN jobs[j] = JobFields
  BY <1>1, InHand DEF JobsInv, JobsOK, JobOK
<1>3. jobs' = [jobs EXCEPT ![j] = b]
  BY <1>2 DEF Reprint
<1>4. /\ DOMAIN b = JobFields /\ b.key = jobs[j].key /\ b.known = jobs[j].known /\ b.paper = jobs[j].paper
      /\ b.status = "pending" /\ b.paper \in Nat
  BY <1>2 DEF JobFields, JobsOK, JobOK
<1> HIDE DEF b
<1>5. JobsOK(jobs') /\ Grows(jobs, jobs')
  <2> HIDE DEF j
  <2>1. b.paper >= jobs[j].paper
    <3>1. \A x \in Nat : x >= x
      OBVIOUS
    <3> QED
      BY <1>4, <3>1, Zenon
  <2> QED
    BY Zenon, <1>2, <1>3, <1>4, <2>1, JobChanges
<1>6. RequestOK(jobs', req[r])
  BY <1>2, <1>5, GrowsKeeps DEF JobsInv
<1>7. req' = [req EXCEPT ![r].out[1].status = "pending"]
  BY DEF Reprint
<1> QED
  BY Zenon, <1>1, <1>5, <1>6, <1>7, MarkView, RequestStep

LEMMA MarkPrintingKeeps ==
  ASSUME JobsInv, NEW r \in Requests, MarkPrinting(r)
  PROVE  JobsInv'
<1> DEFINE j == Head(req[r].out).id
           b == [jobs[j] EXCEPT !.status = "printing", !.attempts = jobs[j].attempts + 1, !.reprint = Again(r, j)]
<1>1. req[r].pc = "dispatch"
  BY DEF MarkPrinting, MayDispatch
<1>2. j \in DOMAIN jobs /\ j = req[r].out[1].id /\ JobsOK(jobs) /\ DOMAIN jobs[j] = JobFields
  BY <1>1, InHand DEF JobsInv, JobsOK, JobOK
<1>3. jobs' = [jobs EXCEPT ![j] = b]
  BY DEF MarkPrinting
<1>4. /\ DOMAIN b = JobFields /\ b.key = jobs[j].key /\ b.known = jobs[j].known /\ b.paper = jobs[j].paper
      /\ b.status = "printing" /\ b.paper \in Nat
  BY <1>2 DEF JobFields, JobsOK, JobOK
<1> HIDE DEF b
<1>5. JobsOK(jobs') /\ Grows(jobs, jobs')
  <2> HIDE DEF j
  <2>1. b.paper >= jobs[j].paper
    <3>1. \A x \in Nat : x >= x
      OBVIOUS
    <3> QED
      BY <1>4, <3>1, ZenonT(30)
  <2> QED
    BY Zenon, <1>2, <1>3, <1>4, <2>1, JobChanges
<1>6. RequestOK(jobs', req[r]) /\ j \in DOMAIN jobs' /\ jobs'[j].paper \in Nat
  BY ZenonT(30), <1>2, <1>5, GrowsKeeps DEF JobsInv, Grows, JobsOK, JobOK
<1>7. /\ DOMAIN req' = Requests /\ \A s \in Requests : s # r => req'[s] = req[s]
      /\ DOMAIN req'[r] = Fields /\ req'[r].pc = "send" /\ req'[r].out = req[r].out
      /\ req'[r].list = req[r].list /\ req'[r].copy = 0
  BY <1>1, InHand DEF MarkPrinting, Fields, RequestOK, SendingOK
<1>8. RequestOK(jobs', req'[r])
  <2> HIDE DEF j
  <2>1. ViewsOK(jobs', req'[r])
    BY <1>6, <1>7, Zenon DEF RequestOK, ViewsOK
  <2>2. req'[r].out # << >>
    BY <1>1, <1>7, InHand
  <2>3. req'[r].copy \in Nat /\ req'[r].copy <= jobs'[req'[r].out[1].id].paper
    BY <1>2, <1>6, <1>7
  <2>4. SendingOK(jobs', req'[r])
    BY <1>7, <2>2, <2>3 DEF SendingOK
  <2> QED
    BY <2>1, <2>4 DEF RequestOK
<1> QED
  BY <1>5, <1>7, <1>8, RequestStep

LEMMA SendCopyKeeps ==
  ASSUME JobsInv, NEW r \in Requests, SendCopy(r)
  PROVE  JobsInv'
<1> DEFINE j == Head(req[r].out).id
           n == req[r].copy
           all == Clamp(jobs[j].key.copies)
<1>1. req[r].pc = "send"
  BY Zenon DEF SendCopy
<1>2. j \in DOMAIN jobs /\ j = req[r].out[1].id /\ JobsOK(jobs) /\ DOMAIN jobs[j] = JobFields
  BY ZenonT(30), <1>1, InHand DEF JobsInv, JobsOK, JobOK
<1>3. n \in Nat /\ n <= jobs[j].paper /\ jobs[j].paper \in Nat
  BY <1>1, <1>2, InHand DEF RequestOK, SendingOK, JobsOK, JobOK
<1>4. PICK ok \in {"yes", "no"}, out \in {0, 1} :
        /\ ok = "yes" => out = 1
        /\ jobs' = [jobs EXCEPT ![j].paper = IF n + out > @ THEN n + out ELSE @]
        /\ req' = [req EXCEPT ![r].copy = @ + 1,
                    ![r].pc = IF ok = "no" \/ n + 1 = all THEN "verdict" ELSE "send",
                    ![r].res = IF ok = "no" THEN "failed" ELSE IF n + 1 = all THEN "printed" ELSE @]
  BY Zenon DEF SendCopy
<1> DEFINE paper == IF n + out > jobs[j].paper THEN n + out ELSE jobs[j].paper
           b == [jobs[j] EXCEPT !.paper = paper]
<1>5. jobs' = [jobs EXCEPT ![j] = b]
  BY Zenon, <1>4
<1>6. /\ paper \in Nat /\ paper >= jobs[j].paper
      /\ ok = "yes" => paper >= n + 1
  <2> DEFINE old == jobs[j].paper
  <2>1. old \in Nat /\ n \in Nat /\ out \in {0, 1} /\ (ok = "yes" => out = 1)
    BY Zenon, <1>3, <1>4
  <2>2. paper = IF n + out > old THEN n + out ELSE old
    OBVIOUS
  <2> HIDE DEF old, n, paper
  <2>3. /\ paper \in Nat /\ paper >= old
        /\ ok = "yes" => paper >= n + 1
    BY <2>1, <2>2
  <2> QED
    BY <2>3 DEF old
<1> HIDE DEF paper
<1>7. /\ DOMAIN b = JobFields /\ b.key = jobs[j].key /\ b.known = jobs[j].known /\ b.paper = paper
      /\ b.status = jobs[j].status
  BY <1>2 DEF JobFields
<1> HIDE DEF b
<1>8. b.status = "printed" => Full(b)
  <2>1. jobs[j].status = "printed" => Full(jobs[j])
    BY ZenonT(30), <1>2 DEF JobsOK, JobOK
  <2> DEFINE old == jobs[j].paper
  <2>2. old \in Nat /\ paper \in Nat /\ paper >= old
    BY ONLY ZenonT(30), <1>3, <1>6
  <2>3. Full(jobs[j]) => all \in Int /\ old >= all
    BY DEF Full
  <2>4. Full(jobs[j]) => all \in Int /\ paper >= all
    <3> HIDE DEF old, all
    <3> QED
      BY <2>2, <2>3
  <2> QED
    BY <1>7, <2>1, <2>4, Zenon DEF Full
<1> HIDE DEF j
<1>9. JobsOK(jobs') /\ Grows(jobs, jobs')
  BY Zenon, <1>2, <1>5, <1>6, <1>7, <1>8, JobChanges
<1>10. RequestOK(jobs', req[r]) /\ jobs'[j] = b
  BY <1>2, <1>5, <1>9, GrowsKeeps DEF JobsInv
<1>11. /\ DOMAIN req' = Requests /\ \A s \in Requests : s # r => req'[s] = req[s]
       /\ DOMAIN req'[r] = Fields /\ req'[r].out = req[r].out /\ req'[r].list = req[r].list
       /\ req'[r].copy = n + 1
       /\ req'[r].pc = IF ok = "no" \/ n + 1 = all THEN "verdict" ELSE "send"
       /\ req'[r].res = IF ok = "no" THEN "failed" ELSE IF n + 1 = all THEN "printed" ELSE req[r].res
  <2> HIDE DEF all
  <2> QED
    BY <1>1, <1>4, InHand DEF Fields
<1>12. SendingOK(jobs', req'[r])
  <2>1. req'[r].pc \in {"send", "verdict"} /\ req'[r].out # << >>
    BY <1>1, <1>11, InHand
  <2>2. ASSUME req'[r].pc = "send"
        PROVE  req'[r].copy \in Nat /\ req'[r].copy <= jobs'[req'[r].out[1].id].paper
    <3>1. ok = "yes"
      BY <1>11, <2>2
    <3>2. jobs'[req'[r].out[1].id].paper = paper
      BY <1>2, <1>7, <1>10, <1>11, Zenon
    <3>3. n + 1 \in Nat /\ n + 1 <= paper
      <4> HIDE DEF n
      <4> QED
        BY ONLY SMTT(20), SMTT(30), <1>3, <1>6, <3>1
    <3> QED
      BY <1>11, <3>2, <3>3, Zenon
  <2>3. ASSUME req'[r].pc = "verdict", req'[r].res = "printed"
        PROVE  Full(jobs'[req'[r].out[1].id])
    <3>1. ok = "yes" /\ n + 1 = all
      <4> HIDE DEF all, n
      <4> QED
        BY <1>4, <1>11, <2>3
    <3>2. Clamp(b.key.copies) = n + 1
      BY <1>7, <3>1
    <3> HIDE DEF n
    <3>3. Full(b)
      BY ONLY SMTT(20), SMTT(30), <1>3, <1>6, <1>7, <3>1, <3>2 DEF Full
    <3> QED
      BY <1>2, <1>10, <1>11, <3>3
  <2> QED
    BY <2>1, <2>2, <2>3 DEF SendingOK
<1>13. ViewsOK(jobs', req'[r])
  BY <1>10, <1>11 DEF RequestOK, ViewsOK
<1> QED
  BY <1>9, <1>11, <1>12, <1>13, RequestStep DEF RequestOK

LEMMA VerdictKeeps ==
  ASSUME JobsInv, NEW r \in Requests, Verdict(r)
  PROVE  JobsInv'
<1> DEFINE j == Head(req[r].out).id
           b == [jobs[j] EXCEPT !.status = req[r].res,
                               !.reprint = IF req[r].res = "printed" THEN jobs[j].reprint ELSE Again(r, j)]
<1>1. req[r].pc = "verdict"
  BY ZenonT(30) DEF Verdict
<1>2. j \in DOMAIN jobs /\ j = req[r].out[1].id /\ JobsOK(jobs) /\ DOMAIN jobs[j] = JobFields
  BY <1>1, InHand DEF JobsInv, JobsOK, JobOK
<1>3. jobs' = [jobs EXCEPT ![j] = b]
  BY DEF Verdict, SaveOutcome
<1>4. /\ DOMAIN b = JobFields /\ b.key = jobs[j].key /\ b.known = jobs[j].known /\ b.paper = jobs[j].paper
      /\ b.status = req[r].res /\ b.paper \in Nat
  BY ONLY SMTT(20), SMTT(30), <1>2 DEF JobFields, JobsOK, JobOK
<1> HIDE DEF b
<1>5. b.status = "printed" => Full(b)
  <2>1. req[r].res = "printed" => Full(jobs[j])
    BY <1>1, <1>2, InHand DEF RequestOK, SendingOK
  <2> QED
    BY ZenonT(30), <1>4, <2>1 DEF Full
<1>6. JobsOK(jobs') /\ Grows(jobs, jobs')
  <2> HIDE DEF j
  <2>1. b.paper >= jobs[j].paper
    <3>1. \A x \in Nat : x >= x
      OBVIOUS
    <3> QED
      BY <1>4, <3>1, Zenon
  <2> QED
    BY Zenon, <1>2, <1>3, <1>4, <1>5, <2>1, JobChanges
<1>7. RequestOK(jobs', req[r]) /\ req[r].out # << >>
  BY <1>1, <1>2, <1>6, GrowsKeeps, InHand DEF JobsInv
<1>8. RequestOK(jobs', NextJob(r))
  BY <1>7, NextJobOK
<1>9. req' = [req EXCEPT ![r] = NextJob(r)]
  BY DEF Verdict
<1> QED
  BY Zenon, <1>6, <1>8, <1>9, OneRequest

\* A failing store call changes no job.
LEMMA StoreFailsKeeps ==
  ASSUME JobsInv, NEW r \in Requests, StoreFails(r)
  PROVE  JobsInv'
<1>1. jobs' = jobs /\ JobsOK(jobs') /\ Grows(jobs, jobs')
  BY SameJobs DEF StoreFails
<1>2. DOMAIN [Blank EXCEPT !.pc = "done"] = Fields /\ [Blank EXCEPT !.pc = "done"].pc = "done"
      /\ [Blank EXCEPT !.pc = "done"].out = << >> /\ [Blank EXCEPT !.pc = "done"].list = {}
  BY DEF Blank, Fields
<1>3. CASE req' = [req EXCEPT ![r] = [Blank EXCEPT !.pc = "done"]]
  BY Zenon, <1>1, <1>2, <1>3, RestingOK, OneRequest
<1>4. CASE req[r].pc = "dispatch" /\ req' = [req EXCEPT ![r].out[1].status = "pending"]
  BY Zenon, <1>1, <1>4, InHand, MarkView, RequestStep
<1>5. CASE req[r].pc \in {"dispatch", "verdict"} /\ req' = [req EXCEPT ![r] = NextJob(r)]
  BY Zenon, <1>1, <1>5, InHand, NextJobOK, OneRequest
<1> QED
  BY <1>3, <1>4, <1>5 DEF StoreFails, MayReprint, MayDispatch

LEMMA PushedOutKeeps ==
  ASSUME JobsInv, NEW j \in DOMAIN jobs, PushedOut(j)
  PROVE  JobsInv'
<1> DEFINE b == [jobs[j] EXCEPT !.listed = "no"]
<1>1. JobsOK(jobs) /\ DOMAIN jobs[j] = JobFields
  BY DEF JobsInv, JobsOK, JobOK
<1>2. jobs' = [jobs EXCEPT ![j] = b] /\ req' = req
  BY DEF PushedOut
<1>3. /\ DOMAIN b = JobFields /\ b.key = jobs[j].key /\ b.known = jobs[j].known /\ b.paper = jobs[j].paper
      /\ b.status = jobs[j].status /\ b.paper \in Nat
  BY <1>1 DEF JobFields, JobsOK, JobOK
<1> HIDE DEF b
<1>4. b.status = "printed" => Full(b)
  BY <1>1, <1>3, Zenon DEF JobsOK, JobOK, Full
<1>5. JobsOK(jobs') /\ Grows(jobs, jobs')
  <2>1. b.paper >= jobs[j].paper
    BY <1>3
  <2> QED
    BY Zenon, <1>1, <1>2, <1>3, <1>4, <2>1, JobChanges
<1> QED
  BY <1>2, <1>5, GrowsKeeps, Zenon DEF JobsInv

LEMMA CrashKeeps ==
  ASSUME JobsInv, Crash
  PROVE  JobsInv'
<1> DEFINE d == [Blank EXCEPT !.pc = "done"]
<1>1. DOMAIN d = Fields /\ d.pc = "done" /\ d.out = << >> /\ d.list = {}
  BY DEF Blank, Fields
<1>2. jobs' = jobs /\ req' = [r \in Requests |-> IF req[r].pc = "idle" THEN req[r] ELSE d]
  BY DEF Crash
<1> HIDE DEF d
<1>3. RequestOK(jobs', d)
  BY <1>1, RestingOK
<1> QED
  BY <1>2, <1>3, SameJobs DEF JobsInv

LEMMA JobsInvStep == JobsInv /\ [Next]_vars => JobsInv'
<1> SUFFICES ASSUME JobsInv, [Next]_vars
             PROVE  JobsInv'
  OBVIOUS
<1>1. ASSUME NEW r \in Requests, autoPrintAsync(r) \/ handlePrintOrder(r)
      PROVE  JobsInv'
  BY <1>1, BeginKeeps DEF autoPrintAsync, handlePrintOrder
<1>2. ASSUME NEW r \in Requests, handlePrintRetry(r) \/ handlePrintTest(r) \/ StoreFails(r)
      PROVE  JobsInv'
  BY <1>2, RetryKeeps, TestKeeps, StoreFailsKeeps
<1>3. ASSUME NEW r \in Requests, Work(r)
      PROVE  JobsInv'
  BY <1>3, RoutingKeeps, ReadExistingKeeps, KeepOldKeeps, CreateNewKeeps, ReprintKeeps, MarkPrintingKeeps,
     SendCopyKeeps, VerdictKeeps DEF Work
<1>4. ASSUME NEW j \in DOMAIN jobs, PushedOut(j)
      PROVE  JobsInv'
  BY <1>4, PushedOutKeeps
<1>5. CASE Crash
  BY <1>5, CrashKeeps
<1>6. CASE UNCHANGED vars
  BY <1>6 DEF vars, JobsInv
<1> QED
  BY <1>1, <1>2, <1>3, <1>4, <1>5, <1>6 DEF Next

LEMMA JobsInvAlways == Spec => []JobsInv
<1>1. Init => JobsInv
  <2> SUFFICES ASSUME Init
               PROVE  JobsInv
    OBVIOUS
  <2>1. jobs = << >> /\ req = [r \in Requests |-> Blank]
    BY ZenonT(30) DEF Init
  <2>2. DOMAIN Blank = Fields /\ Blank.pc = "idle" /\ Blank.out = << >> /\ Blank.list = {}
    BY DEF Blank, Fields
  <2>3. RequestOK(jobs, Blank)
    BY <2>2, RestingOK
  <2>4. JobsOK(jobs)
    BY <2>1 DEF JobsOK, IsSeq
  <2> QED
    BY <2>1, <2>3, <2>4 DEF JobsInv
<1> QED
  BY <1>1, JobsInvStep, PTL DEF Spec

\* dispatchPrintJob says "printed" of no ticket of which one attempt has not
\* brought out every copy, for any number of requests that send it at a time.
THEOREM PrintedIsOnPaper == Spec => []PrintedIsTrue
<1>1. JobsInv => PrintedIsTrue
  BY DEF JobsInv, JobsOK, JobOK, Full, PrintedIsTrue
<1> QED
  BY <1>1, JobsInvAlways, PTL

\* createPrintJobs makes a second job for a ticket only when the listing it read
\* did not show the first, for any number of requests at a time.
THEOREM DuplicatesAreUnseen == Spec => []DuplicatesWereUnseen
<1>1. JobsInv => DuplicatesWereUnseen
  BY DEF JobsInv, JobsOK, JobOK, DuplicatesWereUnseen, SameKey
<1> QED
  BY <1>1, JobsInvAlways, PTL

----------------------------------------------------------------------------
(* Jobs that are printed already.                                          *)

\* What a request does with the jobs that were printed when it began: they are
\* printed still or were put back; those it was shown otherwise, and those it is
\* going to send, were put back.  The row menu sends what it likes.
Later(js, q) ==
  /\ q.known \subseteq DOMAIN js
  /\ \A j \in q.known : js[j].status = "printed" \/ js[j].reprint = "yes"
  /\ \A v \in q.list : v.id \in q.known /\ v.status # "printed" => js[v.id].reprint = "yes"
  /\ q.kind # "doc" => \A i \in DOMAIN q.out : q.out[i].id \in q.known => js[q.out[i].id].reprint = "yes"
  /\ q.pc \in {"routing", "look", "create"} => q.kind \in {"auto", "all", "doc"}

LaterInv == \A r \in Requests : Later(jobs, req[r])

\* A printed job stays printed or is put back, and put back for good.
Steady(js, ks) ==
  \A j \in DOMAIN js :
    /\ j \in DOMAIN ks
    /\ js[j].reprint = "yes" => ks[j].reprint = "yes"
    /\ js[j].status = "printed" => ks[j].status = "printed" \/ ks[j].reprint = "yes"

LEMMA LaterStays ==
  ASSUME NEW js, NEW ks, Steady(js, ks), NEW q, Later(js, q)
  PROVE  Later(ks, q)
<1>1. \A j \in q.known : j \in DOMAIN js
  BY DEF Later
<1>2. q.known \subseteq DOMAIN ks /\ \A j \in q.known : ks[j].status = "printed" \/ ks[j].reprint = "yes"
  BY <1>1 DEF Later, Steady
<1>3. \A v \in q.list : v.id \in q.known /\ v.status # "printed" => ks[v.id].reprint = "yes"
  BY <1>1 DEF Later, Steady
<1>4. q.kind # "doc" => \A i \in DOMAIN q.out : q.out[i].id \in q.known => ks[q.out[i].id].reprint = "yes"
  BY <1>1 DEF Later, Steady
<1> QED
  BY <1>2, <1>3, <1>4, Zenon DEF Later

LEMMA LaterStep ==
  ASSUME LaterInv, Steady(jobs, jobs'), NEW r \in Requests,
         \A s \in Requests : s # r => req'[s] = req[s], Later(jobs', req'[r])
  PROVE  LaterInv'
BY LaterStays DEF LaterInv

LEMMA SteadySame ==
  ASSUME jobs' = jobs
  PROVE  Steady(jobs, jobs')
BY DEF Steady

LEMMA SteadyChange ==
  ASSUME NEW js, NEW j \in DOMAIN js, NEW b,
         js[j].reprint = "yes" => b.reprint = "yes",
         js[j].status = "printed" => b.status = "printed" \/ b.reprint = "yes"
  PROVE  Steady(js, [js EXCEPT ![j] = b])
BY DEF Steady

\* A request that knows of no printed job.
LEMMA LaterFresh ==
  ASSUME NEW js, NEW q, q.known = {}, q.pc \notin {"routing", "look", "create"}
  PROVE  Later(js, q)
BY DEF Later

\* A request that goes on with nothing more to send.
LEMMA LaterLess ==
  ASSUME NEW js, NEW q, Later(js, q), NEW d, d.known = q.known, d.kind = q.kind, d.list \subseteq q.list,
         \A i \in DOMAIN d.out : \E k \in DOMAIN q.out : d.out[i].id = q.out[k].id,
         d.pc \in {"routing", "look", "create"} => q.pc \in {"routing", "look", "create"}
  PROVE  Later(js, d)
<1>1. d.kind # "doc" => \A i \in DOMAIN d.out : d.out[i].id \in d.known => js[d.out[i].id].reprint = "yes"
  BY ZenonT(30) DEF Later
<1> QED
  BY <1>1 DEF Later

\* Proceed keeps what is to be sent.
LEMMA ProceedShape ==
  ASSUME NEW q, DOMAIN q = Fields
  PROVE  LET d == Proceed(q) IN
         /\ DOMAIN d = Fields /\ d.out = q.out
         /\ d.pc \in {"create", "done", "dispatch"}
         /\ d.pc = "create" => q.pc = "create"
         /\ d.pc = "done" => d.out = << >>
         /\ \/ d.kind = q.kind /\ d.known = q.known /\ d.list \subseteq q.list
            \/ d.known = {} /\ d.pc = "done"
<1>1. CASE q.pc = "create" /\ q.wants # {}
  <2>1. Proceed(q) = q
    BY <1>1 DEF Proceed
  <2> QED
    BY <1>1, <2>1
<1>2. CASE ~(q.pc = "create" /\ q.wants # {}) /\ q.out = << >>
  <2> DEFINE d == [Blank EXCEPT !.pc = "done"]
  <2>1. DOMAIN d = Fields /\ d.pc = "done" /\ d.out = << >> /\ d.known = {}
    BY DEF Blank, Fields
  <2>2. Proceed(q) = d
    BY <1>2 DEF Proceed
  <2> HIDE DEF d
  <2> QED
    BY <1>2, <2>1, <2>2
<1>3. CASE ~(q.pc = "create" /\ q.wants # {}) /\ q.out # << >>
  <2> DEFINE d == [q EXCEPT !.pc = "dispatch", !.list = {}, !.copy = 0, !.res = "none"]
  <2>1. /\ DOMAIN d = Fields /\ d.pc = "dispatch" /\ d.out = q.out /\ d.list = {}
        /\ d.kind = q.kind /\ d.known = q.known
    BY DEF Fields
  <2>2. Proceed(q) = d
    BY ZenonT(30), <1>3 DEF Proceed
  <2> HIDE DEF d
  <2> QED
    BY <2>1, <2>2
<1> QED
  BY ZenonT(30), <1>1, <1>2, <1>3

LEMMA ReturnedShape ==
  ASSUME NEW q, DOMAIN q = Fields, NEW w, NEW v
  PROVE  LET d == Returned(q, w, v) IN
         /\ DOMAIN d = Fields /\ d.out = IF Skips(q.kind, q.doc, v) THEN q.out ELSE Append(q.out, v)
         /\ d.pc \in {"create", "done", "dispatch"}
         /\ d.pc = "create" => q.pc = "create"
         /\ d.pc = "done" => d.out = << >>
         /\ \/ d.kind = q.kind /\ d.known = q.known /\ d.list \subseteq q.list
            \/ d.known = {} /\ d.pc = "done"
<1> DEFINE o == IF Skips(q.kind, q.doc, v) THEN q.out ELSE Append(q.out, v)
           e == [q EXCEPT !.wants = @ \ {w}, !.out = o]
<1> HIDE DEF o
<1>1. /\ DOMAIN e = Fields /\ e.out = o /\ e.list = q.list /\ e.kind = q.kind /\ e.known = q.known
      /\ e.pc = q.pc
  BY DEF Fields
<1>2. Returned(q, w, v) = Proceed(e)
  BY DEF Returned, o, Fields
<1> HIDE DEF e
<1> QED
  BY <1>1, <1>2, ProceedShape DEF o

LEMMA NextJobShape ==
  ASSUME NEW r, DOMAIN req[r] = Fields
  PROVE  LET q == req[r]
             d == NextJob(r) IN
         /\ DOMAIN d = Fields /\ d.out = Tail(q.out)
         /\ d.pc \in {"create", "done", "dispatch"}
         /\ d.pc = "create" => q.pc = "create"
         /\ d.pc = "done" => d.out = << >>
         /\ \/ d.kind = q.kind /\ d.known = q.known /\ d.list \subseteq q.list
            \/ d.known = {} /\ d.pc = "done"
<1> DEFINE q == req[r]
           e == [q EXCEPT !.out = Tail(@)]
<1>1. /\ DOMAIN e = Fields /\ e.out = Tail(q.out) /\ e.list = q.list /\ e.kind = q.kind
      /\ e.known = q.known /\ e.pc = q.pc
  BY DEF Fields
<1>2. NextJob(r) = Proceed(e)
  BY DEF NextJob
<1> HIDE DEF e
<1> QED
  BY <1>1, <1>2, ProceedShape

\* The steps of the routing loop leave alone what a request holds of the jobs.
LEMMA RoutingShape ==
  ASSUME NEW r \in Requests, DOMAIN req = Requests, DOMAIN req[r] = Fields,
         RouteCategory(r) \/ EnqueueOrderPrintJobsDocs(r)
  PROVE  \E q : /\ req' = [req EXCEPT ![r] = q]
                /\ q.known = req[r].known /\ q.kind = req[r].kind /\ q.list = req[r].list
                /\ q.out = req[r].out /\ q.pc \in {"routing", "look"}
<1>1. CASE RouteCategory(r)
  <2>0. PICK x \in req[r].todo :
          LET i == RouteOf(cfg, x) IN
          req' = [req EXCEPT ![r].todo = @ \ {x},
                   ![r].left = IF i = 0 THEN @ \cup {x} ELSE @,
                   ![r].tickets = IF i = 0 THEN @
                                  ELSE addKitchen(@, Destination(cfg.routes[i], cfg.active), "no", {x},
                                                  req[r].want.kitchen * Clamp(cfg.routes[i].copies))]
    BY <1>1, Zenon DEF RouteCategory, RouteOf
  <2> DEFINE i == RouteOf(cfg, x)
             a == req[r].todo \ {x}
             b == IF i = 0 THEN req[r].left \cup {x} ELSE req[r].left
             c == IF i = 0 THEN req[r].tickets
                  ELSE addKitchen(req[r].tickets, Destination(cfg.routes[i], cfg.active), "no", {x},
                                  req[r].want.kitchen * Clamp(cfg.routes[i].copies))
  <2> HIDE DEF i
  <2>1. req' = [req EXCEPT ![r].todo = a, ![r].left = b, ![r].tickets = c]
    BY <2>0 DEF i, Fields
  <2> HIDE DEF a, b, c
  <2>2. req[r].pc = "routing"
    BY <1>1, Zenon DEF RouteCategory
  <2> DEFINE q == [req[r] EXCEPT !.todo = a, !.left = b, !.tickets = c]
  <2>3. req' = [req EXCEPT ![r] = q]
    BY <2>1, Zenon
  <2>4. /\ q.known = req[r].known /\ q.kind = req[r].kind /\ q.list = req[r].list /\ q.out = req[r].out
        /\ q.pc = req[r].pc
    BY DEF Fields
  <2> HIDE DEF q
  <2> QED
    BY <2>2, <2>3, <2>4, Zenon
<1>2. CASE EnqueueOrderPrintJobsDocs(r)
  <2>1. PICK b, c : req' = [req EXCEPT ![r].pc = "look", ![r].tickets = b, ![r].wants = c]
    BY <1>2, Zenon DEF EnqueueOrderPrintJobsDocs
  <2> DEFINE q == [req[r] EXCEPT !.pc = "look", !.tickets = b, !.wants = c]
  <2>2. req' = [req EXCEPT ![r] = q]
    BY <2>1, Zenon
  <2>3. /\ q.known = req[r].known /\ q.kind = req[r].kind /\ q.list = req[r].list /\ q.out = req[r].out
        /\ q.pc = "look"
    BY DEF Fields
  <2> HIDE DEF q
  <2> QED
    BY <2>2, <2>3, Zenon
<1> QED
  BY <1>1, <1>2

----------------------------------------------------------------------------
(* Each step keeps LaterInv.                                               *)

LEMMA BeginLater ==
  ASSUME JobsInv, LaterInv, NEW r \in Requests, NEW kind \in {"auto", "all", "doc"}, NEW doc, NEW want,
         Begin(r, kind, doc, want)
  PROVE  LaterInv'
<1>1. jobs' = jobs
  BY DEF Begin
<1>2. /\ \A s \in Requests : s # r => req'[s] = req[s]
      /\ req'[r].kind = kind /\ req'[r].known = PrintedJobs /\ req'[r].out = << >> /\ req'[r].list = {}
  BY DEF Begin, Blank, JobsInv
<1>3. DOMAIN << >> = {}
  OBVIOUS
<1>4. Later(jobs, req'[r])
  BY <1>2, <1>3 DEF Later, PrintedJobs
<1> QED
  BY <1>1, <1>2, <1>4, SteadySame, LaterStep

LEMMA RoutingLater ==
  ASSUME JobsInv, LaterInv, NEW r \in Requests, RouteCategory(r) \/ EnqueueOrderPrintJobsDocs(r)
  PROVE  LaterInv'
<1>1. DOMAIN req = Requests /\ DOMAIN req[r] = Fields /\ Later(jobs, req[r])
  BY DEF JobsInv, RequestOK, ViewsOK, LaterInv
<1>2. jobs' = jobs /\ req[r].pc = "routing"
  BY Zenon DEF RouteCategory, EnqueueOrderPrintJobsDocs
<1>3. PICK q : /\ req' = [req EXCEPT ![r] = q]
               /\ q.known = req[r].known /\ q.kind = req[r].kind /\ q.list = req[r].list /\ q.out = req[r].out
  BY <1>1, RoutingShape
<1>4. Later(jobs, q)
  BY <1>1, <1>2, <1>3, LaterLess
<1>5. req'[r] = q /\ \A s \in Requests : s # r => req'[s] = req[s]
  BY <1>1, <1>3
<1> QED
  BY <1>2, <1>4, <1>5, SteadySame, LaterStep

LEMMA ReadExistingLater ==
  ASSUME JobsInv, LaterInv, NEW r \in Requests, ReadExisting(r)
  PROVE  LaterInv'
<1>1. DOMAIN req = Requests /\ DOMAIN req[r] = Fields /\ Later(jobs, req[r])
  BY DEF JobsInv, RequestOK, ViewsOK, LaterInv
<1>2. jobs' = jobs /\ req[r].pc = "look"
  BY DEF ReadExisting
<1> DEFINE L == {View(j) : j \in PrintJobs}
<1>3. \A v \in L : v.id \in DOMAIN jobs /\ v.status = jobs[v.id].status
  BY DEF View, PrintJobs
<1> HIDE DEF L
<1>4. /\ \A s \in Requests : s # r => req'[s] = req[s]
      /\ req'[r].out = req[r].out /\ req'[r].list = L
      /\ req'[r].kind = req[r].kind /\ req'[r].known = req[r].known
  <2>1. req' = [req EXCEPT ![r].pc = "create", ![r].want = NoDocs, ![r].tickets = NoTickets, ![r].left = {},
                  ![r].list = L]
    BY DEF ReadExisting, L
  <2> QED
    BY <1>1, <2>1 DEF Fields
<1>5. \A v \in L : v.id \in req[r].known /\ v.status # "printed" => jobs[v.id].reprint = "yes"
  BY <1>1, <1>3 DEF Later
<1>6. Later(jobs, req'[r])
  BY <1>1, <1>2, <1>4, <1>5 DEF Later
<1> QED
  BY <1>2, <1>4, <1>6, SteadySame, LaterStep

\* A request that goes on to its next ticket: what it is going to send besides
\* was not printed when it began, or was put back.
LEMMA ReturnedLater ==
  ASSUME NEW js, NEW q, DOMAIN q = Fields, IsSeq(q.out), Later(js, q), q.pc = "create", NEW w, NEW v,
         v.id \in q.known /\ v.status # "printed" => js[v.id].reprint = "yes"
  PROVE  Later(js, Returned(q, w, v))
<1> DEFINE d == Returned(q, w, v)
<1>1. /\ d.out = IF Skips(q.kind, q.doc, v) THEN q.out ELSE Append(q.out, v)
      /\ d.pc = "create" => q.pc = "create"
      /\ d.pc \in {"create", "done", "dispatch"}
      /\ \/ d.kind = q.kind /\ d.known = q.known /\ d.list \subseteq q.list
         \/ d.known = {} /\ d.pc = "done"
  BY ReturnedShape
<1> HIDE DEF d
<1>2. CASE d.known = {} /\ d.pc = "done"
  BY <1>2, LaterFresh DEF d
<1>3. CASE d.kind = q.kind /\ d.known = q.known /\ d.list \subseteq q.list
  <2>1. q.kind \in {"auto", "all", "doc"}
    BY DEF Later
  <2>2. CASE Skips(q.kind, q.doc, v)
    <3>1. Later(js, d)
      BY <1>1, <1>3, <2>2, LaterLess
    <3> QED
      BY <3>1 DEF d
  <2>3. CASE ~Skips(q.kind, q.doc, v)
    <3>1. q.kind # "doc" => v.status # "printed"
      BY <2>1, <2>3 DEF Skips
    <3>2. /\ DOMAIN d.out = DOMAIN q.out \cup {Len(q.out) + 1} /\ d.out[Len(q.out) + 1] = v
          /\ \A i \in DOMAIN q.out : d.out[i] = q.out[i]
      BY <1>1, <2>3, SeqAppend
    <3>3. q.kind # "doc" => \A i \in DOMAIN q.out : q.out[i].id \in q.known => js[q.out[i].id].reprint = "yes"
      BY DEF Later
    <3>4. q.kind # "doc" => \A i \in DOMAIN d.out : d.out[i].id \in d.known => js[d.out[i].id].reprint = "yes"
      BY ZenonT(30), <1>3, <3>1, <3>2, <3>3
    <3>5. Later(js, d)
      BY <1>3, <2>1, <3>4 DEF Later
    <3> QED
      BY <3>5 DEF d
  <2> QED
    BY <2>2, <2>3
<1> QED
  BY ONLY ZenonT(30), <1>1, <1>2, <1>3

LEMMA KeepOldLater ==
  ASSUME JobsInv, LaterInv, NEW r \in Requests, KeepOld(r)
  PROVE  LaterInv'
<1>1. jobs' = jobs /\ req[r].pc = "create"
  BY DEF KeepOld
<1>2. PICK w \in NextWant(r), old \in req[r].list : req' = [req EXCEPT ![r] = Returned(req[r], w, old)]
  BY Zenon DEF KeepOld
<1>3. DOMAIN req = Requests /\ DOMAIN req[r] = Fields /\ IsSeq(req[r].out) /\ Later(jobs, req[r])
  BY DEF JobsInv, RequestOK, ViewsOK, LaterInv
<1>4. old.id \in req[r].known /\ old.status # "printed" => jobs[old.id].reprint = "yes"
  BY <1>3 DEF Later
<1>5. Later(jobs, Returned(req[r], w, old))
  BY <1>1, <1>3, <1>4, ReturnedLater
<1> QED
  BY Zenon, <1>1, <1>2, <1>3, <1>5, SteadySame, LaterStep

LEMMA CreateNewLater ==
  ASSUME JobsInv, LaterInv, NEW r \in Requests, CreateNew(r)
  PROVE  LaterInv'
<1> DEFINE n == Len(jobs')
           view == [id |-> n, key |-> jobs'[n].key, status |-> jobs'[n].status, attempts |-> jobs'[n].attempts]
<1>1. PICK w \in NextWant(r) : req' = [req EXCEPT ![r] = Returned(req[r], w, view)]
  BY Zenon DEF CreateNew, View
<1>2. PICK b : jobs' = Append(jobs, b)
  BY Zenon DEF CreateNew, savePrintJob
<1>3. /\ DOMAIN req = Requests /\ DOMAIN req[r] = Fields /\ IsSeq(req[r].out) /\ Later(jobs, req[r])
      /\ req[r].pc = "create"
  BY ZenonT(30) DEF JobsInv, RequestOK, ViewsOK, LaterInv, CreateNew
<1>4. n \notin DOMAIN jobs /\ Steady(jobs, jobs')
  BY <1>2, SeqAppend DEF JobsInv, JobsOK, Steady
<1>5. view.id = n
  OBVIOUS
<1> HIDE DEF view
<1>6. view.id \notin req[r].known
  BY <1>3, <1>4, <1>5 DEF Later
<1>7. Later(jobs', req[r])
  BY ZenonT(30), <1>3, <1>4, LaterStays
<1>8. Later(jobs', Returned(req[r], w, view))
  BY <1>3, <1>6, <1>7, ReturnedLater
<1> QED
  BY Zenon, <1>1, <1>3, <1>4, <1>8, LaterStep

\* A copy changes the job's paper, and of the request the place and the result.
LEMMA SendCopyShape ==
  ASSUME NEW r \in Requests, SendCopy(r)
  PROVE  \E paper, copy, pc, res :
           /\ jobs' = [jobs EXCEPT ![Head(req[r].out).id] = [@ EXCEPT !.paper = paper]]
           /\ req' = [req EXCEPT ![r] = [@ EXCEPT !.copy = copy, !.pc = pc, !.res = res]]
           /\ pc \in {"send", "verdict"}
           /\ pc = "verdict" => res \in {"printed", "failed"}
<1> DEFINE j == Head(req[r].out).id
           n == req[r].copy
           all == Clamp(jobs[j].key.copies)
<1>1. PICK ok \in {"yes", "no"}, out \in {0, 1} :
        /\ jobs' = [jobs EXCEPT ![j].paper = IF n + out > @ THEN n + out ELSE @]
        /\ req' = [req EXCEPT ![r].copy = @ + 1,
                    ![r].pc = IF ok = "no" \/ n + 1 = all THEN "verdict" ELSE "send",
                    ![r].res = IF ok = "no" THEN "failed" ELSE IF n + 1 = all THEN "printed" ELSE @]
  BY Zenon DEF SendCopy
<1> DEFINE paper == IF n + out > jobs[j].paper THEN n + out ELSE jobs[j].paper
           copy == n + 1
           pc == IF ok = "no" \/ n + 1 = all THEN "verdict" ELSE "send"
           res == IF ok = "no" THEN "failed" ELSE IF n + 1 = all THEN "printed" ELSE req[r].res
<1>2. jobs' = [jobs EXCEPT ![j] = [@ EXCEPT !.paper = paper]]
  BY <1>1, Zenon
<1>3. req' = [req EXCEPT ![r] = [@ EXCEPT !.copy = copy, !.pc = pc, !.res = res]]
  BY <1>1, ZenonT(30)
<1>4. pc \in {"send", "verdict"} /\ (pc = "verdict" => res \in {"printed", "failed"})
  OBVIOUS
<1> HIDE DEF paper, copy, pc, res
<1> QED
  BY <1>2, <1>3, <1>4, Zenon

LEMMA RetryLater ==
  ASSUME JobsInv, LaterInv, NEW r \in Requests, handlePrintRetry(r)
  PROVE  LaterInv'
<1>1. jobs' = jobs
  BY DEF handlePrintRetry
<1>2. PICK j \in DOMAIN jobs :
        /\ jobs[j].status # "printed"
        /\ req' = [req EXCEPT ![r] = [Blank EXCEPT !.pc = "dispatch", !.kind = "retry", !.out = <<View(j)>>,
                                                   !.known = PrintedJobs]]
  BY Zenon DEF handlePrintRetry
<1> DEFINE v == View(j)
<1>3. v.id = j
  BY DEF View
<1> HIDE DEF v
<1>4. /\ \A s \in Requests : s # r => req'[s] = req[s]
      /\ req'[r].pc = "dispatch" /\ req'[r].out = <<v>> /\ req'[r].list = {} /\ req'[r].known = PrintedJobs
  BY <1>2 DEF Blank, v, JobsInv
<1>5. DOMAIN <<v>> = {1} /\ <<v>>[1] = v
  OBVIOUS
<1>6. Later(jobs, req'[r])
  BY <1>2, <1>3, <1>4, <1>5 DEF Later, PrintedJobs
<1> QED
  BY <1>1, <1>4, <1>6, SteadySame, LaterStep

LEMMA TestLater ==
  ASSUME JobsInv, LaterInv, NEW r \in Requests, handlePrintTest(r)
  PROVE  LaterInv'
<1> DEFINE v == View(Len(jobs))'
<1>1. req' = [req EXCEPT ![r] = [Blank EXCEPT !.pc = "dispatch", !.kind = "test", !.out = <<v>>]]
  BY DEF handlePrintTest
<1> HIDE DEF v
<1>2. PICK b : jobs' = Append(jobs, b)
  BY Zenon DEF handlePrintTest, EnqueueTestPrintJob, savePrintJob
<1>3. Steady(jobs, jobs')
  BY <1>2, SeqAppend DEF JobsInv, JobsOK, Steady
<1>4. /\ \A s \in Requests : s # r => req'[s] = req[s]
      /\ req'[r].pc = "dispatch" /\ req'[r].known = {}
  BY ZenonT(30), <1>1 DEF Blank, JobsInv
<1> QED
  BY <1>3, <1>4, LaterFresh, LaterStep

\* Whoever takes the status "printed" from the job in hand puts it back.
LEMMA AgainPutsBack ==
  ASSUME JobsInv, LaterInv, NEW r \in Requests, req[r].pc \in {"dispatch", "send", "verdict"},
         NEW j, j = Head(req[r].out).id
  PROVE  /\ jobs[j].reprint = "yes" => Again(r, j) = "yes"
         /\ jobs[j].status = "printed" => Again(r, j) = "yes"
<1>1. j = req[r].out[1].id /\ 1 \in DOMAIN req[r].out
  BY InHand
<1>2. req[r].kind # "doc" /\ j \in req[r].known => jobs[j].reprint = "yes"
  BY <1>1 DEF LaterInv, Later
<1> QED
  BY <1>2 DEF Again

\* Marking the first view of a request "pending" leaves its jobs the same.
LEMMA MarkViewShape ==
  ASSUME JobsInv, NEW r \in Requests, req[r].pc = "dispatch",
         req' = [req EXCEPT ![r].out[1].status = "pending"]
  PROVE  /\ \A s \in Requests : s # r => req'[s] = req[s]
         /\ req'[r].pc = "dispatch" /\ req'[r].list = req[r].list
         /\ req'[r].kind = req[r].kind /\ req'[r].known = req[r].known
         /\ DOMAIN req'[r].out = DOMAIN req[r].out
         /\ \A i \in DOMAIN req[r].out : req'[r].out[i].id = req[r].out[i].id
<1> DEFINE o == req[r].out
           v == [o[1] EXCEPT !.status = "pending"]
           o1 == [o EXCEPT ![1] = v]
<1>1. 1 \in DOMAIN o /\ DOMAIN req = Requests /\ DOMAIN req[r] = Fields /\ DOMAIN o[1] = {"id", "key", "status", "attempts"}
  BY InHand DEF RequestOK, ViewsOK, ViewOK
<1>2. v.id = o[1].id
  BY <1>1
<1>3. DOMAIN o1 = DOMAIN o /\ \A i \in DOMAIN o : o1[i].id = o[i].id
  <2> HIDE DEF v
  <2> QED
    BY <1>1, <1>2
<1>4. req' = [req EXCEPT ![r] = [@ EXCEPT !.out = o1]]
  OBVIOUS
<1> HIDE DEF o1
<1>5. /\ \A s \in Requests : s # r => req'[s] = req[s]
      /\ req'[r].out = o1 /\ req'[r].list = req[r].list /\ req'[r].pc = "dispatch"
      /\ req'[r].kind = req[r].kind /\ req'[r].known = req[r].known
  BY <1>1, <1>4 DEF Fields
<1> QED
  BY <1>3, <1>5

LEMMA ReprintLater ==
  ASSUME JobsInv, LaterInv, NEW r \in Requests, Reprint(r)
  PROVE  LaterInv'
<1> DEFINE j == Head(req[r].out).id
           b == [jobs[j] EXCEPT !.status = "pending", !.reprint = Again(r, j)]
<1>1. req[r].pc = "dispatch" /\ req' = [req EXCEPT ![r].out[1].status = "pending"]
  BY DEF Reprint, MayReprint
<1>2. j \in DOMAIN jobs /\ DOMAIN jobs[j] = JobFields
  BY <1>1, InHand DEF JobsInv, JobsOK, JobOK
<1>3. jobs' = [jobs EXCEPT ![j] = b]
  BY DEF Reprint
<1>4. b.reprint = Again(r, j)
  BY <1>2 DEF JobFields
<1> HIDE DEF b
<1>5. Steady(jobs, jobs')
  <2>1. /\ jobs[j].reprint = "yes" => b.reprint = "yes"
        /\ jobs[j].status = "printed" => b.reprint = "yes"
    BY <1>1, <1>4, AgainPutsBack
  <2> HIDE DEF j
  <2> QED
    BY Zenon, <1>2, <1>3, <2>1, SteadyChange
<1>6. Later(jobs', req[r])
  BY ZenonT(30), <1>5, LaterStays DEF LaterInv
<1>7. Later(jobs', req'[r])
  <2>1. \A i \in DOMAIN req'[r].out : \E k \in DOMAIN req[r].out : req'[r].out[i].id = req[r].out[k].id
    BY <1>1, MarkViewShape
  <2>2. /\ req'[r].known = req[r].known /\ req'[r].kind = req[r].kind /\ req'[r].list \subseteq req[r].list
        /\ req'[r].pc \notin {"routing", "look", "create"}
    BY <1>1, MarkViewShape
  <2> QED
    BY <1>6, <2>1, <2>2, LaterLess
<1> QED
  BY <1>1, <1>5, <1>7, MarkViewShape, LaterStep

LEMMA MarkPrintingLater ==
  ASSUME JobsInv, LaterInv, NEW r \in Requests, MarkPrinting(r)
  PROVE  LaterInv'
<1> DEFINE j == Head(req[r].out).id
           b == [jobs[j] EXCEPT !.status = "printing", !.attempts = jobs[j].attempts + 1, !.reprint = Again(r, j)]
<1>1. req[r].pc = "dispatch" /\ req' = [req EXCEPT ![r].pc = "send"]
  BY DEF MarkPrinting, MayDispatch
<1>2. j \in DOMAIN jobs /\ DOMAIN jobs[j] = JobFields
  BY <1>1, InHand DEF JobsInv, JobsOK, JobOK
<1>3. jobs' = [jobs EXCEPT ![j] = b]
  BY DEF MarkPrinting
<1>4. b.reprint = Again(r, j)
  BY <1>2 DEF JobFields
<1> HIDE DEF b
<1>5. Steady(jobs, jobs')
  <2>1. /\ jobs[j].reprint = "yes" => b.reprint = "yes"
        /\ jobs[j].status = "printed" => b.reprint = "yes"
    BY <1>1, <1>4, AgainPutsBack
  <2> HIDE DEF j
  <2> QED
    BY Zenon, <1>2, <1>3, <2>1, SteadyChange
<1>6. Later(jobs', req[r])
  BY <1>5, LaterStays DEF LaterInv
<1>7. /\ \A s \in Requests : s # r => req'[s] = req[s]
      /\ req'[r].pc = "send" /\ req'[r].out = req[r].out /\ req'[r].list = req[r].list
      /\ req'[r].kind = req[r].kind /\ req'[r].known = req[r].known
  BY <1>1, InHand DEF Fields
<1>8. Later(jobs', req'[r])
  BY <1>6, <1>7, LaterLess
<1> QED
  BY <1>5, <1>7, <1>8, LaterStep

LEMMA SendCopyLater ==
  ASSUME JobsInv, LaterInv, NEW r \in Requests, SendCopy(r)
  PROVE  LaterInv'
<1> DEFINE j == Head(req[r].out).id
<1>1. req[r].pc = "send"
  BY ZenonT(30) DEF SendCopy
<1>2. j \in DOMAIN jobs /\ DOMAIN jobs[j] = JobFields
  BY <1>1, InHand DEF JobsInv, JobsOK, JobOK
<1>3. PICK paper, copy, pc, res :
        /\ jobs' = [jobs EXCEPT ![j] = [@ EXCEPT !.paper = paper]]
        /\ req' = [req EXCEPT ![r] = [@ EXCEPT !.copy = copy, !.pc = pc, !.res = res]]
        /\ pc \in {"send", "verdict"}
  BY <1>1, SendCopyShape, ZenonT(30)
<1> DEFINE b == [jobs[j] EXCEPT !.paper = paper]
<1>4. b.status = jobs[j].status /\ b.reprint = jobs[j].reprint /\ jobs' = [jobs EXCEPT ![j] = b]
  BY <1>2, <1>3 DEF JobFields
<1> HIDE DEF b
<1> HIDE DEF j
<1>5. Steady(jobs, jobs')
  BY Zenon, <1>2, <1>4, SteadyChange
<1>6. Later(jobs', req[r])
  BY <1>5, LaterStays DEF LaterInv
<1>7. /\ \A s \in Requests : s # r => req'[s] = req[s]
      /\ req'[r].pc = pc /\ req'[r].out = req[r].out /\ req'[r].list = req[r].list
      /\ req'[r].kind = req[r].kind /\ req'[r].known = req[r].known
  BY <1>1, <1>3, InHand DEF Fields
<1>8. Later(jobs', req'[r])
  <2>1. req'[r].list \subseteq req[r].list /\ req'[r].pc \notin {"routing", "look", "create"}
    BY <1>3, <1>7
  <2> QED
    BY <1>6, <1>7, <2>1, LaterLess
<1> QED
  BY <1>5, <1>7, <1>8, LaterStep

\* A request that goes on to its next job.
LEMMA NextJobLater ==
  ASSUME JobsInv, NEW js, NEW r \in Requests, Later(js, req[r]), req[r].pc \in {"dispatch", "verdict"}
  PROVE  Later(js, NextJob(r))
<1> DEFINE q == req[r]
           d == NextJob(r)
<1>1. DOMAIN q = Fields /\ IsSeq(q.out) /\ q.out # << >>
  BY InHand DEF RequestOK, ViewsOK
<1>2. /\ d.out = Tail(q.out) /\ d.pc \in {"create", "done", "dispatch"}
      /\ d.pc = "create" => q.pc = "create"
      /\ \/ d.kind = q.kind /\ d.known = q.known /\ d.list \subseteq q.list
         \/ d.known = {} /\ d.pc = "done"
  BY <1>1, NextJobShape
<1> HIDE DEF d
<1>3. CASE d.known = {} /\ d.pc = "done"
  BY <1>3, LaterFresh DEF d
<1>4. CASE d.kind = q.kind /\ d.known = q.known /\ d.list \subseteq q.list
  <2>1. \A i \in DOMAIN d.out : \E k \in DOMAIN q.out : d.out[i].id = q.out[k].id
    BY <1>1, <1>2, SeqTail
  <2>2. d.pc \notin {"routing", "look", "create"}
    BY <1>2
  <2>3. Later(js, d)
    BY <1>4, <2>1, <2>2, LaterLess
  <2> QED
    BY <2>3 DEF d
<1> QED
  BY ZenonT(30), <1>2, <1>3, <1>4

LEMMA VerdictLater ==
  ASSUME JobsInv, LaterInv, NEW r \in Requests, Verdict(r)
  PROVE  LaterInv'
<1> DEFINE j == Head(req[r].out).id
           back == IF req[r].res = "printed" THEN jobs[j].reprint ELSE Again(r, j)
           b == [jobs[j] EXCEPT !.status = req[r].res, !.reprint = back]
<1>1. req[r].pc = "verdict" /\ req' = [req EXCEPT ![r] = NextJob(r)]
  BY ZenonT(30) DEF Verdict
<1>2. j \in DOMAIN jobs /\ DOMAIN jobs[j] = JobFields /\ DOMAIN req = Requests
  BY <1>1, InHand DEF JobsInv, JobsOK, JobOK
<1>3. jobs' = [jobs EXCEPT ![j] = b]
  BY DEF Verdict, SaveOutcome
<1>4. b.reprint = back /\ b.status = req[r].res
  BY <1>2 DEF JobFields
<1> HIDE DEF b
<1>5. Steady(jobs, jobs')
  <2>1. /\ jobs[j].reprint = "yes" => b.reprint = "yes"
        /\ jobs[j].status = "printed" => b.status = "printed" \/ b.reprint = "yes"
    BY Zenon, <1>1, <1>4, AgainPutsBack
  <2> HIDE DEF j
  <2> QED
    BY ZenonT(30), <1>2, <1>3, <2>1, SteadyChange
<1>6. Later(jobs', req[r])
  BY <1>5, LaterStays DEF LaterInv
<1>7. Later(jobs', NextJob(r))
  BY <1>1, <1>6, NextJobLater
<1>8. req'[r] = NextJob(r) /\ \A s \in Requests : s # r => req'[s] = req[s]
  BY <1>1, <1>2
<1> QED
  BY <1>5, <1>7, <1>8, LaterStep

LEMMA StoreFailsLater ==
  ASSUME JobsInv, LaterInv, NEW r \in Requests, StoreFails(r)
  PROVE  LaterInv'
<1>1. jobs' = jobs /\ Steady(jobs, jobs') /\ DOMAIN req = Requests /\ Later(jobs, req[r])
  BY SteadySame DEF StoreFails, JobsInv, LaterInv
<1> DEFINE e == [Blank EXCEPT !.pc = "done"]
<1>2. e.known = {} /\ e.pc = "done"
  BY DEF Blank
<1>3. CASE req' = [req EXCEPT ![r] = e]
  <2> HIDE DEF e
  <2>1. req'[r] = e /\ \A s \in Requests : s # r => req'[s] = req[s]
    BY <1>1, <1>3
  <2> QED
    BY <1>1, <1>2, <2>1, LaterFresh, LaterStep
<1>4. CASE req[r].pc = "dispatch" /\ req' = [req EXCEPT ![r].out[1].status = "pending"]
  <2>1. \A i \in DOMAIN req'[r].out : \E k \in DOMAIN req[r].out : req'[r].out[i].id = req[r].out[k].id
    BY <1>4, MarkViewShape
  <2>2. /\ req'[r].known = req[r].known /\ req'[r].kind = req[r].kind /\ req'[r].list \subseteq req[r].list
        /\ req'[r].pc \notin {"routing", "look", "create"}
    BY <1>4, MarkViewShape
  <2>3. Later(jobs, req'[r])
    BY SMTT(20), SMTT(30), <1>1, <2>1, <2>2, LaterLess
  <2>4. \A s \in Requests : s # r => req'[s] = req[s]
    BY <1>4, MarkViewShape
  <2> QED
    BY <1>1, <2>3, <2>4, LaterStep
<1>5. CASE req[r].pc \in {"dispatch", "verdict"} /\ req' = [req EXCEPT ![r] = NextJob(r)]
  <2>1. Later(jobs, NextJob(r))
    BY <1>1, <1>5, NextJobLater
  <2>2. req'[r] = NextJob(r) /\ \A s \in Requests : s # r => req'[s] = req[s]
    BY <1>1, <1>5
  <2> QED
    BY <1>1, <2>1, <2>2, LaterStep
<1> QED
  BY <1>3, <1>4, <1>5 DEF StoreFails, MayReprint, MayDispatch

LEMMA PushedOutLater ==
  ASSUME JobsInv, LaterInv, NEW j \in DOMAIN jobs, PushedOut(j)
  PROVE  LaterInv'
<1> DEFINE b == [jobs[j] EXCEPT !.listed = "no"]
<1>1. DOMAIN jobs[j] = JobFields /\ jobs' = [jobs EXCEPT ![j] = b] /\ req' = req
  BY DEF JobsInv, JobsOK, JobOK, PushedOut
<1>2. b.status = jobs[j].status /\ b.reprint = jobs[j].reprint
  BY <1>1 DEF JobFields
<1> HIDE DEF b
<1>3. Steady(jobs, jobs')
  BY Zenon, <1>1, <1>2, SteadyChange
<1> QED
  BY <1>1, <1>3, LaterStays DEF LaterInv

LEMMA CrashLater ==
  ASSUME LaterInv, Crash
  PROVE  LaterInv'
<1> DEFINE d == [Blank EXCEPT !.pc = "done"]
<1>1. d.known = {} /\ d.pc = "done"
  BY DEF Blank
<1>2. jobs' = jobs /\ req' = [r \in Requests |-> IF req[r].pc = "idle" THEN req[r] ELSE d]
  BY DEF Crash
<1> HIDE DEF d
<1>3. Later(jobs, d)
  BY <1>1, LaterFresh
<1> QED
  BY <1>2, <1>3 DEF LaterInv

LEMMA LaterInvStep == JobsInv /\ LaterInv /\ [Next]_vars => LaterInv'
<1> SUFFICES ASSUME JobsInv, LaterInv, [Next]_vars
             PROVE  LaterInv'
  OBVIOUS
<1>1. ASSUME NEW r \in Requests, autoPrintAsync(r) \/ handlePrintOrder(r)
      PROVE  LaterInv'
  BY <1>1, BeginLater DEF autoPrintAsync, handlePrintOrder
<1>2. ASSUME NEW r \in Requests, handlePrintRetry(r) \/ handlePrintTest(r) \/ StoreFails(r)
      PROVE  LaterInv'
  BY <1>2, RetryLater, TestLater, StoreFailsLater
<1>3. ASSUME NEW r \in Requests, Work(r)
      PROVE  LaterInv'
  BY <1>3, RoutingLater, ReadExistingLater, KeepOldLater, CreateNewLater, ReprintLater, MarkPrintingLater,
     SendCopyLater, VerdictLater DEF Work
<1>4. ASSUME NEW j \in DOMAIN jobs, PushedOut(j)
      PROVE  LaterInv'
  BY <1>4, PushedOutLater
<1>5. CASE Crash
  BY <1>5, CrashLater
<1>6. CASE UNCHANGED vars
  BY <1>6 DEF vars, LaterInv
<1> QED
  BY <1>1, <1>2, <1>3, <1>4, <1>5, <1>6 DEF Next

\* A request that begins after a job was printed does not send it again, for any
\* number of requests side by side: what the listing shows as printed is skipped,
\* and handlePrintRetry refuses it.  Only a job that the row menu, or a request
\* from before, took up again can come out a second time.
THEOREM LaterRequestsPrintNoSecond == Spec => []NoSecondPaper
<1>1. Init => LaterInv
  <2>1. Blank.known = {} /\ Blank.pc = "idle"
    BY ZenonT(30) DEF Blank
  <2> QED
    BY <2>1, LaterFresh DEF Init, LaterInv
<1>2. JobsInv /\ LaterInv => NoSecondPaper
  <2> SUFFICES ASSUME JobsInv, LaterInv, NEW r \in Requests, req[r].pc \in {"send", "verdict"},
                      req[r].kind \in {"auto", "all", "retry"}, Head(req[r].out).id \in req[r].known
               PROVE  jobs[Head(req[r].out).id].reprint = "yes"
    BY DEF NoSecondPaper
  <2>1. Head(req[r].out) = req[r].out[1] /\ 1 \in DOMAIN req[r].out
    BY ZenonT(30), InHand
  <2> QED
    BY <2>1 DEF LaterInv, Later
<1> QED
  BY <1>1, <1>2, JobsInvAlways, LaterInvStep, PTL DEF Spec

----------------------------------------------------------------------------
(* Jobs that are not finished.                                             *)

\* A request still has job j on its list of jobs to send.
Holds(q, j) == \E i \in DOMAIN q.out : q.out[i].id = j

\* Nothing more is due for a job.
Settled(b) ==
  \/ b.status \in {"printed", "failed"}
  \/ b.status = "pending" /\ b.attempts = 0 /\ b.aside = "yes"

\* A request that is over holds no job, and one that is about to record an outcome
\* has one.
Ended(q) ==
  /\ q.pc \in {"idle", "done"} => q.out = << >>
  /\ q.pc = "verdict" => q.res \in {"printed", "failed"}

\* Every job is settled or held by a request, as long as no store call failed.
LeftInv ==
  /\ \A r \in Requests : Ended(req[r])
  /\ cut = "no" => \A j \in DOMAIN jobs : Settled(jobs[j]) \/ \E s \in Requests : Holds(req[s], j)

\* A step of request r leaves no job behind if each job is settled, or held by r, or
\* is as settled as before and held by r if it was.
LEMMA LeftStep ==
  ASSUME LeftInv, NEW r \in Requests, \A s \in Requests : s # r => req'[s] = req[s], Ended(req'[r]),
         cut' = cut,
         \A j \in DOMAIN jobs' :
           \/ Settled(jobs'[j]) \/ Holds(req'[r], j)
           \/ /\ j \in DOMAIN jobs
              /\ Settled(jobs[j]) => Settled(jobs'[j])
              /\ Holds(req[r], j) => Holds(req'[r], j)
  PROVE  LeftInv'
<1>1. \A s \in Requests : Ended(req'[s])
  BY DEF LeftInv
<1>2. ASSUME cut = "no", NEW j \in DOMAIN jobs'
      PROVE  Settled(jobs'[j]) \/ \E s \in Requests : Holds(req'[s], j)
  <2>1. CASE Settled(jobs'[j]) \/ Holds(req'[r], j)
    BY <2>1
  <2>2. CASE /\ j \in DOMAIN jobs
             /\ Settled(jobs[j]) => Settled(jobs'[j])
             /\ Holds(req[r], j) => Holds(req'[r], j)
    <3>1. CASE Settled(jobs[j])
      BY <2>2, <3>1
    <3>2. CASE \E s \in Requests : Holds(req[s], j)
      <4>1. PICK s \in Requests : Holds(req[s], j)
        BY <3>2
      <4>2. Holds(req'[s], j)
        BY <2>2, <4>1
      <4> QED
        BY <4>2
    <3> QED
      BY ZenonT(30), <1>2, <2>2, <3>1, <3>2 DEF LeftInv
  <2> QED
    BY ZenonT(30), <2>1, <2>2
<1> QED
  BY ZenonT(30), <1>1, <1>2 DEF LeftInv, Ended, Holds, Settled

LEMMA CutStep ==
  ASSUME LeftInv, NEW r \in Requests, \A s \in Requests : s # r => req'[s] = req[s], Ended(req'[r]),
         cut' = "yes"
  PROVE  LeftInv'
<1>1. \A s \in Requests : Ended(req'[s])
  BY DEF LeftInv
<1> QED
  BY <1>1 DEF LeftInv, Ended

\* A request that is not under way holds nothing.
LEMMA IdleHoldsNothing ==
  ASSUME LeftInv, NEW r \in Requests, req[r].pc \in {"idle", "done"}, NEW j
  PROVE  ~Holds(req[r], j)
<1>1. req[r].out = << >> /\ DOMAIN << >> = {}
  BY DEF LeftInv, Ended
<1> QED
  BY <1>1 DEF Holds

LEMMA SameOutHolds ==
  ASSUME NEW q, NEW d, DOMAIN d.out = DOMAIN q.out, \A i \in DOMAIN q.out : d.out[i].id = q.out[i].id
  PROVE  \A j : Holds(q, j) => Holds(d, j)
BY DEF Holds

LEMMA ReturnedHolds ==
  ASSUME NEW q, DOMAIN q = Fields, IsSeq(q.out), NEW w, NEW v
  PROVE  /\ Ended(Returned(q, w, v))
         /\ \A j : Holds(q, j) => Holds(Returned(q, w, v), j)
         /\ ~Skips(q.kind, q.doc, v) => Holds(Returned(q, w, v), v.id)
<1> DEFINE d == Returned(q, w, v)
<1>1. /\ d.out = IF Skips(q.kind, q.doc, v) THEN q.out ELSE Append(q.out, v)
      /\ d.pc \in {"create", "done", "dispatch"}
      /\ d.pc = "done" => d.out = << >>
  BY ReturnedShape
<1> HIDE DEF d
<1>2. Ended(d)
  BY ZenonT(30), <1>1 DEF Ended
<1>3. CASE Skips(q.kind, q.doc, v)
  BY <1>1, <1>2, <1>3 DEF Holds, d
<1>4. CASE ~Skips(q.kind, q.doc, v)
  <2>1. /\ DOMAIN d.out = DOMAIN q.out \cup {Len(q.out) + 1} /\ d.out[Len(q.out) + 1] = v
        /\ \A i \in DOMAIN q.out : d.out[i] = q.out[i]
    BY <1>1, <1>4, SeqAppend
  <2>2. Holds(d, v.id) /\ \A j : Holds(q, j) => Holds(d, j)
    BY <2>1 DEF Holds
  <2> QED
    BY <1>2, <2>2 DEF d
<1> QED
  BY ZenonT(30), <1>3, <1>4

\* What follows the head of a list is in its tail.
LEMMA TailRest ==
  ASSUME NEW s, IsSeq(s), NEW k \in DOMAIN s, k # 1
  PROVE  k - 1 \in DOMAIN Tail(s) /\ Tail(s)[k - 1] = s[k]
<1>1. PICK S : s \in Seq(S)
  BY DEF IsSeq
<1> QED
  BY <1>1

LEMMA NextJobHolds ==
  ASSUME JobsInv, NEW r \in Requests, req[r].pc \in {"dispatch", "verdict"}
  PROVE  /\ Ended(NextJob(r))
         /\ \A j : Holds(req[r], j) /\ j # req[r].out[1].id => Holds(NextJob(r), j)
<1> DEFINE q == req[r]
           d == NextJob(r)
<1>1. DOMAIN q = Fields /\ IsSeq(q.out) /\ q.out # << >>
  BY InHand DEF RequestOK, ViewsOK
<1>2. /\ d.out = Tail(q.out) /\ d.pc \in {"create", "done", "dispatch"}
      /\ d.pc = "done" => d.out = << >>
  BY <1>1, NextJobShape
<1> HIDE DEF d
<1>3. Ended(d)
  BY <1>2 DEF Ended
<1>4. ASSUME NEW j, Holds(q, j), j # q.out[1].id
      PROVE  Holds(d, j)
  <2>1. PICK k \in DOMAIN q.out : q.out[k].id = j
    BY <1>4 DEF Holds
  <2>2. k # 1
    BY <1>4, <2>1
  <2>3. k - 1 \in DOMAIN d.out /\ d.out[k - 1] = q.out[k]
    BY ONLY ZenonT(30), <1>1, <1>2, <2>2, TailRest
  <2> QED
    BY <2>1, <2>3 DEF Holds
<1> QED
  BY ZenonT(30), <1>3, <1>4 DEF d

\* The same for a step that leaves the jobs alone, and for one that changes job j.
LEMMA LeftSame ==
  ASSUME LeftInv, NEW r \in Requests, \A s \in Requests : s # r => req'[s] = req[s], Ended(req'[r]),
         cut' = cut, jobs' = jobs, \A j : Holds(req[r], j) => Holds(req'[r], j)
  PROVE  LeftInv'
BY LeftStep

LEMMA LeftChange ==
  ASSUME LeftInv, NEW r \in Requests, \A s \in Requests : s # r => req'[s] = req[s], Ended(req'[r]),
         cut' = cut, NEW j \in DOMAIN jobs, NEW b, jobs' = [jobs EXCEPT ![j] = b],
         \/ Settled(b) \/ Holds(req'[r], j)
         \/ (Settled(jobs[j]) => Settled(b)) /\ (Holds(req[r], j) => Holds(req'[r], j)),
         \A k : Holds(req[r], k) /\ k # j => Holds(req'[r], k)
  PROVE  LeftInv'
<1>1. DOMAIN jobs' = DOMAIN jobs /\ jobs'[j] = b /\ \A k \in DOMAIN jobs : k # j => jobs'[k] = jobs[k]
  OBVIOUS
<1>2. ASSUME NEW k \in DOMAIN jobs'
      PROVE  \/ Settled(jobs'[k]) \/ Holds(req'[r], k)
             \/ /\ k \in DOMAIN jobs
                /\ Settled(jobs[k]) => Settled(jobs'[k])
                /\ Holds(req[r], k) => Holds(req'[r], k)
  BY ZenonT(30), <1>1
<1> QED
  BY ONLY LeftInv, r \in Requests, \A s \in Requests : s # r => req'[s] = req[s], Ended(req'[r]),
     cut' = cut, <1>2, LeftStep

----------------------------------------------------------------------------
(* Each step keeps LeftInv.                                                *)

LEMMA BeginLeft ==
  ASSUME JobsInv, LeftInv, NEW r \in Requests, NEW kind, NEW doc, NEW want, Begin(r, kind, doc, want)
  PROVE  LeftInv'
<1>1. jobs' = jobs /\ cut' = cut /\ req[r].pc = "idle"
  BY DEF Begin, Arrives
<1>2. (\A s \in Requests : s # r => req'[s] = req[s]) /\ req'[r].pc = "routing"
  BY DEF Begin, Blank, JobsInv
<1>3. Ended(req'[r])
  BY <1>2 DEF Ended
<1>4. \A j : Holds(req[r], j) => Holds(req'[r], j)
  BY ZenonT(30), <1>1, IdleHoldsNothing
<1> QED
  BY <1>1, <1>2, <1>3, <1>4, LeftSame

LEMMA RoutingLeft ==
  ASSUME JobsInv, LeftInv, NEW r \in Requests, RouteCategory(r) \/ EnqueueOrderPrintJobsDocs(r)
  PROVE  LeftInv'
<1>1. DOMAIN req = Requests /\ DOMAIN req[r] = Fields
  BY DEF JobsInv, RequestOK, ViewsOK
<1>2. jobs' = jobs /\ cut' = cut
  BY Zenon DEF RouteCategory, EnqueueOrderPrintJobsDocs
<1>3. PICK q : req' = [req EXCEPT ![r] = q] /\ q.out = req[r].out /\ q.pc \in {"routing", "look"}
  BY <1>1, RoutingShape
<1>4. req'[r] = q /\ \A s \in Requests : s # r => req'[s] = req[s]
  BY <1>1, <1>3
<1>5. Ended(q) /\ \A j : Holds(req[r], j) => Holds(q, j)
  BY ZenonT(30), <1>3 DEF Ended, Holds
<1> QED
  BY ZenonT(30), <1>2, <1>4, <1>5, LeftSame

LEMMA ReadExistingLeft ==
  ASSUME JobsInv, LeftInv, NEW r \in Requests, ReadExisting(r)
  PROVE  LeftInv'
<1>1. DOMAIN req = Requests /\ DOMAIN req[r] = Fields
  BY DEF JobsInv, RequestOK, ViewsOK
<1>2. jobs' = jobs /\ cut' = cut
  BY DEF ReadExisting
<1> DEFINE L == {View(j) : j \in PrintJobs}
<1>3. /\ \A s \in Requests : s # r => req'[s] = req[s]
      /\ req'[r].out = req[r].out /\ req'[r].pc = "create"
  <2>1. req' = [req EXCEPT ![r].pc = "create", ![r].want = NoDocs, ![r].tickets = NoTickets, ![r].left = {},
                  ![r].list = L]
    BY DEF ReadExisting
  <2> HIDE DEF L
  <2> QED
    BY <1>1, <2>1 DEF Fields
<1>4. Ended(req'[r]) /\ \A j : Holds(req[r], j) => Holds(req'[r], j)
  BY <1>3 DEF Ended, Holds
<1> QED
  BY ZenonT(30), <1>2, <1>3, <1>4, LeftSame

LEMMA KeepOldLeft ==
  ASSUME JobsInv, LeftInv, NEW r \in Requests, KeepOld(r)
  PROVE  LeftInv'
<1>1. jobs' = jobs /\ cut' = cut
  BY ZenonT(30) DEF KeepOld
<1>2. PICK w \in NextWant(r), old \in req[r].list : req' = [req EXCEPT ![r] = Returned(req[r], w, old)]
  BY Zenon DEF KeepOld
<1>3. DOMAIN req = Requests /\ DOMAIN req[r] = Fields /\ IsSeq(req[r].out)
  BY ZenonT(30) DEF JobsInv, RequestOK, ViewsOK
<1> DEFINE d == Returned(req[r], w, old)
<1>4. Ended(d) /\ \A j : Holds(req[r], j) => Holds(d, j)
  BY <1>3, ReturnedHolds
<1> HIDE DEF d
<1>5. req'[r] = d /\ \A s \in Requests : s # r => req'[s] = req[s]
  BY ZenonT(30), <1>2, <1>3 DEF d
<1> QED
  BY ZenonT(30), <1>1, <1>4, <1>5, LeftSame

\* createPrintJobs leaves out of its answer only what is settled: the job that
\* says there is no printer, and the document the row menu was not asked for.
LEMMA CreateNewLeft ==
  ASSUME JobsInv, LaterInv, LeftInv, NEW r \in Requests, CreateNew(r)
  PROVE  LeftInv'
<1> DEFINE n == Len(jobs')
           q == req[r]
           view == [id |-> n, key |-> jobs'[n].key, status |-> jobs'[n].status, attempts |-> jobs'[n].attempts]
<1>1. PICK w \in NextWant(r) :
        /\ req' = [req EXCEPT ![r] = Returned(q, w, view)]
        /\ jobs' = Append(jobs, Job(w, IF w.printer = NoPrinter THEN "failed" ELSE "pending", {v.id : v \in q.list},
                                    IF q.kind = "doc" /\ w.doc # q.doc THEN "yes" ELSE "no"))
  BY Zenon DEF CreateNew, View, savePrintJob
<1>2. cut' = cut /\ q.pc = "create"
  BY ZenonT(30) DEF CreateNew
<1>3. DOMAIN req = Requests /\ DOMAIN q = Fields /\ IsSeq(q.out) /\ q.kind \in {"auto", "all", "doc"}
  BY ZenonT(30), <1>2 DEF JobsInv, RequestOK, ViewsOK, LaterInv, Later
<1> DEFINE b == Job(w, IF w.printer = NoPrinter THEN "failed" ELSE "pending", {v.id : v \in q.list},
                    IF q.kind = "doc" /\ w.doc # q.doc THEN "yes" ELSE "no")
<1>4. /\ b.key = w /\ b.attempts = 0 /\ b.status = IF w.printer = NoPrinter THEN "failed" ELSE "pending"
      /\ b.aside = IF q.kind = "doc" /\ w.doc # q.doc THEN "yes" ELSE "no"
  BY ZenonT(30) DEF Job
<1> HIDE DEF b
<1>5. DOMAIN jobs' = DOMAIN jobs \cup {n} /\ jobs'[n] = b /\ \A j \in DOMAIN jobs : jobs'[j] = jobs[j]
  <2>1. jobs' = Append(jobs, b) /\ IsSeq(jobs)
    BY Zenon, <1>1 DEF JobsInv, JobsOK, b
  <2> QED
    BY <2>1, SeqAppend
<1>6. view.id = n /\ view.status = b.status /\ view.key = w /\ view.attempts = 0
  <2>1. /\ view.id = n /\ view.status = jobs'[n].status /\ view.key = jobs'[n].key
        /\ view.attempts = jobs'[n].attempts
    BY ZenonT(30)
  <2> HIDE DEF view, n
  <2> QED
    BY <1>4, <1>5, <2>1
<1> DEFINE d == Returned(q, w, view)
<1> HIDE DEF view
<1>7. Ended(d) /\ (\A j : Holds(q, j) => Holds(d, j)) /\ (~Skips(q.kind, q.doc, view) => Holds(d, n))
  BY <1>3, <1>6, ReturnedHolds
<1>8. Settled(b) \/ ~Skips(q.kind, q.doc, view)
  BY <1>3, <1>4, <1>6 DEF Settled, Skips
<1> HIDE DEF d
<1>9. req'[r] = d /\ \A s \in Requests : s # r => req'[s] = req[s]
  BY ZenonT(30), <1>1, <1>3 DEF d
<1> HIDE DEF n
<1>10. \A j \in DOMAIN jobs' : \/ Settled(jobs'[j]) \/ Holds(req'[r], j)
                               \/ /\ j \in DOMAIN jobs
                                  /\ Settled(jobs[j]) => Settled(jobs'[j])
                                  /\ Holds(req[r], j) => Holds(req'[r], j)
  BY ONLY ZenonT(30), <1>5, <1>7, <1>8, <1>9
<1>11. Ended(req'[r])
  BY ZenonT(30), <1>7, <1>9
<1> QED
  BY ONLY ZenonT(30), LeftInv, r \in Requests, <1>2, <1>9, <1>10, <1>11, LeftStep

LEMMA RetryLeft ==
  ASSUME JobsInv, LeftInv, NEW r \in Requests, handlePrintRetry(r)
  PROVE  LeftInv'
<1>1. jobs' = jobs /\ cut' = cut /\ req[r].pc = "idle"
  BY DEF handlePrintRetry, Arrives
<1>2. PICK j \in DOMAIN jobs :
        req' = [req EXCEPT ![r] = [Blank EXCEPT !.pc = "dispatch", !.kind = "retry", !.out = <<View(j)>>,
                                                !.known = PrintedJobs]]
  BY Zenon DEF handlePrintRetry
<1>3. (\A s \in Requests : s # r => req'[s] = req[s]) /\ req'[r].pc = "dispatch"
  BY <1>2 DEF Blank, JobsInv
<1>4. Ended(req'[r])
  BY <1>3 DEF Ended
<1>5. \A k : Holds(req[r], k) => Holds(req'[r], k)
  BY ZenonT(30), <1>1, IdleHoldsNothing
<1> QED
  BY <1>1, <1>3, <1>4, <1>5, LeftSame

LEMMA TestLeft ==
  ASSUME JobsInv, LeftInv, NEW r \in Requests, handlePrintTest(r)
  PROVE  LeftInv'
<1> DEFINE n == Len(jobs')
           v == View(Len(jobs))'
<1>1. req' = [req EXCEPT ![r] = [Blank EXCEPT !.pc = "dispatch", !.kind = "test", !.out = <<v>>]]
  BY DEF handlePrintTest
<1>2. v.id = n
  BY DEF View
<1> HIDE DEF v
<1>3. PICK b : jobs' = Append(jobs, b)
  BY Zenon DEF handlePrintTest, EnqueueTestPrintJob, savePrintJob
<1>4. DOMAIN jobs' = DOMAIN jobs \cup {n} /\ \A j \in DOMAIN jobs : jobs'[j] = jobs[j]
  BY <1>3, SeqAppend DEF JobsInv, JobsOK
<1>5. cut' = cut /\ req[r].pc = "idle"
  BY Zenon DEF handlePrintTest, Arrives
<1>6. /\ \A s \in Requests : s # r => req'[s] = req[s]
      /\ req'[r].pc = "dispatch" /\ req'[r].out = <<v>>
  BY <1>1 DEF Blank, JobsInv
<1>7. DOMAIN <<v>> = {1} /\ <<v>>[1] = v
  OBVIOUS
<1> HIDE DEF n
<1>8. Ended(req'[r]) /\ Holds(req'[r], n)
  BY ZenonT(30), <1>2, <1>6, <1>7 DEF Ended, Holds
<1>9. \A j : ~Holds(req[r], j)
  BY ZenonT(30), <1>5, IdleHoldsNothing
<1>10. \A j \in DOMAIN jobs' : \/ Settled(jobs'[j]) \/ Holds(req'[r], j)
                               \/ /\ j \in DOMAIN jobs
                                  /\ Settled(jobs[j]) => Settled(jobs'[j])
                                  /\ Holds(req[r], j) => Holds(req'[r], j)
  BY <1>4, <1>8, <1>9
<1> QED
  BY ONLY ZenonT(30), LeftInv, r \in Requests, <1>5, <1>6, <1>8, <1>10, LeftStep

LEMMA ReprintLeft ==
  ASSUME JobsInv, LeftInv, NEW r \in Requests, Reprint(r)
  PROVE  LeftInv'
<1> DEFINE j == Head(req[r].out).id
           b == [jobs[j] EXCEPT !.status = "pending", !.reprint = Again(r, j)]
<1>1. req[r].pc = "dispatch" /\ req' = [req EXCEPT ![r].out[1].status = "pending"] /\ cut' = cut
  BY DEF Reprint, MayReprint
<1>2. j \in DOMAIN jobs /\ Holds(req[r], j)
  BY ZenonT(30), <1>1, InHand DEF Holds
<1>3. /\ \A s \in Requests : s # r => req'[s] = req[s]
      /\ req'[r].pc = "dispatch" /\ DOMAIN req'[r].out = DOMAIN req[r].out
      /\ \A i \in DOMAIN req[r].out : req'[r].out[i].id = req[r].out[i].id
  BY <1>1, MarkViewShape
<1>4. \A k : Holds(req[r], k) => Holds(req'[r], k)
  BY ONLY SMTT(20), SMTT(30), <1>3, SameOutHolds
<1>5. Ended(req'[r])
  BY <1>3 DEF Ended
<1>6. jobs' = [jobs EXCEPT ![j] = b]
  BY DEF Reprint
<1> HIDE DEF b, j
<1>7. Holds(req'[r], j)
  BY <1>2, <1>4
<1> QED
  BY ONLY LeftInv, r \in Requests, <1>1, <1>2, <1>3, <1>4, <1>5, <1>6, <1>7, LeftChange, ZenonT(30)

LEMMA MarkPrintingLeft ==
  ASSUME JobsInv, LeftInv, NEW r \in Requests, MarkPrinting(r)
  PROVE  LeftInv'
<1> DEFINE j == Head(req[r].out).id
           b == [jobs[j] EXCEPT !.status = "printing", !.attempts = jobs[j].attempts + 1, !.reprint = Again(r, j)]
<1>1. req[r].pc = "dispatch" /\ req' = [req EXCEPT ![r].pc = "send"] /\ cut' = cut
  BY DEF MarkPrinting, MayDispatch
<1>2. j \in DOMAIN jobs /\ Holds(req[r], j)
  BY <1>1, InHand DEF Holds
<1>3. /\ \A s \in Requests : s # r => req'[s] = req[s]
      /\ req'[r].pc = "send" /\ req'[r].out = req[r].out
  BY <1>1, InHand DEF Fields
<1>4. \A k : Holds(req[r], k) => Holds(req'[r], k)
  BY <1>3 DEF Holds
<1>5. Ended(req'[r])
  BY <1>3 DEF Ended
<1>6. jobs' = [jobs EXCEPT ![j] = b]
  BY DEF MarkPrinting
<1> HIDE DEF b, j
<1>7. Holds(req'[r], j)
  BY <1>2, <1>4
<1> QED
  BY ONLY LeftInv, r \in Requests, <1>1, <1>2, <1>3, <1>4, <1>5, <1>6, <1>7, LeftChange, ZenonT(30)

LEMMA SendCopyLeft ==
  ASSUME JobsInv, LeftInv, NEW r \in Requests, SendCopy(r)
  PROVE  LeftInv'
<1> DEFINE j == Head(req[r].out).id
<1>1. req[r].pc = "send" /\ cut' = cut
  BY Zenon DEF SendCopy
<1>2. j \in DOMAIN jobs /\ Holds(req[r], j)
  BY <1>1, InHand DEF Holds
<1>3. PICK paper, copy, pc, res :
        /\ jobs' = [jobs EXCEPT ![j] = [@ EXCEPT !.paper = paper]]
        /\ req' = [req EXCEPT ![r] = [@ EXCEPT !.copy = copy, !.pc = pc, !.res = res]]
        /\ pc \in {"send", "verdict"}
        /\ pc = "verdict" => res \in {"printed", "failed"}
  BY <1>1, SendCopyShape, ZenonT(30)
<1>4. /\ \A s \in Requests : s # r => req'[s] = req[s]
      /\ req'[r].pc = pc /\ req'[r].out = req[r].out /\ req'[r].res = res
  BY <1>1, <1>3, InHand DEF Fields
<1>5. \A k : Holds(req[r], k) => Holds(req'[r], k)
  BY <1>4 DEF Holds
<1>6. Ended(req'[r])
  BY <1>3, <1>4 DEF Ended
<1> DEFINE b == [jobs[j] EXCEPT !.paper = paper]
<1>7. jobs' = [jobs EXCEPT ![j] = b]
  BY <1>3
<1> HIDE DEF b, j
<1>8. Holds(req'[r], j)
  BY <1>2, <1>5
<1> QED
  BY ONLY LeftInv, r \in Requests, <1>1, <1>2, <1>4, <1>5, <1>6, <1>7, <1>8, LeftChange, ZenonT(30)

\* An outcome settles the job in hand; the request keeps the others.
LEMMA VerdictLeft ==
  ASSUME JobsInv, LeftInv, NEW r \in Requests, Verdict(r)
  PROVE  LeftInv'
<1> DEFINE j == Head(req[r].out).id
           back == IF req[r].res = "printed" THEN jobs[j].reprint ELSE Again(r, j)
           b == [jobs[j] EXCEPT !.status = req[r].res, !.reprint = back]
<1>1. req[r].pc = "verdict" /\ req' = [req EXCEPT ![r] = NextJob(r)] /\ cut' = cut
  BY ZenonT(30) DEF Verdict
<1>2. /\ j \in DOMAIN jobs /\ DOMAIN jobs[j] = JobFields /\ DOMAIN req = Requests
      /\ j = req[r].out[1].id
  BY ZenonT(30), <1>1, InHand DEF JobsInv, JobsOK, JobOK
<1>3. jobs' = [jobs EXCEPT ![j] = b]
  BY DEF Verdict, SaveOutcome
<1>4. Settled(b)
  <2>1. b.status = req[r].res
    BY <1>2 DEF JobFields
  <2> HIDE DEF b
  <2> QED
    BY <1>1, <2>1 DEF Settled, LeftInv, Ended
<1> HIDE DEF b
<1>5. req'[r] = NextJob(r) /\ \A s \in Requests : s # r => req'[s] = req[s]
  BY ZenonT(30), <1>1, <1>2
<1>6. Ended(req'[r]) /\ \A k : Holds(req[r], k) /\ k # j => Holds(req'[r], k)
  BY ZenonT(30), <1>1, <1>2, <1>5, NextJobHolds
<1> HIDE DEF j
<1> QED
  BY ONLY LeftInv, r \in Requests, <1>1, <1>2, <1>3, <1>4, <1>5, <1>6, LeftChange, ZenonT(30)

LEMMA StoreFailsLeft ==
  ASSUME JobsInv, LeftInv, NEW r \in Requests, StoreFails(r)
  PROVE  LeftInv'
<1>1. cut' = "yes" /\ DOMAIN req = Requests
  BY DEF StoreFails, JobsInv
<1> DEFINE e == [Blank EXCEPT !.pc = "done"]
<1>2. e.out = << >> /\ e.pc = "done"
  BY DEF Blank
<1>3. CASE req' = [req EXCEPT ![r] = e]
  <2> HIDE DEF e
  <2>1. req'[r] = e /\ \A s \in Requests : s # r => req'[s] = req[s]
    BY <1>1, <1>3
  <2>2. Ended(req'[r])
    BY <1>2, <2>1 DEF Ended
  <2> QED
    BY <1>1, <2>1, <2>2, CutStep
<1>4. CASE req[r].pc = "dispatch" /\ req' = [req EXCEPT ![r].out[1].status = "pending"]
  <2>1. req'[r].pc = "dispatch" /\ \A s \in Requests : s # r => req'[s] = req[s]
    BY <1>4, MarkViewShape
  <2>2. Ended(req'[r])
    BY <2>1 DEF Ended
  <2> QED
    BY ZenonT(30), <1>1, <2>1, <2>2, CutStep
<1>5. CASE req[r].pc \in {"dispatch", "verdict"} /\ req' = [req EXCEPT ![r] = NextJob(r)]
  <2>1. req'[r] = NextJob(r) /\ \A s \in Requests : s # r => req'[s] = req[s]
    BY <1>1, <1>5
  <2>2. Ended(req'[r])
    BY ZenonT(30), <1>5, <2>1, NextJobHolds
  <2> QED
    BY <1>1, <2>1, <2>2, CutStep
<1> QED
  BY <1>3, <1>4, <1>5 DEF StoreFails, MayReprint, MayDispatch

LEMMA PushedOutLeft ==
  ASSUME JobsInv, LeftInv, NEW j \in DOMAIN jobs, PushedOut(j)
  PROVE  LeftInv'
<1> DEFINE b == [jobs[j] EXCEPT !.listed = "no"]
<1>1. /\ DOMAIN jobs[j] = JobFields /\ jobs' = [jobs EXCEPT ![j] = b] /\ req' = req /\ cut' = cut
  BY DEF JobsInv, JobsOK, JobOK, PushedOut
<1>2. b.status = jobs[j].status /\ b.attempts = jobs[j].attempts /\ b.aside = jobs[j].aside
  BY <1>1 DEF JobFields
<1> HIDE DEF b
<1>3. Settled(jobs[j]) => Settled(b)
  BY <1>2 DEF Settled
<1>4. DOMAIN jobs' = DOMAIN jobs /\ \A k \in DOMAIN jobs : Settled(jobs[k]) => Settled(jobs'[k])
  BY ZenonT(30), <1>1, <1>3
<1> QED
  BY <1>1, <1>4 DEF LeftInv, Ended, Holds, Settled

LEMMA CrashLeft ==
  ASSUME LeftInv, Crash
  PROVE  LeftInv'
<1> DEFINE d == [Blank EXCEPT !.pc = "done"]
<1>1. d.out = << >> /\ d.pc = "done"
  BY DEF Blank
<1>2. cut' = "yes" /\ req' = [r \in Requests |-> IF req[r].pc = "idle" THEN req[r] ELSE d]
  BY DEF Crash
<1> HIDE DEF d
<1>3. Ended(d)
  BY <1>1 DEF Ended
<1>4. \A r \in Requests : Ended(req'[r])
  BY <1>2, <1>3 DEF LeftInv
<1> QED
  BY <1>2, <1>4 DEF LeftInv, Ended

LEMMA LeftInvStep == JobsInv /\ LaterInv /\ LeftInv /\ [Next]_vars => LeftInv'
<1> SUFFICES ASSUME JobsInv, LaterInv, LeftInv, [Next]_vars
             PROVE  LeftInv'
  OBVIOUS
<1>1. ASSUME NEW r \in Requests, autoPrintAsync(r) \/ handlePrintOrder(r)
      PROVE  LeftInv'
  BY <1>1, BeginLeft DEF autoPrintAsync, handlePrintOrder
<1>2. ASSUME NEW r \in Requests, handlePrintRetry(r) \/ handlePrintTest(r) \/ StoreFails(r)
      PROVE  LeftInv'
  BY ZenonT(30), <1>2, RetryLeft, TestLeft, StoreFailsLeft
<1>3. ASSUME NEW r \in Requests, Work(r)
      PROVE  LeftInv'
  BY ZenonT(30), <1>3, RoutingLeft, ReadExistingLeft, KeepOldLeft, CreateNewLeft, ReprintLeft, MarkPrintingLeft,
     SendCopyLeft, VerdictLeft DEF Work
<1>4. ASSUME NEW j \in DOMAIN jobs, PushedOut(j)
      PROVE  LeftInv'
  BY <1>4, PushedOutLeft
<1>5. CASE Crash
  BY ZenonT(30), <1>5, CrashLeft
<1>6. CASE UNCHANGED vars
  BY <1>6 DEF vars, LeftInv, Ended, Holds, Settled
<1> QED
  BY <1>1, <1>2, <1>3, <1>4, <1>5, <1>6 DEF Next

\* No job is left behind, for any number of requests side by side: as long as
\* no store call fails and the program does not stop, every job that is neither
\* printed nor failed is on the list of a request that is still running, or is
\* the document the row menu created and was not asked to send.
THEOREM NothingLeftBehind == Spec => []NoJobLeftBehind
<1>1. Init => LaterInv
  <2>1. Blank.known = {} /\ Blank.pc = "idle"
    BY DEF Blank
  <2> QED
    BY <2>1, LaterFresh DEF Init, LaterInv
<1>2. Init => LeftInv
  <2>1. Blank.out = << >> /\ Blank.pc = "idle" /\ DOMAIN << >> = {}
    BY SMTT(20), SMTT(30) DEF Blank
  <2> QED
    BY <2>1 DEF Init, LeftInv, Ended
<1>3. LeftInv => NoJobLeftBehind
  BY IdleHoldsNothing DEF LeftInv, Settled, NoJobLeftBehind
<1> QED
  BY <1>1, <1>2, <1>3, JobsInvAlways, LaterInvStep, LeftInvStep, PTL DEF Spec
=============================================================================
