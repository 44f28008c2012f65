---------------------------- MODULE WebClientProofs ----------------------------
(***************************************************************************)
(* Theorems about WebClient, for any number of sessions, any limit of the  *)
(* listing and any clicks, failures and acts of other tabs.                *)
(***************************************************************************)
EXTENDS WebClient, FiniteSetTheorems, SequenceTheorems, TLAPS

\* The addresses are no sessions and differ.
LEMMA Addresses ==
    /\ Root # Login /\ Root # None /\ Login # None
    /\ Root \notin Sessions /\ Login \notin Sessions /\ None \notin Sessions
<1>1. ASSUME NEW x, NEW y, Cardinality({x, y}) = 3 PROVE FALSE
  <2>1. IsFiniteSet({x}) /\ Cardinality({x}) = 1
    BY FS_Singleton
  <2>2. Cardinality({x} \cup {y}) = 1 \/ Cardinality({x} \cup {y}) = 2
    BY <2>1, FS_AddElement
  <2>3. {x} \cup {y} = {x, y}
    OBVIOUS
  <2> QED BY <1>1, <2>2, <2>3
<1>2. Root # Login
  BY <1>1, AddressesAssumption
<1> QED BY <1>1, <1>2, AddressesAssumption DEF Sessions

-----------------------------------------------------------------------------
(* Lists of sessions. *)

\* The places before place i.
Before(places, i) == {j \in places : j < i}

\* A place has fewer places before it than a later one has.
LEMMA BeforeGrows ==
    ASSUME NEW places \in SUBSET Nat, IsFiniteSet(places), NEW i \in places, NEW j \in places, i < j
    PROVE  /\ Cardinality(Before(places, i)) \in Nat /\ Cardinality(Before(places, j)) \in Nat
           /\ Cardinality(Before(places, i)) < Cardinality(Before(places, j))
<1>1. /\ Before(places, i) \in SUBSET Before(places, j) /\ Before(places, j) \in SUBSET places
      /\ i \in Before(places, j) /\ i \notin Before(places, i)
  <2>1. i \in Nat /\ j \in Nat /\ \A q \in places : q \in Nat
    OBVIOUS
  <2>2. \A q \in places : q < i => q < j
    BY <2>1
  <2>3. Before(places, i) \subseteq Before(places, j)
    BY <2>2 DEF Before
  <2>4. Before(places, j) \subseteq places /\ i \in Before(places, j)
    BY DEF Before
  <2>5. i \notin Before(places, i)
    BY <2>1 DEF Before
  <2> QED BY <2>3, <2>4, <2>5
<1>2. IsFiniteSet(Before(places, j)) /\ IsFiniteSet(Before(places, i))
  BY <1>1, FS_Subset
<1>3. /\ Cardinality(Before(places, i)) <= Cardinality(Before(places, j))
      /\ Cardinality(Before(places, i)) # Cardinality(Before(places, j))
  BY <1>1, <1>2, FS_Subset
<1> QED BY <1>2, <1>3, FS_CardinalityType

\* Places are numbered from 1 by those before them.
LEMMA NumberOfPlace ==
    ASSUME NEW places \in SUBSET Nat, IsFiniteSet(places), NEW i \in places
    PROVE  /\ Cardinality(Before(places, i)) \in Nat /\ Cardinality(places) \in Nat
           /\ Cardinality(Before(places, i)) + 1 \in 1 .. Cardinality(places)
<1>1. Before(places, i) \in SUBSET places /\ i \notin Before(places, i)
  BY DEF Before
<1>2. /\ IsFiniteSet(Before(places, i))
      /\ Cardinality(Before(places, i)) <= Cardinality(places)
      /\ Cardinality(Before(places, i)) # Cardinality(places)
  BY <1>1, FS_Subset
<1> QED BY <1>2, FS_CardinalityType

\* Every number up to how many there are is that of one place.
LEMMA PlaceOfNumber ==
    ASSUME NEW places \in SUBSET Nat, IsFiniteSet(places), NEW n \in 1 .. Cardinality(places)
    PROVE  Place(places, n) \in places /\ Cardinality(Before(places, Place(places, n))) = n - 1
<1>1. PICK number : number = [i \in places |-> Cardinality(Before(places, i)) + 1]
  OBVIOUS
<1>2. PICK size : size = Cardinality(places)
  OBVIOUS
<1>3. size \in Nat /\ IsFiniteSet(1 .. size) /\ Cardinality(1 .. size) = size
  <2>1. size \in Nat
    BY <1>2, FS_CardinalityType
  <2> QED BY <2>1, FS_Interval
<1>4. \A i \in places : number[i] \in 1 .. size /\ Cardinality(Before(places, i)) \in Nat
  BY <1>1, <1>2, NumberOfPlace
<1>5. \A i, j \in places : number[i] = number[j] => i = j
  <2> SUFFICES ASSUME NEW i \in places, NEW j \in places, i < j PROVE number[i] # number[j]
    OBVIOUS
  <2> QED BY <1>1, BeforeGrows
<1>6. number \in Injection(places, 1 .. size)
  <2>1. number \in [places -> 1 .. size]
    BY <1>1, <1>4
  <2> QED BY <1>5, <2>1 DEF Injection, IsInjective
<1>7. number \in Surjection(places, 1 .. size)
  BY <1>2, <1>3, <1>6, FS_Injection
<1>8. PICK i \in places : number[i] = n
  BY <1>2, <1>7 DEF Surjection
<1>9. Cardinality(Before(places, i)) = n - 1
  BY <1>1, <1>2, <1>3, <1>4, <1>8
<1> QED BY <1>9 DEF Place, Before

\* A list without a session: the others, each as often as before.
LEMMA WithoutList ==
    ASSUME NEW seq \in Seq(Sessions), NEW s
    PROVE  /\ Without(seq, s) \in Seq(Sessions)
           /\ Range(Without(seq, s)) \subseteq Range(seq)
           /\ s \notin Range(Without(seq, s))
           /\ IsInjective(seq) => IsInjective(Without(seq, s))
<1>1. PICK left : left = {i \in DOMAIN seq : seq[i] # s}
  OBVIOUS
<1>2. /\ DOMAIN seq = 1 .. Len(seq) /\ Len(seq) \in Nat
      /\ \A i \in DOMAIN seq : seq[i] \in Sessions
  OBVIOUS
<1>3. left \in SUBSET Nat /\ IsFiniteSet(left) /\ Cardinality(left) \in Nat
  <2>1. left \in SUBSET (1 .. Len(seq)) /\ IsFiniteSet(1 .. Len(seq))
    BY <1>1, <1>2, FS_Interval
  <2>2. IsFiniteSet(left)
    BY <2>1, FS_Subset
  <2> QED BY <2>1, <2>2, FS_CardinalityType
<1>4. PICK size : size = Cardinality(left)
  OBVIOUS
<1>5. \A n \in 1 .. size :
         /\ Place(left, n) \in DOMAIN seq /\ seq[Place(left, n)] # s
         /\ Cardinality(Before(left, Place(left, n))) = n - 1
  BY <1>1, <1>3, <1>4, PlaceOfNumber
<1>6. PICK rest : rest = [n \in 1 .. size |-> seq[Place(left, n)]]
  OBVIOUS
<1>7. Without(seq, s) = rest
  BY <1>1, <1>4, <1>6 DEF Without
<1>8. rest \in [1 .. size -> Sessions] /\ size \in Nat
  BY <1>2, <1>3, <1>4, <1>5, <1>6
<1>9. rest \in Seq(Sessions) /\ DOMAIN rest = 1 .. size
  BY <1>8
<1>10. Range(rest) \subseteq Range(seq) /\ s \notin Range(rest)
  BY <1>5, <1>6, <1>9 DEF Range
<1>11. ASSUME IsInjective(seq) PROVE IsInjective(rest)
  <2> SUFFICES ASSUME NEW m \in 1 .. size, NEW n \in 1 .. size, rest[m] = rest[n] PROVE m = n
    BY <1>9 DEF IsInjective
  <2>1. Place(left, m) = Place(left, n)
    BY <1>5, <1>6, <1>11 DEF IsInjective
  <2>2. m - 1 = n - 1
    BY <1>5, <2>1
  <2> QED BY <1>8, <2>2
<1> QED BY <1>7, <1>9, <1>10, <1>11

\* A session in front of a list that does not have it.
LEMMA InFront ==
    ASSUME NEW seq \in Seq(Sessions), NEW s \in Sessions
    PROVE  /\ <<s>> \o seq \in Seq(Sessions)
           /\ Range(<<s>> \o seq) = Range(seq) \cup {s}
           /\ IsInjective(seq) /\ s \notin Range(seq) => IsInjective(<<s>> \o seq)
<1>1. PICK new : new = <<s>> \o seq
  OBVIOUS
<1>2. /\ new \in Seq(Sessions) /\ Len(new) = Len(seq) + 1 /\ Len(seq) \in Nat
      /\ DOMAIN new = 1 .. Len(seq) + 1 /\ DOMAIN seq = 1 .. Len(seq)
      /\ new[1] = s
      /\ \A i \in 2 .. Len(seq) + 1 : new[i] = seq[i - 1]
  <2>1. <<s>> \in Seq(Sessions) /\ Len(<<s>>) = 1 /\ <<s>>[1] = s
    OBVIOUS
  <2>2. /\ new \in Seq(Sessions) /\ Len(new) = Len(seq) + 1 /\ Len(seq) \in Nat
        /\ \A i \in 1 .. Len(seq) + 1 : new[i] = IF i <= 1 THEN <<s>>[i] ELSE seq[i - 1]
    BY <1>1, <2>1, ConcatProperties
  <2>3. \A i \in 2 .. Len(seq) + 1 : i \in 1 .. Len(seq) + 1 /\ ~(i <= 1)
    BY <2>2
  <2> QED BY <2>1, <2>2, <2>3
<1>3. Range(new) = Range(seq) \cup {s}
  <2>1. \A i \in DOMAIN seq : i + 1 \in DOMAIN new /\ new[i + 1] = seq[i]
    BY <1>2
  <2>2. \A i \in DOMAIN new : new[i] = s \/ (i - 1 \in DOMAIN seq /\ new[i] = seq[i - 1])
    BY <1>2
  <2>3. 1 \in DOMAIN new /\ new[1] = s
    BY <1>2
  <2>4. Range(new) \subseteq Range(seq) \cup {s}
    BY <2>2 DEF Range
  <2>5. Range(seq) \subseteq Range(new)
    BY <2>1 DEF Range
  <2>6. s \in Range(new)
    BY <2>3 DEF Range
  <2> QED BY <2>4, <2>5, <2>6
<1>4. ASSUME IsInjective(seq), s \notin Range(seq) PROVE IsInjective(new)
  <2> SUFFICES ASSUME NEW i \in DOMAIN new, NEW j \in DOMAIN new, new[i] = new[j] PROVE i = j
    BY DEF IsInjective
  <2>1. \A n \in DOMAIN new : n # 1 => n - 1 \in DOMAIN seq /\ new[n] = seq[n - 1] /\ new[n] # s
    BY <1>2, <1>4 DEF Range
  <2>2. CASE i = 1 \/ j = 1
    BY <1>2, <2>1, <2>2
  <2>3. CASE i # 1 /\ j # 1
    <3>1. i - 1 = j - 1
      BY <1>4, <2>1, <2>3 DEF IsInjective
    <3> QED BY <1>2, <3>1
  <2> QED BY <2>2, <2>3
<1> QED BY <1>1, <1>2, <1>3, <1>4

\* The listing.
LEMMA FirstSessions ==
    ASSUME NEW seq \in Seq(Sessions)
    PROVE  FirstOf(seq) \in Seq(Sessions) /\ Range(FirstOf(seq)) \subseteq Range(seq)
<1>1. PICK n \in Nat : n <= Len(seq) /\ FirstOf(seq) = SubSeq(seq, 1, n)
  BY BoundsAssumption DEF FirstOf
<1>2. \A i \in 1 .. n : seq[i] \in Sessions /\ i \in DOMAIN seq
  BY <1>1
<1>3. /\ SubSeq(seq, 1, n) \in Seq(Sessions)
      /\ DOMAIN SubSeq(seq, 1, n) = 1 .. n
      /\ \A i \in 1 .. n : SubSeq(seq, 1, n)[i] = seq[i]
  BY <1>1, <1>2, SubSeqProperties
<1> QED BY <1>1, <1>2, <1>3 DEF Range

\* The sessions of a list are sessions.
LEMMA ListedSessions == \A seq \in Seq(Sessions) : Range(seq) \subseteq Sessions
BY DEF Range

-----------------------------------------------------------------------------
(* The server. *)

\* The server lists each of its sessions once, and has made all of them.
OrderInv(seq, made) ==
    /\ seq \in Seq(Sessions) /\ IsInjective(seq)
    /\ made \in 0 .. MaxSessions
    /\ \A s \in Range(seq) : s <= made

\* The server's list without a session.
LEMMA WithoutOrder ==
    ASSUME OrderInv(order, created), NEW s
    PROVE  OrderInv(Without(order, s), created)
BY WithoutList DEF OrderInv

\* And with one of them moved to the front.
LEMMA TouchedOrder ==
    ASSUME OrderInv(order, created), NEW s \in Range(order)
    PROVE  OrderInv(Touched(s), created) /\ Range(Touched(s)) \subseteq Range(order)
<1>1. s \in Sessions
  BY ListedSessions DEF OrderInv
<1>2. PICK rest : rest = Without(order, s)
  OBVIOUS
<1>3. /\ rest \in Seq(Sessions) /\ s \notin Range(rest) /\ Range(rest) \subseteq Range(order)
      /\ IsInjective(rest)
  BY <1>2, WithoutList DEF OrderInv
<1>4. /\ <<s>> \o rest \in Seq(Sessions) /\ Range(<<s>> \o rest) = Range(rest) \cup {s}
      /\ IsInjective(<<s>> \o rest)
  BY <1>1, <1>3, InFront
<1> QED BY <1>2, <1>3, <1>4 DEF OrderInv, Touched

\* Replies of the server.
\* Replies of the server.
LEMMA ReplyTypes ==
    /\ Pending \in Replies
    /\ \A status \in {"401", "404", "failed"} : Failed(status) \in Replies
    /\ \A active \in Sessions \cup {None}, seq \in Seq(Sessions) :
          Reply("ok", active, seq) \in Replies
    /\ \A active, seq : Reply("ok", active, seq).active = active
    /\ Pending.status = "none" /\ \A status : Failed(status).status = status
    /\ \A active, seq : Reply("ok", active, seq).status = "ok"
BY DEF Pending, Failed, Reply, Replies

\* A session that the server creates is a new one.
LEMMA CreatedTypes ==
    ASSUME OrderInv(order, created), NEW seq, created < MaxSessions => seq \in Seq(Sessions)
    PROVE  LET served == Created(seq)
           IN  /\ OrderInv(served.order, served.created)
               /\ served.created >= created
               /\ Range(served.order) \subseteq Range(order) \cup {created + 1}
               /\ served.reply \in Replies
               /\ \/ served.reply.status = "failed"
                  \/ /\ served.reply.status = "ok" /\ served.reply.active = created + 1
                     /\ created + 1 \in Sessions
               /\ served.signedIn = signedIn
<1>nat. created \in Nat /\ MaxSessions \in Nat /\ created <= MaxSessions
  BY BoundsAssumption DEF OrderInv
<1>listed. \A s \in Range(order) : s \in Nat /\ s <= created
  BY ListedSessions DEF OrderInv, Sessions
<1>new. created + 1 \notin Range(order)
  BY <1>nat, <1>listed
<1>1. CASE created = MaxSessions
  <2>1. Created(seq) = [order |-> order, created |-> created, signedIn |-> signedIn,
                        reply |-> Failed("failed")]
    BY <1>1 DEF Created, Unchanged, Serve
  <2> QED BY <1>nat, <2>1, ReplyTypes
<1>2. CASE created # MaxSessions
  <2>1. Created(seq) = [order |-> <<created + 1>> \o order, created |-> created + 1,
                        signedIn |-> signedIn, reply |-> Reply("ok", created + 1, seq)]
    BY <1>2 DEF Created, Serve
  <2>2. created + 1 \in Sessions /\ created < MaxSessions
    BY <1>nat, <1>2 DEF Sessions
  <2>3. /\ <<created + 1>> \o order \in Seq(Sessions) /\ IsInjective(<<created + 1>> \o order)
        /\ Range(<<created + 1>> \o order) = Range(order) \cup {created + 1}
    BY <1>new, <2>2, InFront DEF OrderInv
  <2>4. \A s \in Range(<<created + 1>> \o order) : s <= created + 1
    BY <1>nat, <1>listed, <2>3
  <2>5. OrderInv(<<created + 1>> \o order, created + 1)
    BY <1>nat, <2>2, <2>3, <2>4 DEF OrderInv
  <2>6. Reply("ok", created + 1, seq) \in Replies
    BY <2>2, ReplyTypes
  <2> QED BY <1>nat, <2>1, <2>2, <2>3, <2>5, <2>6, ReplyTypes
<1> QED BY <1>1, <1>2

\* The workspace of an address is that of a listed session; /chat has always one, an old or a
\* new one.
LEMMA BootstrappedTypes ==
    ASSUME OrderInv(order, created), NEW at \in Sessions \cup {Root}
    PROVE  LET served == Bootstrapped(at)
           IN  /\ OrderInv(served.order, served.created)
               /\ served.created >= created
               /\ Range(served.order) \subseteq Range(order) \cup {created + 1}
               /\ served.reply \in Replies
               /\ served.reply.status = "ok" => served.reply.active \in Sessions
               /\ served.reply.status = "ok" /\ at # Root =>
                     at \in Range(order) /\ served.order = order
               /\ served.reply.status = "404" => at # Root
               /\ served.signedIn = signedIn
<1>nat. created \in Nat /\ MaxSessions \in Nat /\ order \in Seq(Sessions)
  BY BoundsAssumption DEF OrderInv
<1>1. PICK listed : listed = FirstOf(order)
  OBVIOUS
<1>2. listed \in Seq(Sessions) /\ Range(listed) \subseteq Range(order)
  BY <1>nat, <1>1, FirstSessions
<1>same. ASSUME NEW reply
         PROVE  Unchanged(reply) = [order |-> order, created |-> created,
                                    signedIn |-> signedIn, reply |-> reply]
  BY DEF Unchanged, Serve
<1>3. CASE at # Root /\ at \notin Range(listed)
  <2>1. Bootstrapped(at) = Unchanged(Failed("404"))
    BY <1>1, <1>3 DEF Bootstrapped
  <2> QED BY <1>nat, <1>same, <1>3, <2>1, ReplyTypes
<1>4. CASE at # Root /\ at \in Range(listed)
  <2>1. Bootstrapped(at) = Unchanged(Reply("ok", at, listed))
    BY <1>1, <1>4 DEF Bootstrapped
  <2>2. Reply("ok", at, listed) \in Replies /\ at \in Sessions
    BY <1>2, <1>4, ReplyTypes
  <2> QED BY <1>nat, <1>same, <1>2, <1>4, <2>1, <2>2, ReplyTypes
<1>5. CASE at = Root /\ listed # << >>
  <2>1. Bootstrapped(at) = Unchanged(Reply("ok", Head(listed), listed))
    BY <1>1, <1>5 DEF Bootstrapped
  <2>2. Head(listed) \in Sessions
    BY <1>2, <1>5
  <2>3. Reply("ok", Head(listed), listed) \in Replies
    BY <1>2, <2>2, ReplyTypes
  <2> QED BY <1>nat, <1>same, <1>5, <2>1, <2>2, <2>3, ReplyTypes
<1>6. CASE at = Root /\ listed = << >>
  <2>1. Bootstrapped(at) = Created(<<created + 1>>)
    BY <1>1, <1>6 DEF Bootstrapped
  <2>2. created < MaxSessions => <<created + 1>> \in Seq(Sessions)
    BY <1>nat DEF Sessions
  <2> QED BY <1>6, <2>1, <2>2, CreatedTypes
<1> QED BY <1>3, <1>4, <1>5, <1>6

\* What a request gets is of its kind, and leaves the server in order.
LEMMA ServedTypes ==
    ASSUME OrderInv(order, created), signedIn \in BOOLEAN, NEW c \in Calls
    PROVE  LET served == Served(c)
           IN  /\ OrderInv(served.order, served.created) /\ served.created >= created
               /\ served.signedIn \in BOOLEAN
               /\ Range(served.order) \subseteq Range(order) \cup {created + 1}
               /\ served.reply \in Replies
               /\ c.op = "load" /\ served.reply.status = "ok" =>
                     /\ served.reply.active \in Sessions
                     /\ c.at # Root => c.at \in Range(order) /\ served.order = order
               /\ c.op = "load" /\ served.reply.status = "404" => c.at # Root
               /\ c.op = "create" /\ served.reply.status = "ok" =>
                     served.reply.active \in Sessions /\ served.reply.active = created + 1
               /\ c.op = "delete" /\ served.reply.status = "ok" =>
                     c.session \in Range(order) /\ c.session \notin Range(served.order)
<1>op. /\ c.op \in {"load", "list", "create", "delete", "rename", "logout"}
       /\ c.at \in Sessions \cup {Root}
  BY DEF Calls
<1>nat. created \in Nat /\ MaxSessions \in Nat /\ order \in Seq(Sessions)
  BY BoundsAssumption DEF OrderInv
<1>empty. Reply("ok", None, << >>) \in Replies
  <2>1. << >> \in Seq(Sessions) /\ None \in Sessions \cup {None}
    OBVIOUS
  <2> QED BY <2>1, ReplyTypes
<1>same. ASSUME NEW reply
         PROVE  Unchanged(reply) = [order |-> order, created |-> created,
                                    signedIn |-> signedIn, reply |-> reply]
  BY DEF Unchanged, Serve
<1>unchanged. ASSUME NEW reply \in Replies
              PROVE  LET served == Unchanged(reply)
                     IN  /\ OrderInv(served.order, served.created) /\ served.created >= created
                         /\ served.signedIn \in BOOLEAN
                         /\ Range(served.order) \subseteq Range(order) \cup {created + 1}
                         /\ served.reply = reply
  BY <1>nat, <1>same
<1>1. CASE c.op = "logout"
  <2>1. Served(c) = [order |-> order, created |-> created, signedIn |-> FALSE,
                     reply |-> Reply("ok", None, << >>)]
    BY <1>1 DEF Served, Serve
  <2> QED BY <1>1, <1>nat, <1>empty, <2>1
<1>2. CASE c.op # "logout" /\ ~signedIn
  <2>1. Served(c) = Unchanged(Failed("401"))
    BY <1>2 DEF Served
  <2> QED BY <1>nat, <1>same, <2>1, ReplyTypes
<1>3. CASE signedIn /\ c.op = "load"
  <2>1. Served(c) = Bootstrapped(c.at)
    BY <1>3 DEF Served
  <2> QED BY <1>op, <1>3, <2>1, BootstrappedTypes
<1>4. CASE signedIn /\ c.op = "create"
  <2>1. Served(c) = Created(<< >>)
    BY <1>4 DEF Served
  <2>2. << >> \in Seq(Sessions)
    OBVIOUS
  <2> QED BY <1>4, <2>1, <2>2, CreatedTypes
<1>5. CASE signedIn /\ c.op = "delete"
  <2>1. Served(c) = Changed(c.session, Without(order, c.session))
    BY <1>5 DEF Served
  <2>2. CASE ~Live(c.session)
    <3>1. Served(c) = Unchanged(Failed("404"))
      BY <2>1, <2>2 DEF Changed
    <3> QED BY <1>unchanged, <1>5, <3>1, ReplyTypes
  <2>3. CASE Live(c.session)
    <3>1. Served(c) = [order |-> Without(order, c.session), created |-> created,
                       signedIn |-> signedIn, reply |-> Reply("ok", None, << >>)]
      BY <2>1, <2>3 DEF Changed, Serve
    <3>2. /\ OrderInv(Without(order, c.session), created)
          /\ Range(Without(order, c.session)) \subseteq Range(order)
          /\ c.session \notin Range(Without(order, c.session))
      BY <1>nat, WithoutOrder, WithoutList
    <3> QED BY <1>nat, <1>empty, <1>5, <2>3, <3>1, <3>2 DEF Live
  <2> QED BY <2>2, <2>3
<1>6. CASE signedIn /\ c.op = "rename"
  <2>1. Served(c) = Changed(c.session, Touched(c.session))
    BY <1>6 DEF Served
  <2>2. CASE ~Live(c.session)
    <3>1. Served(c) = Unchanged(Failed("404"))
      BY <2>1, <2>2 DEF Changed
    <3> QED BY <1>unchanged, <1>6, <3>1, ReplyTypes
  <2>3. CASE Live(c.session)
    <3>1. Served(c) = [order |-> Touched(c.session), created |-> created,
                       signedIn |-> signedIn, reply |-> Reply("ok", None, << >>)]
      BY <2>1, <2>3 DEF Changed, Serve
    <3>2. OrderInv(Touched(c.session), created) /\ Range(Touched(c.session)) \subseteq Range(order)
      BY <2>3, TouchedOrder DEF Live
    <3> QED BY <1>nat, <1>empty, <1>6, <3>1, <3>2
  <2> QED BY <2>2, <2>3
<1>7. CASE signedIn /\ c.op = "list"
  <2>1. Served(c) = Unchanged(Reply("ok", None, FirstOf(order)))
    BY <1>7 DEF Served
  <2>2. Reply("ok", None, FirstOf(order)) \in Replies
    BY <1>nat, FirstSessions, ReplyTypes
  <2> QED BY <1>unchanged, <1>7, <2>1, <2>2
<1> QED BY <1>op, <1>1, <1>2, <1>3, <1>4, <1>5, <1>6, <1>7

-----------------------------------------------------------------------------
(* Requests. *)

\* A new request has no answer, and is of the page that is there.
LEMMA MadeCall ==
    ASSUME NEW op \in {"load", "list", "create", "delete", "rename", "logout"},
           NEW at \in Sessions \cup {Root}, NEW session \in Sessions \cup {None},
           NEW kept \in Seq(Sessions), NEW id \in Nat
    PROVE  LET c == Call(op, at, session, kept, id)
           IN  /\ c \in Calls
               /\ c.op = op /\ c.at = at /\ c.session = session /\ c.kept = kept
               /\ c.mounted /\ ~c.emptied /\ c.reply.status = "none"
BY ReplyTypes DEF Call, Calls

LEMMA MadeLoad ==
    ASSUME NEW at \in Sessions \cup {Root}
    PROVE  LET c == Load(at)
           IN  /\ c \in Calls
               /\ c.op = "load" /\ c.at = at /\ c.mounted /\ c.reply.status = "none"
<1>1. << >> \in Seq(Sessions) /\ None \in Sessions \cup {None} /\ 0 \in Nat
  OBVIOUS
<1> QED BY <1>1, ReplyTypes DEF Load, Call, Calls

\* An answer keeps its request what it is.
LEMMA RepliedCall ==
    ASSUME NEW c \in Calls, NEW reply \in Replies
    PROVE  LET d == [c EXCEPT !.reply = reply]
           IN  /\ d \in Calls /\ d.reply = reply
               /\ d.op = c.op /\ d.at = c.at /\ d.session = c.session /\ d.kept = c.kept
               /\ d.emptied = c.emptied /\ d.mounted = c.mounted
BY DEF Calls

\* So does a change of address, but for its page.
LEMMA LeftCalls ==
    ASSUME calls \subseteq Calls
    PROVE  /\ Left \subseteq Calls
           /\ \A d \in Left : /\ ~d.mounted
                              /\ \E c \in calls :
                                    /\ d.op = c.op /\ d.at = c.at /\ d.session = c.session
                                    /\ d.kept = c.kept /\ d.emptied = c.emptied
                                    /\ d.reply = c.reply
           /\ \A c \in calls : c.op # "list" =>
                 \E d \in Left : d.op = c.op /\ d.at = c.at /\ d.emptied = c.emptied
<1>1. ASSUME NEW c \in calls
      PROVE  LET d == [c EXCEPT !.mounted = FALSE, !.id = IF c.op = "load" THEN @ + 1 ELSE @]
             IN  /\ d \in Calls /\ ~d.mounted
                 /\ d.op = c.op /\ d.at = c.at /\ d.session = c.session
                 /\ d.kept = c.kept /\ d.emptied = c.emptied /\ d.reply = c.reply
  <2>1. c \in Calls
    OBVIOUS
  <2>2. PICK n \in Nat : n = IF c.op = "load" THEN c.id + 1 ELSE c.id
    BY <2>1 DEF Calls
  <2>3. PICK d : d = [c EXCEPT !.mounted = FALSE, !.id = n]
    OBVIOUS
  <2>4. /\ d \in Calls /\ ~d.mounted
        /\ d.op = c.op /\ d.at = c.at /\ d.session = c.session
        /\ d.kept = c.kept /\ d.emptied = c.emptied /\ d.reply = c.reply
    BY <2>1, <2>2, <2>3 DEF Calls
  <2>5. d = [c EXCEPT !.mounted = FALSE, !.id = IF c.op = "load" THEN @ + 1 ELSE @]
    BY <2>1, <2>2, <2>3 DEF Calls
  <2> QED BY <2>4, <2>5
<1>2. \A d \in Left : \E c \in calls :
         d = [c EXCEPT !.mounted = FALSE, !.id = IF c.op = "load" THEN @ + 1 ELSE @]
  BY DEF Left
<1>3. \A c \in calls : c.op # "list" =>
         [c EXCEPT !.mounted = FALSE, !.id = IF c.op = "load" THEN @ + 1 ELSE @] \in Left
  BY DEF Left
<1>4. Left \subseteq Calls
  BY <1>1, <1>2
<1>5. \A d \in Left : /\ ~d.mounted
                      /\ \E c \in calls :
                            /\ d.op = c.op /\ d.at = c.at /\ d.session = c.session
                            /\ d.kept = c.kept /\ d.emptied = c.emptied
                            /\ d.reply = c.reply
  <2> SUFFICES ASSUME NEW d \in Left
               PROVE  /\ ~d.mounted
                      /\ \E c \in calls :
                            /\ d.op = c.op /\ d.at = c.at /\ d.session = c.session
                            /\ d.kept = c.kept /\ d.emptied = c.emptied
                            /\ d.reply = c.reply
    OBVIOUS
  <2>1. PICK c \in calls :
           d = [c EXCEPT !.mounted = FALSE, !.id = IF c.op = "load" THEN @ + 1 ELSE @]
    BY <1>2
  <2> QED BY <1>1, <2>1
<1>6. ASSUME NEW c \in calls, c.op # "list"
      PROVE  \E d \in Left : d.op = c.op /\ d.at = c.at /\ d.emptied = c.emptied
  <2>1. PICK d \in Left :
           d = [c EXCEPT !.mounted = FALSE, !.id = IF c.op = "load" THEN @ + 1 ELSE @]
    BY <1>3, <1>6
  <2> QED BY <1>1, <2>1
<1> QED BY <1>4, <1>5, <1>6

\* The creation that a removal of the last session asks for.
LEMMA SuccessorCall ==
    ASSUME NEW c \in Calls
    PROVE  LET d == [Call("create", c.at, None, << >>, c.id) EXCEPT !.emptied = TRUE,
                                                                    !.mounted = c.mounted]
           IN  /\ d \in Calls /\ d.op = "create" /\ d.at = c.at /\ d.emptied
               /\ d.mounted = c.mounted /\ d.reply.status = "none"
<1>1. << >> \in Seq(Sessions) /\ None \in Sessions \cup {None}
      /\ c.at \in Sessions \cup {Root} /\ c.id \in Nat /\ c.mounted \in BOOLEAN
  BY DEF Calls
<1>2. PICK new : new = Call("create", c.at, None, << >>, c.id)
  OBVIOUS
<1>3. new \in Calls /\ new.op = "create" /\ new.at = c.at /\ new.reply.status = "none"
  BY <1>1, <1>2, ReplyTypes DEF Call, Calls
<1> QED BY <1>1, <1>2, <1>3 DEF Calls

-----------------------------------------------------------------------------
(* What every variable holds. *)

ServerTypes == OrderInv(order, created) /\ signedIn \in BOOLEAN
RouterTypes ==
    /\ route \in Sessions \cup {Root, Login}
    /\ target \in Sessions \cup {Root, Login, None}
    /\ stranded \in BOOLEAN
ShellTypes ==
    /\ screen \in {"checking", "error", "ready"}
    /\ list \in Seq(Sessions)
    /\ shown \in BOOLEAN /\ loading \in BOOLEAN
OfKind(c) == c.op \in {"load", "create"} /\ c.reply.status = "ok" => c.reply.active \in Sessions
CallTypes(requests) == requests \subseteq Calls /\ \A c \in requests : OfKind(c)
CounterTypes == clicks \in 0 .. MaxClicks /\ troubles \in 0 .. MaxTroubles

TypeInv ==
    /\ ServerTypes /\ RouterTypes /\ ShellTypes
    /\ CallTypes(calls) /\ turns \subseteq Turns
    /\ CounterTypes /\ removed \subseteq Sessions

\* The invariant has the types in it.
LEMMA TypeInvTypes == TypeInv => TypeOK
BY DEF TypeInv, ServerTypes, RouterTypes, ShellTypes, CallTypes, OfKind, CounterTypes, OrderInv,
       TypeOK

LEMMA PushedTypes ==
    ASSUME RouterTypes, NEW address \in Sessions \cup {Root, Login}, Push(address), route' = route,
           ShellTypes
    PROVE  RouterTypes'
BY DEF RouterTypes, Push

\* An answer is of the kind of its request.
LEMMA RepliedTypes ==
    ASSUME CallTypes(calls), NEW c \in calls, NEW reply \in Replies,
           c.op \in {"load", "create"} /\ reply.status = "ok" => reply.active \in Sessions
    PROVE  CallTypes(Replied(c, reply))
<1>1. c \in Calls
  BY DEF CallTypes
<1>2. PICK d : d = [c EXCEPT !.reply = reply]
  OBVIOUS
<1>3. d \in Calls /\ OfKind(d)
  BY <1>1, <1>2, RepliedCall DEF OfKind
<1> QED BY <1>2, <1>3 DEF CallTypes, Replied

\* What a turn does with the list of its session.
LEMMA TakenOrder ==
    ASSUME ServerTypes, NEW t \in Turns,
           order' = order \/ TakeQuestion(t) \/ SaveAnswer(t), created' = created
    PROVE  OrderInv(order', created') /\ Range(order') \subseteq Range(order)
<1>1. CASE order' = order
  BY <1>1 DEF ServerTypes
<1>2. CASE Live(t.of) /\ order' = Touched(t.of)
  BY <1>2, TouchedOrder DEF Live, ServerTypes
<1> QED BY <1>1, <1>2 DEF TakeQuestion, SaveAnswer

LEMMA AdvancedTurn ==
    ASSUME turns \subseteq Turns, NEW t \in turns,
           NEW stage \in {"sent", "open", "refreshing", "refreshed", "refused"}, Advance(t, stage)
    PROVE  turns' \subseteq Turns
<1>1. t \in Turns
  OBVIOUS
<1>2. [t EXCEPT !.stage = stage] \in Turns
  BY <1>1 DEF Turns
<1> QED BY <1>2 DEF Advance

\* What goes on beside the pages' requests: turns, and other tabs of the account.
OfTurn(t) == StreamOpens(t) \/ StreamEnds(t) \/ Refresh(t) \/ Stop(t) \/ TurnFails(t)
Beside == OtherTab \/ Send \/ (\E t \in turns : OfTurn(t)) \/ UNCHANGED vars

\* It brings no session back, and leaves the address, the loading and the requests alone.
LEMMA BesideKeeps ==
    ASSUME ServerTypes, turns \subseteq Turns, Beside
    PROVE  /\ OrderInv(order', created') /\ created' = created
           /\ Range(order') \subseteq Range(order)
           /\ UNCHANGED <<route, target, stranded, screen, list, loading, calls, removed>>
<1>1. ASSUME NEW t \in turns, OfTurn(t)
      PROVE  /\ order' = order \/ TakeQuestion(t) \/ SaveAnswer(t)
             /\ UNCHANGED <<created, route, target, stranded, screen, list, loading, calls,
                            removed>>
  BY <1>1 DEF OfTurn, StreamOpens, StreamEnds, Refresh, Stop, TurnFails, server, router, shell
<1>2. CASE \E t \in turns : OfTurn(t)
  BY <1>1, <1>2, TakenOrder
<1>3. CASE OtherTab
  <2>1. \A s : /\ OrderInv(Without(order, s), created)
               /\ Range(Without(order, s)) \subseteq Range(order)
    BY WithoutOrder, WithoutList DEF ServerTypes, OrderInv
  <2> QED BY <1>3, <2>1 DEF OtherTab, ServerTypes, router, shell
<1>4. CASE Send \/ UNCHANGED vars
  BY <1>4 DEF Send, vars, ServerTypes, server, router, shell
<1> QED BY <1>2, <1>3, <1>4 DEF Beside

\* The server answers a request, or the request fails.
Answered(c) == Answer(c) \/ AnswerFails(c)

LEMMA AnsweredKeeps ==
    ASSUME TypeInv, NEW c \in calls, Answered(c)
    PROVE  \E reply \in Replies :
              /\ calls' = Replied(c, reply)
              /\ OrderInv(order', created') /\ created' >= created /\ signedIn' \in BOOLEAN
              /\ Range(order') \subseteq Range(order) \cup {created + 1}
              /\ c.op = "load" /\ reply.status = "ok" =>
                    /\ reply.active \in Sessions
                    /\ c.at # Root => c.at \in Range(order) /\ order' = order
              /\ c.op = "load" /\ reply.status = "404" => c.at # Root
              /\ c.op = "create" /\ reply.status = "ok" =>
                    reply.active \in Sessions /\ reply.active = created + 1
              /\ c.op = "delete" /\ reply.status = "ok" =>
                    c.session \in Range(order) /\ c.session \notin Range(order')
              /\ UNCHANGED <<router, shell, turns, removed>>
<1>1. c \in Calls /\ OrderInv(order, created) /\ signedIn \in BOOLEAN /\ created \in Nat
  BY BoundsAssumption DEF TypeInv, CallTypes, ServerTypes, OrderInv
<1>2. CASE Answer(c)
  <2>1. /\ calls' = Replied(c, Served(c).reply) /\ ServerBecomes(Served(c))
        /\ UNCHANGED <<router, shell, turns, removed>>
    BY <1>2 DEF Answer
  <2>2. Served(c).reply \in Replies
    BY <1>1, ServedTypes
  <2> QED BY <1>1, <2>1, <2>2, ServedTypes DEF ServerBecomes
<1>3. CASE AnswerFails(c)
  <2>1. /\ calls' = Replied(c, Failed("failed")) /\ (UNCHANGED server \/ ServerBecomes(Served(c)))
        /\ UNCHANGED <<router, shell, turns, removed>>
    BY <1>3 DEF AnswerFails
  <2>2. Failed("failed") \in Replies /\ Failed("failed").status = "failed"
    BY ReplyTypes
  <2>3. /\ OrderInv(order', created') /\ created' >= created /\ signedIn' \in BOOLEAN
        /\ Range(order') \subseteq Range(order) \cup {created + 1}
    <3>1. CASE UNCHANGED server
      BY <1>1, <3>1 DEF server
    <3>2. CASE ServerBecomes(Served(c))
      BY <1>1, <3>2, ServedTypes DEF ServerBecomes
    <3> QED BY <2>1, <3>1, <3>2
  <2> QED BY <2>1, <2>2, <2>3
<1> QED BY <1>2, <1>3 DEF Answered

\* A page asks the server for something: a click, a retry, the end of its turn.
Asks(d) ==
    /\ d \in Calls /\ d.reply.status = "none" /\ d.mounted /\ ~d.emptied
    /\ d.op # "list" => d.at = route
    /\ d.op = "delete" => d.session \notin Range(d.kept)
    /\ calls' = calls \cup {d}
    /\ UNCHANGED <<server, router, list, removed>>

LEMMA ClickAsks ==
    ASSUME TypeInv, NEW op \in {"create", "delete", "rename", "logout"},
           NEW session \in Sessions \cup {None}, Ask(op, session)
    PROVE  /\ \E d : Asks(d) /\ d.op = op
           /\ Click /\ UNCHANGED <<screen, shown, loading, turns, troubles>>
<1>1. /\ route \in Sessions \cup {Root} /\ clicks' \in Nat
      /\ list \in Seq(Sessions) /\ << >> \in Seq(Sessions)
  BY BoundsAssumption DEF Ask, Click, AtChat, TypeInv, RouterTypes, ShellTypes, CounterTypes
<1>2. PICK kept \in Seq(Sessions) :
         /\ kept = IF op = "delete" THEN Without(list, session) ELSE << >>
         /\ op = "delete" => session \notin Range(kept)
  BY <1>1, WithoutList
<1>3. PICK d : d = Call(op, route, session, kept, clicks')
  OBVIOUS
<1>4. /\ d \in Calls /\ d.op = op /\ d.at = route /\ d.session = session /\ d.kept = kept
      /\ d.mounted /\ ~d.emptied /\ d.reply.status = "none"
  BY <1>1, <1>2, <1>3, ReplyTypes DEF Call, Calls
<1>5. /\ calls' = calls \cup {d} /\ Click
      /\ UNCHANGED <<server, router, screen, list, shown, loading, turns, troubles, removed>>
  BY <1>2, <1>3 DEF Ask, shell
<1> QED BY <1>2, <1>4, <1>5 DEF Asks

LEMMA RetryAsks ==
    ASSUME TypeInv, Retry
    PROVE  \E d : Asks(d) /\ d.op = "load"
<1>1. route \in Sessions \cup {Root} /\ calls' = calls \cup {Load(route)}
      /\ UNCHANGED <<server, router, list, removed>>
  BY DEF Retry, AtChat, TypeInv, RouterTypes
<1>2. PICK d : d = Load(route)
  OBVIOUS
<1>3. /\ d \in Calls /\ d.op = "load" /\ d.at = route /\ d.mounted /\ ~d.emptied
      /\ d.reply.status = "none"
  <2>1. << >> \in Seq(Sessions) /\ None \in Sessions \cup {None} /\ 0 \in Nat
    OBVIOUS
  <2> QED BY <1>1, <1>2, <2>1, ReplyTypes DEF Load, Call, Calls
<1> QED BY <1>1, <1>2, <1>3 DEF Asks

LEMMA FinishAsks ==
    ASSUME TypeInv, NEW t \in turns, Finish(t)
    PROVE  calls' = calls \/ \E d : Asks(d) /\ d.op = "list"
<1>1. t.of \in Sessions /\ t.id \in Nat
  BY DEF TypeInv, Turns
<1>2. CASE t.mounted
  <2>1. calls' = calls \cup {Call("list", t.of, None, << >>, t.id)}
        /\ UNCHANGED <<server, router, list, removed>>
    BY <1>2 DEF Finish, Finished
  <2>2. PICK d : d = Call("list", t.of, None, << >>, t.id)
    OBVIOUS
  <2>3. d \in Calls /\ d.op = "list" /\ d.mounted /\ ~d.emptied /\ d.reply.status = "none"
    <3>1. << >> \in Seq(Sessions) /\ None \in Sessions \cup {None}
      OBVIOUS
    <3> QED BY <1>1, <2>2, <3>1, ReplyTypes DEF Call, Calls
  <2> QED BY <2>1, <2>2, <2>3 DEF Asks
<1>3. CASE ~t.mounted
  BY <1>3 DEF Finish, Finished
<1> QED BY <1>2, <1>3

LEMMA AskedTypes ==
    ASSUME CallTypes(calls), NEW d, Asks(d)
    PROVE  CallTypes(calls')
BY DEF CallTypes, OfKind, Asks

-----------------------------------------------------------------------------
(* Types, step by step. *)

\* A navigation: to the same page, to a new one, or away.
LEMMA NavigateTypes == ASSUME TypeInv, Navigate PROVE TypeInv'
<1>1. /\ target \in Sessions \cup {Root, Login} /\ route' = target /\ target' = None
      /\ UNCHANGED <<server, counters, removed>>
  BY DEF Navigate, TypeInv, RouterTypes
<1>2. ServerTypes' /\ CounterTypes' /\ (removed \subseteq Sessions)'
  BY <1>1 DEF TypeInv, ServerTypes, CounterTypes, server, counters
<1>3. CASE target = route
  <2>1. UNCHANGED <<stranded, shell, calls, turns>>
    BY <1>3 DEF Navigate
  <2> QED BY <1>1, <1>2, <2>1 DEF TypeInv, RouterTypes, ShellTypes, shell
<1>4. CASE target # route
  <2>1. /\ stranded' = FALSE /\ screen' = "checking" /\ list' = << >> /\ shown' = FALSE
        /\ loading' = (target # Login)
        /\ calls' = Left \cup (IF target = Login THEN {} ELSE {Load(target)})
        /\ turns' = {[t EXCEPT !.mounted = FALSE] : t \in turns}
    BY <1>4 DEF Navigate
  <2>2. RouterTypes' /\ ShellTypes'
    <3>1. << >> \in Seq(Sessions)
      OBVIOUS
    <3>2. loading' \in BOOLEAN /\ shown' \in BOOLEAN /\ stranded' \in BOOLEAN
      BY <2>1
    <3> QED BY <1>1, <2>1, <3>1, <3>2 DEF RouterTypes, ShellTypes
  <2>3. CallTypes(Left)
    BY LeftCalls DEF TypeInv, CallTypes, OfKind
  <2>4. CallTypes(calls')
    <3>1. CASE target = Login
      BY <2>1, <2>3, <3>1
    <3>2. CASE target # Login
      <4>1. Load(target) \in Calls /\ Load(target).reply.status = "none"
        BY <1>1, <3>2, MadeLoad
      <4> QED BY <2>1, <2>3, <3>2, <4>1 DEF CallTypes, OfKind
    <3> QED BY <3>1, <3>2
  <2>5. turns' \subseteq Turns
    <3>1. \A t \in Turns : [t EXCEPT !.mounted = FALSE] \in Turns
      BY DEF Turns
    <3> QED BY <2>1, <3>1 DEF TypeInv
  <2> QED BY <1>2, <2>2, <2>4, <2>5 DEF TypeInv
<1> QED BY <1>3, <1>4

\* An answered load.
LEMMA LoadArrivesTypes == ASSUME TypeInv, NEW c \in calls, LoadArrives(c) PROVE TypeInv'
<1>1. /\ c \in Calls /\ OfKind(c) /\ c.op = "load" /\ calls' = calls \ {c}
      /\ UNCHANGED <<server, turns, counters, removed>>
  BY DEF LoadArrives, TypeInv, CallTypes
<1>2. /\ ServerTypes' /\ CounterTypes' /\ (removed \subseteq Sessions)' /\ CallTypes(calls')
      /\ turns' \subseteq Turns
  BY <1>1 DEF TypeInv, ServerTypes, CounterTypes, CallTypes, server, counters
<1>3. RouterTypes /\ ShellTypes
  BY DEF TypeInv
<1>4. RouterTypes' /\ ShellTypes'
  <2>1. CASE UNCHANGED <<router, shell>>
    BY <1>3, <2>1 DEF RouterTypes, ShellTypes, router, shell
  <2>2. ASSUME NEW address \in Sessions \cup {Root, Login}, Push(address),
               UNCHANGED <<route, shell>>
        PROVE  RouterTypes' /\ ShellTypes'
    BY <1>3, <2>2, PushedTypes DEF ShellTypes, shell
  <2>3. CASE c.reply.status = "ok" /\ Push(c.reply.active) /\ UNCHANGED <<route, shell>>
    BY <1>1, <2>2, <2>3 DEF OfKind
  <2>4. CASE Push(IF c.reply.status = "401" THEN Login ELSE Root) /\ UNCHANGED <<route, shell>>
    BY <2>2, <2>4
  <2>5. CASE /\ screen' \in {"ready", "error"} /\ list' \in {c.reply.list, list}
             /\ shown' \in {TRUE, shown} /\ loading' = FALSE /\ UNCHANGED router
    <3>1. c.reply.list \in Seq(Sessions)
      BY <1>1 DEF Calls, Replies
    <3> QED BY <1>3, <2>5, <3>1 DEF RouterTypes, ShellTypes, router
  <2> QED BY <2>1, <2>3, <2>4, <2>5 DEF LoadArrives
<1> QED BY <1>2, <1>4 DEF TypeInv

\* An answered creation.
LEMMA CreateArrivesTypes == ASSUME TypeInv, NEW c \in calls, CreateArrives(c) PROVE TypeInv'
<1>1. /\ c \in Calls /\ OfKind(c) /\ c.op = "create" /\ calls' = calls \ {c}
      /\ UNCHANGED <<server, route, screen, turns, counters, removed>>
  BY DEF CreateArrives, TypeInv, CallTypes
<1>2. /\ ServerTypes' /\ CounterTypes' /\ (removed \subseteq Sessions)' /\ CallTypes(calls')
      /\ turns' \subseteq Turns
  BY <1>1 DEF TypeInv, ServerTypes, CounterTypes, CallTypes, server, counters
<1>3. RouterTypes /\ ShellTypes
  BY DEF TypeInv
<1>4. CASE c.reply.status = "ok"
  <2>1. c.reply.active \in Sessions
    BY <1>1, <1>4 DEF OfKind
  <2>2. RouterTypes'
    BY <1>1, <1>3, <1>4, <2>1, PushedTypes DEF CreateArrives
  <2>3. <<c.reply.active>> \o list \in Seq(Sessions)
    BY <1>3, <2>1, InFront DEF ShellTypes
  <2>4. ShellTypes'
    BY <1>1, <1>3, <1>4, <2>3 DEF CreateArrives, Empty, ShellTypes
  <2> QED BY <1>2, <2>2, <2>4 DEF TypeInv
<1>5. CASE c.reply.status # "ok"
  <2>1. RouterTypes' /\ ShellTypes'
    BY <1>1, <1>3, <1>5 DEF CreateArrives, RouterTypes, ShellTypes, Calls
  <2> QED BY <1>2, <2>1 DEF TypeInv
<1> QED BY <1>4, <1>5

\* What follows a removal: a request for a new session, or the way to another one.
LEMMA AfterRemovalTypes ==
    ASSUME TypeInv, NEW c \in calls, AfterRemoval(c), route' = route
    PROVE  RouterTypes' /\ CallTypes(calls')
<1>1. c \in Calls /\ CallTypes(calls) /\ RouterTypes /\ ShellTypes /\ c.kept \in Seq(Sessions)
  BY DEF TypeInv, CallTypes, Calls
<1>2. CASE c.kept # << >>
  <2>1. Head(c.kept) \in Sessions
    BY <1>1, <1>2
  <2> QED BY <1>1, <1>2, <2>1, PushedTypes DEF AfterRemoval, CallTypes
<1>3. CASE c.kept = << >>
  <2>1. PICK d : d = [Call("create", c.at, None, << >>, c.id) EXCEPT !.emptied = TRUE,
                                                                     !.mounted = c.mounted]
    OBVIOUS
  <2>2. d \in Calls /\ d.reply.status = "none"
    BY <1>1, <2>1, SuccessorCall
  <2>3. calls' = (calls \ {c}) \cup {d} /\ UNCHANGED <<target, stranded>>
    BY <1>3, <2>1 DEF AfterRemoval
  <2> QED BY <1>1, <2>2, <2>3 DEF CallTypes, OfKind, RouterTypes
<1> QED BY <1>2, <1>3

\* An answered removal.
LEMMA DeleteArrivesTypes == ASSUME TypeInv, NEW c \in calls, DeleteArrives(c) PROVE TypeInv'
<1>1. /\ c \in Calls /\ c.op = "delete" /\ UNCHANGED <<server, route, screen, turns, counters>>
      /\ RouterTypes /\ ShellTypes /\ CallTypes(calls)
  BY DEF DeleteArrives, TypeInv, CallTypes
<1>2. ServerTypes' /\ CounterTypes' /\ turns' \subseteq Turns
  BY <1>1 DEF TypeInv, ServerTypes, CounterTypes, server, counters
<1>3. removed' \subseteq Sessions
  <2>1. c.session = c.at => c.session \in Sessions
    BY <1>1, Addresses DEF Calls
  <2> QED BY <2>1 DEF DeleteArrives, TypeInv
<1>4. ShellTypes'
  <2>1. c.kept \in Seq(Sessions)
    BY <1>1 DEF Calls
  <2> QED BY <1>1, <2>1 DEF DeleteArrives, Empty, ShellTypes
<1>5. RouterTypes' /\ CallTypes(calls')
  <2>1. CASE AfterRemoval(c)
    BY <1>1, <2>1, AfterRemovalTypes
  <2>2. CASE calls' = calls \ {c} /\ UNCHANGED <<target, stranded>>
    BY <1>1, <2>2 DEF RouterTypes, CallTypes
  <2> QED BY <2>1, <2>2 DEF DeleteArrives
<1> QED BY <1>2, <1>3, <1>4, <1>5 DEF TypeInv

\* A new list, a new title, the end of the login.
LEMMA OthersArriveTypes ==
    ASSUME TypeInv, NEW c \in calls, ListArrives(c) \/ LogoutArrives(c)
    PROVE  TypeInv'
<1>1. /\ c \in Calls /\ calls' = calls \ {c} /\ UNCHANGED <<server, turns, counters, removed>>
      /\ RouterTypes /\ ShellTypes /\ CallTypes(calls)
  BY DEF ListArrives, LogoutArrives, TypeInv, CallTypes
<1>2. /\ ServerTypes' /\ CounterTypes' /\ (removed \subseteq Sessions)' /\ CallTypes(calls')
      /\ turns' \subseteq Turns
  BY <1>1 DEF TypeInv, ServerTypes, CounterTypes, CallTypes, server, counters
<1>3. CASE ListArrives(c)
  <2>1. c.reply.list \in Seq(Sessions)
    BY <1>1 DEF Calls, Replies
  <2>2. RouterTypes' /\ ShellTypes'
    BY <1>1, <1>3, <2>1 DEF ListArrives, RouterTypes, ShellTypes, router
  <2> QED BY <1>2, <2>2 DEF TypeInv
<1>4. CASE LogoutArrives(c)
  <2>1. RouterTypes' /\ ShellTypes'
    BY <1>1, <1>4, PushedTypes DEF LogoutArrives, ShellTypes, shell
  <2> QED BY <1>2, <2>1 DEF TypeInv
<1> QED BY <1>3, <1>4

\* What goes on beside the requests.
LEMMA BesideTypes == ASSUME TypeInv, Beside PROVE TypeInv'
<1>1. /\ OrderInv(order', created') /\ RouterTypes' /\ CallTypes(calls')
      /\ (removed \subseteq Sessions)'
      /\ UNCHANGED <<screen, list, loading>>
  BY BesideKeeps DEF TypeInv, RouterTypes
<1>nat. MaxClicks \in Nat /\ MaxTroubles \in Nat
  BY BoundsAssumption
<1>2. ASSUME NEW t \in turns, OfTurn(t) PROVE TypeInv'
  <2>1. turns' \subseteq Turns
    <3>1. \E stage \in {"sent", "open", "refreshing", "refreshed", "refused"} : Advance(t, stage)
      BY <1>2 DEF OfTurn, StreamOpens, StreamEnds, Refresh, Stop, TurnFails
    <3> QED BY <3>1, AdvancedTurn DEF TypeInv
  <2>2. signedIn' = signedIn /\ shown' = shown /\ CounterTypes'
    BY <1>nat, <1>2 DEF OfTurn, StreamOpens, StreamEnds, Refresh, Stop, TurnFails, Click,
                        server, shell, counters, TypeInv, CounterTypes
  <2> QED BY <1>1, <2>1, <2>2 DEF TypeInv, ServerTypes, ShellTypes
<1>3. CASE OtherTab
  <2>1. signedIn' \in BOOLEAN /\ UNCHANGED <<shell, turns>>
    BY <1>3 DEF OtherTab, TypeInv, ServerTypes
  <2>2. CounterTypes'
    BY <1>nat, <1>3 DEF OtherTab, TypeInv, CounterTypes
  <2> QED BY <1>1, <2>1, <2>2 DEF TypeInv, ServerTypes, ShellTypes, shell
<1>4. CASE Send
  <2>1. route \in Sessions /\ clicks' \in Nat /\ CounterTypes'
    BY <1>nat, <1>4 DEF Send, CanSend, Click, TypeInv, CounterTypes
  <2>2. [of |-> route, stage |-> "sent", mounted |-> TRUE, id |-> clicks'] \in Turns
    BY <2>1 DEF Turns
  <2>3. turns' \subseteq Turns /\ signedIn' = signedIn /\ shown' = TRUE
    BY <1>4, <2>2 DEF Send, TypeInv, server
  <2> QED BY <1>1, <2>1, <2>3 DEF TypeInv, ServerTypes, ShellTypes
<1>5. CASE UNCHANGED vars
  BY <1>5 DEF vars, TypeInv, ServerTypes, RouterTypes, ShellTypes, CounterTypes, server, router,
              shell, counters
<1> QED BY <1>2, <1>3, <1>4, <1>5 DEF Beside

\* What the user asks for.
LEMMA UserTypes ==
    ASSUME TypeInv,
           \/ Retry \/ StartNewSession \/ SignOut
           \/ \E s \in Sessions :
                 SelectSession(s) \/ GoBack(s) \/ RemoveSession(s) \/ RenameSession(s)
           \/ \E t \in turns : Finish(t)
    PROVE  TypeInv'
<1>nat. MaxClicks \in Nat /\ clicks \in Nat
  BY BoundsAssumption DEF TypeInv, CounterTypes
<1>types. /\ ServerTypes /\ RouterTypes /\ ShellTypes /\ CallTypes(calls) /\ CounterTypes
          /\ turns \subseteq Turns /\ removed \subseteq Sessions
  BY DEF TypeInv
<1>1. ASSUME NEW op \in {"create", "delete", "rename", "logout"},
             NEW session \in Sessions \cup {None}, Ask(op, session)
      PROVE  TypeInv'
  <2>1. /\ \E d : Asks(d) /\ d.op = op
        /\ Click /\ UNCHANGED <<screen, shown, loading, turns, troubles>>
    BY <1>1, ClickAsks
  <2>2. CallTypes(calls') /\ UNCHANGED <<server, router, list, removed>>
    BY <1>types, <2>1, AskedTypes DEF Asks
  <2>3. CounterTypes'
    BY <1>nat, <1>types, <2>1 DEF Click, CounterTypes
  <2> QED BY <1>types, <2>1, <2>2, <2>3
          DEF TypeInv, ServerTypes, RouterTypes, ShellTypes, server, router
<1>2. CASE StartNewSession \/ SignOut \/ \E s \in Sessions : RemoveSession(s) \/ RenameSession(s)
  BY <1>1, <1>2 DEF StartNewSession, SignOut, RemoveSession, RenameSession
<1>3. CASE Retry
  <2>1. CallTypes(calls')
    BY <1>types, <1>3, RetryAsks, AskedTypes
  <2>2. CounterTypes' /\ ShellTypes'
    BY <1>nat, <1>types, <1>3 DEF Retry, CounterTypes, ShellTypes
  <2> QED BY <1>types, <1>3, <2>1, <2>2
          DEF Retry, TypeInv, ServerTypes, RouterTypes, server, router
<1>4. ASSUME NEW s \in Sessions, SelectSession(s) \/ GoBack(s) PROVE TypeInv'
  <2>1. /\ Push(s) /\ screen' = screen /\ list' = list /\ shown' \in {shown, FALSE}
        /\ loading' \in {loading, TRUE} /\ clicks < MaxClicks /\ clicks' = clicks + 1
        /\ UNCHANGED <<server, route, calls, turns, troubles, removed>>
    BY <1>4 DEF SelectSession, GoBack, Empty, Click, shell
  <2>2. CounterTypes'
    BY <1>nat, <1>types, <2>1 DEF CounterTypes
  <2>3. ShellTypes'
    BY <1>types, <2>1 DEF ShellTypes
  <2>4. RouterTypes'
    BY <1>types, <2>1, PushedTypes
  <2> QED BY <1>types, <2>1, <2>2, <2>3, <2>4 DEF TypeInv, ServerTypes, server
<1>5. ASSUME NEW t \in turns, Finish(t) PROVE TypeInv'
  <2>1. CallTypes(calls')
    BY <1>types, <1>5, FinishAsks, AskedTypes
  <2>2. ShellTypes' /\ turns' \subseteq Turns
    BY <1>types, <1>5 DEF Finish, Finished, ShellTypes
  <2> QED BY <1>types, <1>5, <2>1, <2>2
          DEF Finish, TypeInv, ServerTypes, RouterTypes, CounterTypes, server, router, counters
<1> QED BY <1>2, <1>3, <1>4, <1>5

\* An answer that is made.
LEMMA AnsweredTypes == ASSUME TypeInv, NEW c \in calls, Answered(c) PROVE TypeInv'
<1>1. PICK reply \in Replies :
         /\ calls' = Replied(c, reply)
         /\ OrderInv(order', created') /\ signedIn' \in BOOLEAN
         /\ c.op \in {"load", "create"} /\ reply.status = "ok" => reply.active \in Sessions
         /\ UNCHANGED <<router, shell, turns, removed>>
  BY AnsweredKeeps
<1>2. CallTypes(calls')
  BY <1>1, RepliedTypes DEF TypeInv
<1>3. CounterTypes'
  BY BoundsAssumption DEF Answered, Answer, AnswerFails, counters, TypeInv, CounterTypes
<1> QED BY <1>1, <1>2, <1>3 DEF TypeInv, ServerTypes, RouterTypes, ShellTypes, router, shell

\* A page that is opened.
LEMMA TypeInvInit == Init => TypeInv
<1> SUFFICES ASSUME Init PROVE TypeInv
  OBVIOUS
<1>1. OrderInv(order, created)
  <2>1. order = <<2, 1>> /\ created = 2 /\ 1 \in Sessions /\ 2 \in Sessions
    BY BoundsAssumption DEF Init, Sessions
  <2>2. order \in Seq(Sessions) /\ DOMAIN order = 1 .. 2 /\ order[1] = 2 /\ order[2] = 1
    BY <2>1
  <2>3. IsInjective(order) /\ Range(order) = {1, 2}
    BY <2>2 DEF IsInjective, Range
  <2> QED BY <2>1, <2>2, <2>3, BoundsAssumption DEF OrderInv
<1>2. CallTypes(calls)
  BY MadeLoad DEF Init, CallTypes, OfKind
<1>3. CounterTypes
  BY BoundsAssumption DEF Init, CounterTypes
<1>4. ShellTypes
  <2>1. << >> \in Seq(Sessions)
    OBVIOUS
  <2> QED BY <2>1 DEF Init, ShellTypes
<1> QED BY <1>1, <1>2, <1>3, <1>4 DEF Init, TypeInv, ServerTypes, RouterTypes

\* The steps, by what they do to the requests.
LEMMA StepKinds ==
    ASSUME [Next]_vars
    PROVE  \/ Navigate \/ Beside
           \/ \E c \in calls : Answered(c) \/ Arrive(c)
           \/ Retry \/ StartNewSession \/ SignOut
           \/ \E s \in Sessions :
                 SelectSession(s) \/ GoBack(s) \/ RemoveSession(s) \/ RenameSession(s)
           \/ \E t \in turns : Finish(t)
BY DEF Next, Proceed, User, Trouble, Beside, OfTurn, Answered

LEMMA TypeStep == TypeInv /\ [Next]_vars => TypeInv'
<1> SUFFICES ASSUME TypeInv, [Next]_vars PROVE TypeInv'
  OBVIOUS
<1>1. ASSUME NEW c \in calls, Answered(c) \/ Arrive(c) PROVE TypeInv'
  BY <1>1, AnsweredTypes, LoadArrivesTypes, CreateArrivesTypes, DeleteArrivesTypes,
     OthersArriveTypes DEF Arrive
<1> QED BY <1>1, StepKinds, NavigateTypes, BesideTypes, UserTypes

\* Type correctness: every page, request and turn there has been is well formed, also those of
\* pages that are left, and the server makes no session twice.
THEOREM TypeCorrect == Spec => []TypeOK
BY TypeInvInit, TypeStep, TypeInvTypes, PTL DEF Spec

-----------------------------------------------------------------------------
(* What a page that is there knows about its requests. *)

\* A request of the page that is there is of its address; a creation brings another session
\* than that of the page it was asked on, and the list that a removal keeps is without the
\* removed one.
OfPage(c) ==
    /\ c.op # "list" /\ c.mounted => c.at = route
    /\ c.op \in {"create", "delete"} => c.at \in 1 .. created
    /\ c.op = "load" /\ c.reply.status = "ok" /\ c.at # Root => c.at \in 1 .. created
    /\ c.op = "load" /\ c.reply.status = "404" => c.at # Root
    /\ c.op = "create" /\ c.reply.status = "ok" => c.reply.active # c.at
    /\ c.op = "delete" => c.session \notin Range(c.kept)

PageInv ==
    /\ \A c \in calls : OfPage(c)
    /\ screen = "ready" => route \in 1 .. created

\* Requests that are done with.
LEMMA FewerOfPage ==
    ASSUME PageInv, calls' \subseteq calls, UNCHANGED <<route, created>>,
           screen' = "ready" => screen = "ready" \/ route \in 1 .. created
    PROVE  PageInv'
BY DEF PageInv, OfPage

\* And one that is new.
LEMMA OneMoreOfPage ==
    ASSUME PageInv, NEW d, OfPage(d), calls' \subseteq calls \cup {d},
           UNCHANGED <<route, created>>, screen' = "ready" => screen = "ready"
    PROVE  PageInv'
BY DEF PageInv, OfPage

LEMMA PageStep == TypeInv /\ PageInv /\ [Next]_vars => PageInv'
<1> SUFFICES ASSUME TypeInv, PageInv, [Next]_vars PROVE PageInv'
  OBVIOUS
<1>calls. calls \subseteq Calls /\ created \in Nat
  BY BoundsAssumption DEF TypeInv, CallTypes, ServerTypes, OrderInv
<1>ready. screen = "ready" => route \in 1 .. created
  BY DEF PageInv
<1>1. CASE Navigate
  <2>1. CASE target = route
    BY <1>1, <2>1 DEF Navigate, PageInv, OfPage, server, shell
  <2>2. CASE target # route
    <3>1. /\ target \in Sessions \cup {Root, Login} /\ route' = target /\ screen' = "checking"
          /\ calls' = Left \cup (IF target = Login THEN {} ELSE {Load(target)})
          /\ created' = created
      BY <1>1, <2>2 DEF Navigate, server, TypeInv, RouterTypes
    <3>2. \A d \in Left : OfPage(d)'
      BY <1>calls, <3>1, LeftCalls DEF PageInv, OfPage
    <3>3. PICK new : new = Load(target)
      OBVIOUS
    <3>4. target # Login => OfPage(new)'
      BY <3>1, <3>3, MadeLoad DEF OfPage
    <3> QED BY <3>1, <3>2, <3>3, <3>4 DEF PageInv
  <2> QED BY <2>1, <2>2
<1>2. CASE Beside
  BY <1>2, BesideKeeps DEF TypeInv, PageInv, OfPage
<1>3. ASSUME NEW c \in calls, Answered(c) PROVE PageInv'
  <2>1. PICK reply \in Replies :
           /\ calls' = Replied(c, reply) /\ created' >= created /\ OrderInv(order', created')
           /\ c.op = "load" /\ reply.status = "ok" /\ c.at # Root =>
                 c.at \in Range(order) /\ order' = order
           /\ c.op = "load" /\ reply.status = "404" => c.at # Root
           /\ c.op = "create" /\ reply.status = "ok" => reply.active = created + 1
           /\ UNCHANGED <<router, shell, turns, removed>>
    BY <1>3, AnsweredKeeps
  <2>2. /\ 1 .. created \subseteq 1 .. created' /\ UNCHANGED <<route, screen>>
        /\ Range(order) \subseteq 1 .. created
    <3>1. created' \in Nat
      BY <2>1 DEF OrderInv
    <3>2. \A s \in Range(order) : s \in Nat /\ 1 <= s /\ s <= created
      BY ListedSessions DEF TypeInv, ServerTypes, OrderInv, Sessions
    <3> QED BY <1>calls, <2>1, <3>1, <3>2 DEF router, shell
  <2>3. PICK d : d = [c EXCEPT !.reply = reply]
    OBVIOUS
  <2>4. /\ d.reply = reply /\ d.op = c.op /\ d.at = c.at /\ d.session = c.session
        /\ d.kept = c.kept /\ d.mounted = c.mounted
    BY <1>calls, <2>3, RepliedCall
  <2>5. d.op = "create" /\ reply.status = "ok" => reply.active # d.at
    <3>1. c.op = "create" => c.at \in 1 .. created
      BY DEF PageInv, OfPage
    <3> QED BY <1>calls, <2>1, <2>4, <3>1
  <2>6. OfPage(d)'
    BY <2>1, <2>2, <2>4, <2>5 DEF PageInv, OfPage
  <2>7. \A e \in calls : OfPage(e)'
    BY <2>2 DEF PageInv, OfPage
  <2> QED BY <2>1, <2>2, <2>3, <2>6, <2>7 DEF PageInv, Replied
<1>4. ASSUME NEW c \in calls, LoadArrives(c) PROVE PageInv'
  <2>1. c.op = "load" /\ calls' \subseteq calls /\ UNCHANGED <<route, created>>
    BY <1>4 DEF LoadArrives, server, router
  <2>2. screen' = "ready" =>
          screen = "ready" \/ (c.mounted /\ c.reply.status = "ok" /\ c.at # Root)
    BY <1>4 DEF LoadArrives, shell
  <2>3. c.mounted /\ c.reply.status = "ok" /\ c.at # Root => route \in 1 .. created
    BY <2>1 DEF PageInv, OfPage
  <2> QED BY <2>1, <2>2, <2>3, FewerOfPage
<1>5. ASSUME NEW c \in calls, CreateArrives(c) \/ ListArrives(c) \/ LogoutArrives(c) PROVE PageInv'
  <2>1. calls' \subseteq calls /\ UNCHANGED <<route, created, screen>>
    BY <1>5 DEF CreateArrives, ListArrives, LogoutArrives, server, router, shell
  <2> QED BY <2>1, FewerOfPage
<1>6. ASSUME NEW c \in calls, DeleteArrives(c) PROVE PageInv'
  <2>1. c.op = "delete" /\ UNCHANGED <<route, created, screen>>
    BY <1>6 DEF DeleteArrives, server
  <2>2. CASE calls' \subseteq calls
    BY <2>1, <2>2, FewerOfPage
  <2>3. CASE ~(calls' \subseteq calls)
    <3>1. PICK d : d = [Call("create", c.at, None, << >>, c.id) EXCEPT !.emptied = TRUE,
                                                                       !.mounted = c.mounted]
      OBVIOUS
    <3>2. calls' = (calls \ {c}) \cup {d}
      BY <1>6, <2>3, <3>1 DEF DeleteArrives, AfterRemoval
    <3>3. OfPage(d)
      BY <1>calls, <2>1, <3>1, SuccessorCall DEF PageInv, OfPage
    <3> QED BY <2>1, <3>2, <3>3, OneMoreOfPage
  <2> QED BY <2>2, <2>3
<1>7. ASSUME NEW op \in {"create", "delete", "rename", "logout"},
             NEW session \in Sessions \cup {None}, Ask(op, session)
      PROVE  PageInv'
  <2>1. PICK d : Asks(d) /\ d.op = op
    BY <1>7, ClickAsks
  <2>2. screen = "ready" /\ UNCHANGED <<route, created, screen>>
    BY <1>7, ClickAsks DEF Click, Asks, server, router
  <2>3. OfPage(d)
    BY <1>ready, <2>1, <2>2 DEF OfPage, Asks
  <2> QED BY <2>1, <2>2, <2>3, OneMoreOfPage DEF Asks
<1>8. CASE Retry
  <2>1. PICK d : Asks(d) /\ d.op = "load"
    BY <1>8, RetryAsks
  <2>2. UNCHANGED <<route, created>> /\ screen' = "checking"
    BY <1>8 DEF Retry, server, router
  <2>3. OfPage(d)
    BY <2>1 DEF OfPage, Asks
  <2> QED BY <2>1, <2>2, <2>3, OneMoreOfPage DEF Asks
<1>9. ASSUME NEW s \in Sessions, SelectSession(s) \/ GoBack(s) PROVE PageInv'
  <2>1. UNCHANGED <<calls, route, created, screen>>
    BY <1>9 DEF SelectSession, GoBack, server, shell
  <2> QED BY <2>1, FewerOfPage
<1>10. ASSUME NEW t \in turns, Finish(t) PROVE PageInv'
  <2>1. UNCHANGED <<route, created, screen>>
    BY <1>10 DEF Finish, server, router
  <2>2. CASE calls' = calls
    BY <2>1, <2>2, FewerOfPage
  <2>3. CASE calls' # calls
    <3>1. PICK d : Asks(d) /\ d.op = "list"
      BY <1>10, <2>3, FinishAsks
    <3>2. OfPage(d)
      BY <3>1 DEF OfPage
    <3> QED BY <2>1, <3>1, <3>2, OneMoreOfPage DEF Asks
  <2> QED BY <2>2, <2>3
<1>11. CASE StartNewSession \/ SignOut \/ \E s \in Sessions : RemoveSession(s) \/ RenameSession(s)
  BY <1>7, <1>11 DEF StartNewSession, SignOut, RemoveSession, RenameSession
<1> QED BY <1>1, <1>2, <1>3, <1>4, <1>5, <1>6, <1>8, <1>9, <1>10, <1>11, StepKinds DEF Arrive

LEMMA PageInvInit == Init => PageInv
<1> SUFFICES ASSUME Init PROVE PageInv
  OBVIOUS
<1>1. OfPage(Load(Root))
  BY MadeLoad DEF Init, OfPage
<1> QED BY <1>1 DEF Init, PageInv

-----------------------------------------------------------------------------
(* Leaving a page. *)

\* The page is to be left, or was, when a late answer held it back.
Leaving == stranded \/ target \notin {None, route}

\* Sent to another address the tab is leaving; sent to the one it has it is held back.
LEMMA PushLeaves ==
    ASSUME NEW address \in Sessions \cup {Root, Login}, Push(address), route' = route
    PROVE  /\ address # route => Leaving'
           /\ Leaving /\ ((loading /\ ~LoadUnderWay) \/ route \in removed) => Leaving'
BY Addresses DEF Push, Leaving

\* Where an answer sends the tab.
LEMMA Destinations ==
    ASSUME TypeInv, PageInv, NEW c \in calls
    PROVE  /\ OfKind(c) /\ OfPage(c) /\ c.at \in Sessions \cup {Root}
           /\ c.kept # << >> => Head(c.kept) \in Sessions /\ Head(c.kept) \in Range(c.kept)
<1>1. c \in Calls /\ OfKind(c) /\ OfPage(c)
  BY DEF TypeInv, CallTypes, PageInv
<1>2. c.kept \in Seq(Sessions) /\ c.at \in Sessions \cup {Root}
  BY <1>1 DEF Calls
<1>3. c.kept # << >> => 1 \in DOMAIN c.kept /\ Head(c.kept) = c.kept[1]
  BY <1>2
<1> QED BY <1>1, <1>2, <1>3 DEF Range

-----------------------------------------------------------------------------
(* Loading is awaited. *)

\* The session that a page was emptied for.
Expected == \E c \in calls : c.op = "create" /\ c.emptied /\ c.mounted
Awaited == Leaving \/ LoadUnderWay \/ Expected

\* What is awaited is awaited still while its request is there.
LEMMA AwaitedStill ==
    ASSUME Awaited, UNCHANGED <<route, target, stranded>>,
           \A c \in calls : c.mounted /\ (c.op = "load" \/ (c.op = "create" /\ c.emptied)) =>
              \E d \in calls' : d.op = c.op /\ d.mounted = c.mounted /\ d.emptied = c.emptied
    PROVE  Awaited'
BY DEF Awaited, Leaving, LoadUnderWay, Expected

\* An answer moves the tab on, or holds it back.
LEMMA AwaitedPush ==
    ASSUME Awaited, loading, NEW address \in Sessions \cup {Root, Login}, Push(address),
           route' = route, NEW c \in calls, c.op # "load",
           c.op = "create" /\ c.emptied /\ c.mounted => address # route,
           calls \ {c} \subseteq calls'
    PROVE  Awaited'
<1>1. CASE address # route
  BY <1>1, PushLeaves DEF Awaited
<1>2. CASE LoadUnderWay
  BY <1>2 DEF LoadUnderWay, Awaited
<1>3. CASE Leaving /\ ~LoadUnderWay
  BY <1>3, PushLeaves DEF Awaited
<1>4. CASE Expected /\ address = route
  BY <1>4 DEF Expected, Awaited
<1> QED BY <1>1, <1>2, <1>3, <1>4 DEF Awaited

AwaitedInv == loading => Awaited

LEMMA AwaitedStep == TypeInv /\ PageInv /\ AwaitedInv /\ [Next]_vars => AwaitedInv'
<1> SUFFICES ASSUME TypeInv, PageInv, AwaitedInv, [Next]_vars, loading' PROVE Awaited'
  BY DEF AwaitedInv
<1>calls. calls \subseteq Calls
  BY DEF TypeInv, CallTypes
<1>1. CASE Navigate
  <2>1. CASE target = route
    <3>1. UNCHANGED <<route, stranded, loading, calls>> /\ target' = None
      BY <1>1, <2>1 DEF Navigate, shell
    <3> QED BY <2>1, <3>1 DEF AwaitedInv, Awaited, Leaving, LoadUnderWay, Expected
  <2>2. CASE target # route
    <3>1. target \in Sessions \cup {Root} /\ Load(target) \in calls'
      BY <1>1, <2>2 DEF Navigate, TypeInv, RouterTypes
    <3>2. PICK new : new = Load(target)
      OBVIOUS
    <3> QED BY <3>1, <3>2, MadeLoad DEF Awaited, LoadUnderWay
  <2> QED BY <2>1, <2>2
<1>2. CASE Beside
  <2>1. UNCHANGED <<route, target, stranded, loading, calls>>
    BY <1>2, BesideKeeps DEF TypeInv
  <2> QED BY <2>1, AwaitedStill DEF AwaitedInv
<1>3. ASSUME NEW c \in calls, Answered(c) PROVE Awaited'
  <2>1. PICK reply \in Replies : calls' = Replied(c, reply) /\ UNCHANGED <<router, shell>>
    BY <1>3, AnsweredKeeps
  <2>2. PICK d : d = [c EXCEPT !.reply = reply]
    OBVIOUS
  <2>3. d.op = c.op /\ d.mounted = c.mounted /\ d.emptied = c.emptied
    BY <1>calls, <2>2, RepliedCall
  <2>4. \A e \in calls :
           \E f \in calls' : f.op = e.op /\ f.mounted = e.mounted /\ f.emptied = e.emptied
    BY <2>1, <2>2, <2>3 DEF Replied
  <2> QED BY <2>1, <2>4, AwaitedStill DEF AwaitedInv, router, shell
<1>4. ASSUME NEW c \in calls, LoadArrives(c) PROVE Awaited'
  <2>1. c.op = "load" /\ calls' = calls \ {c}
    BY <1>4 DEF LoadArrives
  <2>2. CASE ~c.mounted /\ UNCHANGED <<router, shell>>
    BY <2>1, <2>2, AwaitedStill DEF AwaitedInv, router, shell
  <2>3. CASE c.mounted
    <3>1. c.at = route /\ OfKind(c) /\ (c.reply.status = "404" => c.at # Root) /\ route # Login
      BY <2>1, <2>3, Destinations, Addresses DEF OfPage
    <3>2. \E address \in Sessions \cup {Root, Login} : Push(address) /\ address # route
      BY <1>4, <2>1, <2>3, <3>1, Addresses DEF LoadArrives, OfKind
    <3>3. route' = route
      BY <1>4 DEF LoadArrives, router
    <3> QED BY <3>2, <3>3, PushLeaves DEF Awaited
  <2> QED BY <1>4, <2>2, <2>3 DEF LoadArrives
<1>5. ASSUME NEW c \in calls, CreateArrives(c) PROVE Awaited'
  <2>1. /\ c.op = "create" /\ calls' = calls \ {c} /\ route' = route
        /\ OfKind(c) /\ OfPage(c)
    BY <1>5, Destinations DEF CreateArrives
  <2>2. CASE c.reply.status = "ok"
    <3>1. Push(c.reply.active) /\ c.reply.active \in Sessions
      BY <1>5, <2>1, <2>2 DEF CreateArrives, OfKind
    <3>2. c.mounted => c.reply.active # route
      BY <2>1, <2>2 DEF OfPage
    <3>3. CASE c.mounted
      BY <2>1, <3>1, <3>2, <3>3, PushLeaves DEF Awaited
    <3>4. CASE ~c.mounted
      <4>1. loading
        BY <1>5, <2>2, <3>4 DEF CreateArrives
      <4> QED BY <2>1, <3>1, <3>4, <4>1, AwaitedPush DEF AwaitedInv
    <3> QED BY <3>3, <3>4
  <2>3. CASE c.reply.status # "ok"
    <3>1. stranded' = (stranded \/ (c.emptied /\ c.at = route)) /\ UNCHANGED <<target, loading>>
      BY <1>5, <2>3 DEF CreateArrives
    <3>2. CASE c.emptied /\ c.at = route
      BY <3>1, <3>2 DEF Awaited, Leaving
    <3>3. CASE ~(c.emptied /\ c.at = route)
      <4>1. ~(c.emptied /\ c.mounted)
        BY <2>1, <3>3 DEF OfPage
      <4>2. UNCHANGED <<route, target, stranded, loading>>
        BY <1>calls, <2>1, <3>1, <3>3 DEF TypeInv, RouterTypes, Calls
      <4> QED BY <2>1, <4>1, <4>2, AwaitedStill DEF AwaitedInv
    <3> QED BY <3>2, <3>3
  <2> QED BY <2>2, <2>3
<1>6. ASSUME NEW c \in calls, DeleteArrives(c) PROVE Awaited'
  <2>1. c.op = "delete" /\ route' = route /\ OfPage(c)
    BY <1>6, Destinations DEF DeleteArrives
  <2>2. CASE calls' = calls \ {c} /\ UNCHANGED <<target, stranded, loading>>
    BY <2>1, <2>2, AwaitedStill DEF AwaitedInv
  <2>3. CASE c.session = c.at /\ AfterRemoval(c)
    <3>1. CASE c.kept # << >>
      <4>1. PICK address \in Sessions : Push(address) /\ address \in Range(c.kept)
        BY <2>3, <3>1, Destinations DEF AfterRemoval
      <4>2. calls' = calls \ {c}
        BY <2>3, <3>1 DEF AfterRemoval
      <4>3. CASE c.mounted
        BY <2>1, <2>3, <4>1, <4>3, PushLeaves DEF OfPage, Awaited
      <4>4. CASE ~c.mounted
        <5>1. loading
          BY <1>6, <4>4 DEF DeleteArrives
        <5> QED BY <2>1, <4>1, <4>2, <5>1, AwaitedPush DEF AwaitedInv
      <4> QED BY <4>3, <4>4
    <3>2. CASE c.kept = << >>
      <4>1. PICK d : d = [Call("create", c.at, None, << >>, c.id) EXCEPT !.emptied = TRUE,
                                                                         !.mounted = c.mounted]
        OBVIOUS
      <4>2. d.op = "create" /\ d.emptied /\ d.mounted = c.mounted
        BY <1>calls, <4>1, SuccessorCall
      <4>3. calls' = (calls \ {c}) \cup {d} /\ UNCHANGED <<target, stranded>>
        BY <2>3, <3>2, <4>1 DEF AfterRemoval
      <4>4. CASE c.mounted
        BY <4>2, <4>3, <4>4 DEF Expected, Awaited
      <4>5. CASE ~c.mounted
        <5>1. loading
          BY <1>6, <4>5 DEF DeleteArrives
        <5> QED BY <2>1, <4>3, <5>1, AwaitedStill DEF AwaitedInv
      <4> QED BY <4>4, <4>5
    <3> QED BY <3>1, <3>2
  <2> QED BY <1>6, <2>2, <2>3 DEF DeleteArrives
<1>7. ASSUME NEW c \in calls, ListArrives(c) PROVE Awaited'
  <2>1. /\ c.op \in {"list", "rename"} /\ calls' = calls \ {c}
        /\ UNCHANGED <<route, target, stranded, loading>>
    BY <1>7 DEF ListArrives, router
  <2> QED BY <2>1, AwaitedStill DEF AwaitedInv
<1>8. ASSUME NEW c \in calls, LogoutArrives(c) PROVE Awaited'
  <2>1. /\ c.op = "logout" /\ calls' = calls \ {c} /\ Push(Login) /\ UNCHANGED <<route, loading>>
    BY <1>8 DEF LogoutArrives, shell
  <2> QED BY <2>1, AwaitedPush DEF AwaitedInv
<1>9. CASE Retry
  <2>1. \E d \in calls' : d.op = "load" /\ d.mounted
    BY <1>9, RetryAsks DEF Asks
  <2> QED BY <2>1 DEF Awaited, LoadUnderWay
<1>10. ASSUME NEW op \in {"create", "delete", "rename", "logout"},
              NEW session \in Sessions \cup {None}, Ask(op, session)
       PROVE  Awaited'
  <2>1. calls \subseteq calls' /\ UNCHANGED <<route, target, stranded, loading>>
    BY <1>10, ClickAsks DEF Asks, router
  <2> QED BY <2>1, AwaitedStill DEF AwaitedInv
<1>11. CASE StartNewSession \/ SignOut \/ \E s \in Sessions : RemoveSession(s) \/ RenameSession(s)
  BY <1>10, <1>11 DEF StartNewSession, SignOut, RemoveSession, RenameSession
<1>12. ASSUME NEW s \in Sessions, SelectSession(s) \/ GoBack(s) PROVE Awaited'
  <2>1. Push(s) /\ s # route /\ route' = route
    BY <1>12 DEF SelectSession, GoBack
  <2> QED BY <2>1, PushLeaves DEF Awaited
<1>13. ASSUME NEW t \in turns, Finish(t) PROVE Awaited'
  <2>1. calls \subseteq calls' /\ UNCHANGED <<route, target, stranded, loading>>
    BY <1>13, FinishAsks DEF Asks, Finish, router
  <2> QED BY <2>1, AwaitedStill DEF AwaitedInv
<1> QED
  BY <1>1, <1>2, <1>3, <1>4, <1>5, <1>6, <1>7, <1>8, <1>9, <1>11, <1>12, <1>13, StepKinds DEF Arrive

LEMMA AwaitedInit == Init => AwaitedInv
BY MadeLoad DEF Init, AwaitedInv, Awaited, LoadUnderWay

\* While a page is loading something is under way that will end it, whatever the answers of the
\* pages before it do, but for the pages that the model calls stranded.
THEOREM LoadingIsAwaitedCorrect == Spec => []LoadingIsAwaited
<1>1. AwaitedInv => LoadingIsAwaited
  BY DEF AwaitedInv, Awaited, Leaving, Expected, LoadingIsAwaited
<1> QED
  BY <1>1, TypeInvInit, TypeStep, PageInvInit, PageStep, AwaitedInit, AwaitedStep, PTL DEF Spec

-----------------------------------------------------------------------------
(* A removed session is left. *)

\* What is removed is gone for good, and so is what a removal is confirmed for.
Gone(s) == s \notin Range(order) /\ s \in 1 .. created
GoneInv ==
    /\ \A s \in removed : Gone(s)
    /\ \A c \in calls : c.op = "delete" /\ c.reply.status = "ok" => Gone(c.session)

LEMMA GoneStep == TypeInv /\ GoneInv /\ [Next]_vars => GoneInv'
<1> SUFFICES ASSUME TypeInv, GoneInv, [Next]_vars PROVE GoneInv'
  OBVIOUS
<1>calls. calls \subseteq Calls /\ created \in Nat
  BY BoundsAssumption DEF TypeInv, CallTypes, ServerTypes, OrderInv
\* The server is as it was, and no removal is confirmed.
<1>same. ASSUME UNCHANGED <<order, created>>,
                \A d \in calls' : d \in calls \/ d.op # "delete" \/ d.reply.status = "none",
                \A s \in removed' : s \in removed \/
                   \E c \in calls : c.op = "delete" /\ c.reply.status = "ok" /\ s = c.session
         PROVE  GoneInv'
  BY <1>same DEF GoneInv, Gone
<1>1. CASE Navigate
  <2>1. UNCHANGED <<order, created, removed>>
    BY <1>1 DEF Navigate, server
  <2>2. CASE target = route
    BY <1>1, <1>same, <2>1, <2>2 DEF Navigate
  <2>3. CASE target # route
    <3>1. /\ target \in Sessions \cup {Root, Login}
          /\ calls' = Left \cup (IF target = Login THEN {} ELSE {Load(target)})
      BY <1>1, <2>3 DEF Navigate, TypeInv, RouterTypes
    <3>2. \A d \in Left : d.op = "delete" /\ d.reply.status = "ok" => Gone(d.session)
      BY <1>calls, LeftCalls DEF GoneInv
    <3>3. PICK new : new = Load(target)
      OBVIOUS
    <3>4. target # Login => new.op = "load"
      BY <3>1, <3>3, MadeLoad
    <3> QED BY <2>1, <3>1, <3>2, <3>3, <3>4 DEF GoneInv, Gone
  <2> QED BY <2>2, <2>3
<1>2. CASE Beside
  <2>1. created' = created /\ Range(order') \subseteq Range(order) /\ UNCHANGED <<calls, removed>>
    BY <1>2, BesideKeeps DEF TypeInv
  <2> QED BY <2>1 DEF GoneInv, Gone
<1>3. ASSUME NEW c \in calls, Answered(c) PROVE GoneInv'
  <2>1. PICK reply \in Replies :
           /\ calls' = Replied(c, reply) /\ created' >= created /\ OrderInv(order', created')
           /\ Range(order') \subseteq Range(order) \cup {created + 1}
           /\ c.op = "delete" /\ reply.status = "ok" =>
                 c.session \in Range(order) /\ c.session \notin Range(order')
           /\ UNCHANGED removed
    BY <1>3, AnsweredKeeps
  <2>2. 1 .. created \subseteq 1 .. created' /\ created + 1 \notin 1 .. created
        /\ Range(order) \subseteq 1 .. created
    <3>1. created' \in Nat
      BY <2>1 DEF OrderInv
    <3>2. \A s \in Range(order) : s \in Nat /\ 1 <= s /\ s <= created
      BY ListedSessions DEF TypeInv, ServerTypes, OrderInv, Sessions
    <3> QED BY <1>calls, <2>1, <3>1, <3>2
  <2>3. \A s : Gone(s) => Gone(s)'
    BY <2>1, <2>2 DEF Gone
  <2>4. PICK d : d = [c EXCEPT !.reply = reply]
    OBVIOUS
  <2>5. d.op = c.op /\ d.reply = reply /\ d.session = c.session
    BY <1>calls, <2>4, RepliedCall
  <2>6. d.op = "delete" /\ d.reply.status = "ok" => Gone(d.session)'
    BY <2>1, <2>2, <2>5 DEF Gone
  <2> QED BY <2>1, <2>3, <2>4, <2>6 DEF Replied, GoneInv
<1>4. ASSUME NEW c \in calls,
             LoadArrives(c) \/ CreateArrives(c) \/ ListArrives(c) \/ LogoutArrives(c)
      PROVE  GoneInv'
  <2>1. calls' = calls \ {c} /\ UNCHANGED <<order, created, removed>>
    BY <1>4 DEF LoadArrives, CreateArrives, ListArrives, LogoutArrives, server
  <2> QED BY <1>same, <2>1
<1>5. ASSUME NEW c \in calls, DeleteArrives(c) PROVE GoneInv'
  <2>1. /\ c.op = "delete" /\ UNCHANGED <<order, created>>
        /\ removed' = removed \/ (c.reply.status = "ok" /\ removed' = removed \cup {c.session})
    BY <1>5 DEF DeleteArrives, server
  <2>2. \A d \in calls' : d \in calls \/ d.op # "delete"
    <3>1. PICK d : d = [Call("create", c.at, None, << >>, c.id) EXCEPT !.emptied = TRUE,
                                                                       !.mounted = c.mounted]
      OBVIOUS
    <3>2. calls' \subseteq calls \cup {d}
      BY <1>5, <3>1 DEF DeleteArrives, AfterRemoval
    <3>3. d.op = "create"
      BY <1>calls, <3>1, SuccessorCall
    <3> QED BY <3>2, <3>3
  <2> QED BY <1>same, <2>1, <2>2
<1>6. CASE \E d : Asks(d)
  BY <1>6, <1>same DEF Asks, server
<1>7. CASE Retry \/ StartNewSession \/ SignOut
           \/ \E s \in Sessions : RemoveSession(s) \/ RenameSession(s)
  BY <1>6, <1>7, RetryAsks, ClickAsks DEF StartNewSession, SignOut, RemoveSession, RenameSession
<1>8. ASSUME NEW s \in Sessions, SelectSession(s) \/ GoBack(s) PROVE GoneInv'
  BY <1>8, <1>same DEF SelectSession, GoBack, server
<1>9. ASSUME NEW t \in turns, Finish(t) PROVE GoneInv'
  <2>1. UNCHANGED <<order, created, removed>>
    BY <1>9 DEF Finish, server
  <2> QED BY <1>6, <1>9, <1>same, <2>1, FinishAsks
<1> QED BY <1>1, <1>2, <1>3, <1>4, <1>5, <1>7, <1>8, <1>9, StepKinds DEF Arrive

\* A page that displays its session, or is about to.
Displays(c) == c.op = "load" /\ c.mounted /\ c.reply.status = "ok" /\ c.at # Root
Displayed == screen = "ready" \/ \E c \in calls : Displays(c)
Replaced == \E c \in calls : c.op = "create" /\ c.emptied /\ c.at = route
IsLeft == Leaving \/ Replaced

LeftInv == Displayed /\ route \in removed => IsLeft

\* An answer moves the tab on, or holds it back.
LEMMA LeftPush ==
    ASSUME IsLeft, route \in removed, NEW address \in Sessions \cup {Root, Login}, Push(address),
           route' = route, NEW c \in calls,
           c.op = "create" /\ c.emptied /\ c.at = route => address # route,
           calls \ {c} \subseteq calls'
    PROVE  IsLeft'
<1>1. CASE address # route
  BY <1>1, PushLeaves DEF IsLeft
<1>2. CASE Leaving
  BY <1>2, PushLeaves DEF IsLeft
<1>3. CASE Replaced /\ address = route
  BY <1>3 DEF Replaced, IsLeft
<1> QED BY <1>1, <1>2, <1>3 DEF IsLeft

\* Nothing moves the tab, and the creation is there still.
LEMMA LeftStill ==
    ASSUME IsLeft, UNCHANGED <<route, target, stranded>>,
           \A c \in calls : c.op = "create" /\ c.emptied =>
              \E d \in calls' : d.op = c.op /\ d.at = c.at /\ d.emptied = c.emptied
    PROVE  IsLeft'
BY DEF IsLeft, Leaving, Replaced

LEMMA LeftStep == TypeInv /\ PageInv /\ GoneInv /\ LeftInv /\ [Next]_vars => LeftInv'
<1> SUFFICES ASSUME TypeInv, PageInv, GoneInv, LeftInv, [Next]_vars,
                    Displayed', (route \in removed)'
             PROVE  IsLeft'
  BY DEF LeftInv
<1>calls. calls \subseteq Calls
  BY DEF TypeInv, CallTypes
\* The same pages are displayed, and nothing is removed.
<1>same. ASSUME UNCHANGED <<route, removed>>, screen' = "ready" => screen = "ready",
                \A d \in calls' : d \in calls \/ ~Displays(d)
         PROVE  IsLeft /\ route \in removed
  BY <1>same DEF LeftInv, Displayed, Displays
<1>still. ASSUME UNCHANGED <<route, target, stranded, screen, removed>>,
                 \A d \in calls' : d \in calls \/ ~Displays(d), calls \subseteq calls'
          PROVE  IsLeft'
  BY <1>same, <1>still, LeftStill
<1>1. CASE Navigate
  <2>1. CASE target = route
    <3>1. UNCHANGED <<route, stranded, screen, calls, removed>> /\ target' = None
      BY <1>1, <2>1 DEF Navigate, shell
    <3>2. IsLeft
      BY <1>same, <3>1
    <3> QED BY <2>1, <3>1, <3>2 DEF IsLeft, Leaving, Replaced
  <2>2. CASE target # route
    <3>1. /\ target \in Sessions \cup {Root, Login} /\ screen' = "checking"
          /\ calls' = Left \cup (IF target = Login THEN {} ELSE {Load(target)})
      BY <1>1, <2>2 DEF Navigate, TypeInv, RouterTypes
    <3>2. PICK new : new = Load(target)
      OBVIOUS
    <3>3. target # Login => new.reply.status = "none"
      BY <3>1, <3>2, MadeLoad
    <3>4. \A d \in Left : ~d.mounted
      BY <1>calls, LeftCalls
    <3> QED BY <3>1, <3>2, <3>3, <3>4 DEF Displayed, Displays
  <2> QED BY <2>1, <2>2
<1>2. CASE Beside
  <2>1. UNCHANGED <<route, target, stranded, screen, calls, removed>>
    BY <1>2, BesideKeeps DEF TypeInv
  <2> QED BY <1>still, <2>1
<1>3. ASSUME NEW c \in calls, Answered(c) PROVE IsLeft'
  <2>1. PICK reply \in Replies :
           /\ calls' = Replied(c, reply)
           /\ c.op = "load" /\ reply.status = "ok" /\ c.at # Root => c.at \in Range(order)
           /\ UNCHANGED <<router, shell, removed>>
    BY <1>3, AnsweredKeeps
  <2>2. PICK d : d = [c EXCEPT !.reply = reply]
    OBVIOUS
  <2>3. /\ d.op = c.op /\ d.at = c.at /\ d.mounted = c.mounted /\ d.emptied = c.emptied
        /\ d.reply = reply
    BY <1>calls, <2>2, RepliedCall
  <2>4. UNCHANGED <<route, target, stranded, screen, removed>>
    BY <2>1 DEF router, shell
  <2>5. ~Displays(d)
    <3>1. Displays(d) => c.at = route /\ c.at \in Range(order)
      BY <2>1, <2>3 DEF Displays, PageInv, OfPage
    <3>2. route \notin Range(order)
      BY <2>4 DEF GoneInv, Gone
    <3> QED BY <3>1, <3>2
  <2>6. IsLeft
    BY <1>same, <2>1, <2>2, <2>4, <2>5 DEF Replied
  <2>7. \A e \in calls :
           \E f \in calls' : f.op = e.op /\ f.at = e.at /\ f.emptied = e.emptied
    BY <2>1, <2>2, <2>3 DEF Replied
  <2> QED BY <2>4, <2>6, <2>7, LeftStill
<1>4. ASSUME NEW c \in calls, LoadArrives(c) PROVE IsLeft'
  <2>1. /\ c.op = "load" /\ calls' = calls \ {c} /\ UNCHANGED <<route, removed>>
        /\ OfKind(c) /\ OfPage(c)
    BY <1>4, Destinations DEF LoadArrives, router
  <2>2. IsLeft /\ route \in removed
    <3>1. screen' = "ready" => screen = "ready" \/ Displays(c)
      BY <1>4 DEF LoadArrives, Displays, shell
    <3> QED BY <2>1, <3>1 DEF LeftInv, Displayed
  <2>3. CASE UNCHANGED <<target, stranded>>
    BY <2>1, <2>2, <2>3, LeftStill
  <2>4. CASE \E address \in Sessions \cup {Root, Login} : Push(address)
    BY <2>1, <2>2, <2>4, LeftPush
  <2> QED BY <1>4, <2>1, <2>3, <2>4 DEF LoadArrives, OfKind, router
<1>5. ASSUME NEW c \in calls, CreateArrives(c) PROVE IsLeft'
  <2>1. /\ c.op = "create" /\ calls' = calls \ {c} /\ UNCHANGED <<route, screen, removed>>
        /\ OfKind(c) /\ OfPage(c)
    BY <1>5, Destinations DEF CreateArrives
  <2>2. IsLeft /\ route \in removed
    BY <1>same, <2>1
  <2>3. CASE c.reply.status = "ok"
    <3>1. Push(c.reply.active) /\ c.reply.active \in Sessions
      BY <1>5, <2>1, <2>3 DEF CreateArrives, OfKind
    <3>2. c.at = route => c.reply.active # route
      BY <2>1, <2>3 DEF OfPage
    <3> QED BY <2>1, <2>2, <3>1, <3>2, LeftPush
  <2>4. CASE c.reply.status # "ok"
    <3>1. stranded' = (stranded \/ (c.emptied /\ c.at = route)) /\ UNCHANGED target
      BY <1>5, <2>4 DEF CreateArrives
    <3> QED BY <2>1, <2>2, <3>1 DEF IsLeft, Leaving, Replaced
  <2> QED BY <2>3, <2>4
<1>6. ASSUME NEW c \in calls, DeleteArrives(c) PROVE IsLeft'
  <2>1. c.op = "delete" /\ UNCHANGED <<route, screen>> /\ OfPage(c)
    BY <1>6, Destinations DEF DeleteArrives
  <2>2. CASE calls' = calls \ {c} /\ UNCHANGED <<target, stranded>>
             /\ ~(c.reply.status = "ok" /\ c.session = c.at)
    <3>1. IsLeft
      BY <1>6, <1>same, <2>1, <2>2 DEF DeleteArrives
    <3> QED BY <2>1, <2>2, <3>1, LeftStill
  <2>3. CASE c.reply.status = "ok" /\ c.session = c.at /\ AfterRemoval(c)
    <3>1. removed' = removed \cup {c.session}
      BY <1>6, <2>3 DEF DeleteArrives
    <3>2. PICK d : d = [Call("create", c.at, None, << >>, c.id) EXCEPT !.emptied = TRUE,
                                                                       !.mounted = c.mounted]
      OBVIOUS
    <3>3. d.op = "create" /\ d.emptied /\ d.at = c.at
      BY <1>calls, <3>2, SuccessorCall
    <3>4. calls \ {c} \subseteq calls' /\ calls' \subseteq calls \cup {d}
      BY <2>3, <3>2 DEF AfterRemoval
    <3>5. CASE route # c.at
      <4>1. IsLeft /\ route \in removed
        BY <2>1, <2>3, <3>1, <3>3, <3>4, <3>5 DEF LeftInv, Displayed, Displays
      <4>2. CASE UNCHANGED <<target, stranded>>
        BY <2>1, <3>4, <4>1, <4>2, LeftStill
      <4>3. CASE \E address \in Sessions : Push(address)
        BY <2>1, <3>4, <4>1, <4>3, LeftPush
      <4> QED BY <2>3, <4>2, <4>3, Destinations DEF AfterRemoval
    <3>6. CASE route = c.at
      <4>1. CASE c.kept # << >>
        BY <2>1, <2>3, <3>6, <4>1, Destinations, PushLeaves DEF AfterRemoval, OfPage, IsLeft
      <4>2. CASE c.kept = << >>
        BY <2>1, <2>3, <3>2, <3>3, <3>6, <4>2 DEF AfterRemoval, IsLeft, Replaced
      <4> QED BY <4>1, <4>2
    <3> QED BY <3>5, <3>6
  <2> QED BY <1>6, <2>2, <2>3 DEF DeleteArrives
<1>7. ASSUME NEW c \in calls, ListArrives(c) PROVE IsLeft'
  <2>1. /\ c.op \in {"list", "rename"} /\ calls' = calls \ {c}
        /\ UNCHANGED <<route, target, stranded, screen, removed>>
    BY <1>7 DEF ListArrives, router
  <2>2. IsLeft
    BY <1>same, <2>1
  <2> QED BY <2>1, <2>2, LeftStill
<1>8. ASSUME NEW c \in calls, LogoutArrives(c) PROVE IsLeft'
  <2>1. /\ c.op = "logout" /\ calls' = calls \ {c} /\ Push(Login)
        /\ UNCHANGED <<route, screen, removed>>
    BY <1>8 DEF LogoutArrives, shell
  <2>2. IsLeft /\ route \in removed
    BY <1>same, <2>1
  <2> QED BY <2>1, <2>2, LeftPush
<1>9. ASSUME NEW d, Asks(d), screen' = "ready" => screen = "ready" PROVE IsLeft'
  <2>1. /\ calls' = calls \cup {d} /\ ~Displays(d)
        /\ UNCHANGED <<route, target, stranded, removed>>
    BY <1>9 DEF Asks, Displays, router
  <2>2. IsLeft
    BY <1>9, <1>same, <2>1
  <2> QED BY <2>1, <2>2, LeftStill
<1>10. CASE Retry
  BY <1>9, <1>10, RetryAsks DEF Retry
<1>11. CASE StartNewSession \/ SignOut \/ \E s \in Sessions : RemoveSession(s) \/ RenameSession(s)
  BY <1>9, <1>11, ClickAsks DEF StartNewSession, SignOut, RemoveSession, RenameSession
<1>12. ASSUME NEW s \in Sessions, SelectSession(s) \/ GoBack(s) PROVE IsLeft'
  <2>1. Push(s) /\ s # route /\ route' = route
    BY <1>12 DEF SelectSession, GoBack
  <2> QED BY <2>1, PushLeaves DEF IsLeft
<1>13. ASSUME NEW t \in turns, Finish(t) PROVE IsLeft'
  <2>1. UNCHANGED <<route, target, stranded, screen, removed>>
    BY <1>13 DEF Finish, router
  <2>2. calls' = calls \/ \E d : Asks(d)
    BY <1>13, FinishAsks
  <2> QED BY <1>9, <1>still, <2>1, <2>2
<1> QED
  BY <1>1, <1>2, <1>3, <1>4, <1>5, <1>6, <1>7, <1>8, <1>10, <1>11, <1>12, <1>13, StepKinds DEF Arrive

\* A session that was removed from its own page is not on display, however often the user has
\* left that page and come back before the answers to the removal and to the loads arrived, but
\* for the two exceptions that the property names.
THEOREM RemovedIsLeftCorrect == Spec => []RemovedIsLeft
<1>1. Init => GoneInv /\ LeftInv
  BY MadeLoad DEF Init, GoneInv, LeftInv
<1>2. LeftInv => RemovedIsLeft
  BY DEF LeftInv, Displayed, IsLeft, Leaving, Replaced, RemovedIsLeft
<1> QED
  BY <1>1, <1>2, TypeInvInit, TypeStep, PageInvInit, PageStep, GoneStep, LeftStep, PTL DEF Spec
=============================================================================
