--------------------------- MODULE ChatHistoryProofs ---------------------------
(***************************************************************************)
(* Theorems about ChatHistory, for any number of clients and requests, any *)
(* limits and any failures: what the display history keeps, and what takes *)
(* messages away from it.                                                  *)
(***************************************************************************)
EXTENDS ChatHistory, FiniteSetTheorems, TLAPS

\* A request that has not brought its question on display yet.
Early == {"listing", "user_check", "user_insert", "target", "ordering", "replacing"}

Fields == {"stage", "kind", "text", "edited", "at", "later", "history", "thread", "context"}

\* A row has the id and the text of requests that came in, and an id is given once.
RowsInv(set, n) ==
    /\ \A r \in set :
          /\ DOMAIN r = {"role", "made", "text", "at"}
          /\ r.role \in Roles /\ r.made \in 1..n /\ r.text \in 1..n
    /\ \A r, s \in set : IdOf(r) = IdOf(s) => r = s
    /\ \A r, s \in set : r.role = "user" /\ s.role = "user" /\ r.text = s.text => r = s

\* Nothing on display carries what a request has yet to insert.
Unused(req, set) ==
    \A r \in set :
        /\ r.role = "assistant" => r.made # req.text
        /\ r.role = "user" /\ req.stage \in Early => r.made # req.text /\ r.text # req.text

\* An edit that has read what it will delete has ids that were given, and they are still those
\* of later messages.
KnowsLater(req, set, n) ==
    req.stage = "replacing" =>
        /\ req.later \subseteq Roles \X (1..n)
        /\ \A r \in set : IdOf(r) \in req.later => r.at > req.at

RequestInv(req, set, n) ==
    /\ DOMAIN req = Fields
    /\ req.stage # "idle" => req.text \in 1..n /\ Unused(req, set)
    /\ KnowsLater(req, set, n)

\* What edit a will delete is not among what request b has yet to insert.
Spares(a, b) ==
    a.stage = "replacing" /\ b.stage # "idle" =>
        /\ <<"assistant", b.text>> \notin a.later
        /\ b.stage \in Early => <<"user", b.text>> \notin a.later

Different(a, b) == a.stage # "idle" /\ b.stage # "idle" => a.text # b.text

RequestsInv(requests, set, n) ==
    /\ DOMAIN requests = Clients
    /\ \A c \in Clients : RequestInv(requests[c], set, n)
    /\ \A c, d \in Clients : Spares(requests[c], requests[d])
    /\ \A c, d \in Clients : c # d => Different(requests[c], requests[d])

LateInv(outlived, requests, set, n) ==
    /\ \A q \in outlived : q.stage = "answer_insert" /\ RequestInv(q, set, n)
    /\ \A q \in outlived, c \in Clients : Spares(requests[c], q) /\ Different(requests[c], q)
    /\ \A p, q \in outlived : p.text = q.text => p = q

Inv(set, requests, outlived, n) ==
    /\ n \in Nat
    /\ RowsInv(set, n)
    /\ RequestsInv(requests, set, n)
    /\ LateInv(outlived, requests, set, n)

HistoryInv == Inv(rows, open, late, asked)

-----------------------------------------------------------------------------
\* A client without a request.
LEMMA IdleFields == DOMAIN Idle = Fields /\ Idle.stage = "idle"
BY DEF Idle, Fields

\* A request that gets on, or ends, without touching what is on display.
LEMMA Moved ==
    ASSUME NEW set, NEW requests, NEW outlived, NEW n, Inv(set, requests, outlived, n),
           NEW c \in Clients, NEW new,
           DOMAIN new = Fields,
           new.stage # "idle" =>
               /\ requests[c].stage # "idle" /\ new.text = requests[c].text
               /\ new.stage # "replacing"
               /\ new.stage \in Early => requests[c].stage \in Early
    PROVE  Inv(set, [requests EXCEPT ![c] = new], outlived, n)
<1>1. /\ n \in Nat /\ RowsInv(set, n) /\ RequestsInv(requests, set, n)
      /\ LateInv(outlived, requests, set, n)
  BY DEF Inv
<1>2. PICK after : after = [requests EXCEPT ![c] = new]
  OBVIOUS
<1>3. /\ DOMAIN after = Clients /\ after[c] = new
      /\ \A d \in Clients : d # c => after[d] = requests[d]
  BY <1>1, <1>2 DEF RequestsInv
<1>4. RequestInv(new, set, n)
  BY <1>1 DEF RequestsInv, RequestInv, Unused, KnowsLater
<1>5. \A d \in Clients : Spares(new, after[d]) /\ Spares(after[d], new)
  BY <1>1, <1>3 DEF RequestsInv, Spares
<1>6. \A d \in Clients : d # c => Different(new, requests[d]) /\ Different(requests[d], new)
  BY <1>1 DEF RequestsInv, Different
<1>7. RequestsInv(after, set, n)
  BY <1>1, <1>3, <1>4, <1>5, <1>6 DEF RequestsInv
<1>8. \A q \in outlived : Spares(new, q) /\ Different(new, q)
  BY <1>1 DEF LateInv, Spares, Different
<1>9. LateInv(outlived, after, set, n)
  BY <1>1, <1>3, <1>8 DEF LateInv
<1> QED BY <1>1, <1>2, <1>7, <1>9 DEF Inv

\* A new row whose id and text nobody else has yet to insert.
LEMMA Inserted ==
    ASSUME NEW set, NEW requests, NEW outlived, NEW n, Inv(set, requests, outlived, n),
           NEW row, NEW text \in 1..n, NEW role \in Roles,
           DOMAIN row = {"role", "made", "text", "at"},
           row.role = role, row.made = text, row.text = text,
           \A r \in set : r.role = role => r.made # text,
           role = "user" => \A r \in set : r.role = "user" => r.text # text,
           \A c \in Clients :
               /\ \/ requests[c].text # text \/ requests[c].stage = "idle"
                  \/ role = "user" /\ requests[c].stage \notin Early
               /\ requests[c].stage = "replacing" => <<role, text>> \notin requests[c].later,
           \A q \in outlived : q.text # text
    PROVE  Inv(set \cup {row}, requests, outlived, n)
<1>1. /\ n \in Nat /\ RowsInv(set, n) /\ RequestsInv(requests, set, n)
      /\ LateInv(outlived, requests, set, n)
  BY DEF Inv
<1>2. RowsInv(set \cup {row}, n)
  BY <1>1 DEF RowsInv, IdOf
<1>3. ASSUME NEW req, RequestInv(req, set, n),
             req.text # text \/ req.stage = "idle" \/ (role = "user" /\ req.stage \notin Early),
             req.stage = "replacing" => <<role, text>> \notin req.later
      PROVE  RequestInv(req, set \cup {row}, n)
  <2>1. req.stage # "idle" => Unused(req, set \cup {row})
    BY <1>3 DEF RequestInv, Unused
  <2>2. KnowsLater(req, set \cup {row}, n)
    BY <1>3 DEF RequestInv, KnowsLater, IdOf
  <2> QED BY <1>3, <2>1, <2>2 DEF RequestInv
<1>4. RequestsInv(requests, set \cup {row}, n)
  BY <1>1, <1>3 DEF RequestsInv
<1>5. LateInv(outlived, requests, set \cup {row}, n)
  BY <1>1, <1>3 DEF LateInv
<1> QED BY <1>1, <1>2, <1>4, <1>5 DEF Inv

\* Row s is row r under the text that its edit gives it, if any.
Rewords(s, r, id, text) ==
    /\ DOMAIN s = {"role", "made", "text", "at"}
    /\ s.role = r.role /\ s.made = r.made /\ s.at = r.at /\ IdOf(s) = IdOf(r)
    /\ \/ s = r /\ IdOf(r) # <<"user", id>>
       \/ s = [r EXCEPT !.text = text] /\ s.text = text /\ IdOf(r) = <<"user", id>>

\* Rows that stay, some of them under another text that nobody has yet to insert.
LEMMA Reworded ==
    ASSUME NEW set, NEW requests, NEW outlived, NEW n, Inv(set, requests, outlived, n),
           NEW after, NEW id, NEW text \in 1..n,
           \A s \in after : \E r \in set : Rewords(s, r, id, text),
           \A r \in set : r.role = "user" => r.text # text,
           \A c \in Clients : requests[c].text # text \/ requests[c].stage \notin Early
    PROVE  Inv(after, requests, outlived, n)
<1>1. /\ n \in Nat /\ RowsInv(set, n) /\ RequestsInv(requests, set, n)
      /\ LateInv(outlived, requests, set, n)
  BY DEF Inv
<1>2. \A s \in after : \E r \in set : Rewords(s, r, id, text)
  OBVIOUS
<1>3. RowsInv(after, n)
  <2>1. \A s \in after : /\ DOMAIN s = {"role", "made", "text", "at"}
                         /\ s.role \in Roles /\ s.made \in 1..n /\ s.text \in 1..n
    BY <1>1, <1>2 DEF RowsInv, Rewords
  <2>2. \A s, t \in after : IdOf(s) = IdOf(t) => s = t
    <3> SUFFICES ASSUME NEW s \in after, NEW t \in after, IdOf(s) = IdOf(t) PROVE s = t
      OBVIOUS
    <3>1. PICK r \in set : Rewords(s, r, id, text)
      BY <1>2
    <3>2. PICK q \in set : Rewords(t, q, id, text)
      BY <1>2
    <3>3. r = q
      <4>1. IdOf(r) = IdOf(q)
        BY <3>1, <3>2 DEF Rewords
      <4> QED BY <1>1, <4>1 DEF RowsInv
    <3> QED BY <3>1, <3>2, <3>3 DEF Rewords
  <2>3. \A s, t \in after : s.role = "user" /\ t.role = "user" /\ s.text = t.text => s = t
    <3> SUFFICES ASSUME NEW s \in after, NEW t \in after,
                        s.role = "user", t.role = "user", s.text = t.text
                 PROVE  s = t
      OBVIOUS
    <3>1. PICK r \in set : Rewords(s, r, id, text)
      BY <1>2
    <3>2. PICK q \in set : Rewords(t, q, id, text)
      BY <1>2
    <3>3. IdOf(s) = IdOf(t)
      <4>1. CASE s = r /\ t = q
        BY <1>1, <4>1 DEF RowsInv
      <4>2. CASE IdOf(r) = <<"user", id>> /\ IdOf(q) = <<"user", id>>
        BY <3>1, <3>2, <4>2 DEF Rewords
      <4>3. CASE s.text = text /\ t = q
        BY <4>3
      <4>4. CASE s = r /\ t.text = text
        BY <4>4
      <4> QED BY <3>1, <3>2, <4>1, <4>2, <4>3, <4>4 DEF Rewords
    <3> QED BY <2>2, <3>3
  <2> QED BY <2>1, <2>2, <2>3 DEF RowsInv
<1>4. ASSUME NEW req, RequestInv(req, set, n), req.text # text \/ req.stage \notin Early
      PROVE  RequestInv(req, after, n)
  <2>1. req.stage # "idle" => Unused(req, after)
    BY <1>2, <1>4 DEF RequestInv, Unused, Rewords
  <2>2. KnowsLater(req, after, n)
    <3>1. ASSUME req.stage = "replacing", NEW s \in after, IdOf(s) \in req.later
          PROVE  s.at > req.at
      <4>1. PICK r \in set : IdOf(s) = IdOf(r) /\ s.at = r.at
        BY <1>2 DEF Rewords
      <4> QED BY <1>4, <3>1, <4>1 DEF RequestInv, KnowsLater
    <3> QED BY <1>4, <3>1 DEF RequestInv, KnowsLater
  <2> QED BY <1>4, <2>1, <2>2 DEF RequestInv
<1>5. RequestsInv(requests, after, n)
  BY <1>1, <1>4 DEF RequestsInv
<1>6. LateInv(outlived, requests, after, n)
  BY <1>1, <1>4 DEF LateInv, Early
<1> QED BY <1>1, <1>3, <1>5, <1>6 DEF Inv

\* The edit that has read its target holds the ids of later messages, each given to one row.
LEMMA TargetRead ==
    ASSUME HistoryInv, NEW c \in Clients, NEW t \in rows, NEW new,
           open[c].stage = "ordering",
           new = [open[c] EXCEPT !.stage = "replacing", !.at = t.at, !.later = Later(t)]
    PROVE  Inv(rows, [open EXCEPT ![c] = new], late, asked)
<1>1. /\ asked \in Nat /\ RowsInv(rows, asked) /\ RequestsInv(open, rows, asked)
      /\ LateInv(late, open, rows, asked)
  BY DEF HistoryInv, Inv
<1>2. PICK after : after = [open EXCEPT ![c] = new]
  OBVIOUS
<1>3. /\ DOMAIN after = Clients /\ after[c] = new
      /\ \A d \in Clients : d # c => after[d] = open[d]
  BY <1>1, <1>2 DEF RequestsInv
<1>4. RequestInv(open[c], rows, asked)
  BY <1>1 DEF RequestsInv
<1>5. /\ DOMAIN new = Fields /\ new.stage = "replacing" /\ new.text = open[c].text
      /\ new.at = t.at /\ new.later = Later(t)
  BY <1>4 DEF RequestInv, Fields
<1>6. \A id \in new.later : \E r \in rows : id = IdOf(r) /\ r.at > t.at
  BY <1>5 DEF Later
<1>7. RequestInv(new, rows, asked)
  <2>1. new.text \in 1..asked /\ Unused(new, rows)
    BY <1>4, <1>5 DEF RequestInv, Unused, Early
  <2>2. new.later \subseteq Roles \X (1..asked)
    BY <1>1, <1>6 DEF RowsInv, IdOf
  <2>3. \A r \in rows : IdOf(r) \in new.later => r.at > new.at
    BY <1>1, <1>5, <1>6 DEF RowsInv
  <2> QED BY <1>5, <2>1, <2>2, <2>3 DEF RequestInv, KnowsLater
<1>8. ASSUME NEW req, RequestInv(req, rows, asked) PROVE Spares(new, req)
  BY <1>6, <1>8 DEF Spares, RequestInv, Unused, IdOf
<1>9. \A d \in Clients : Spares(new, after[d]) /\ Spares(after[d], new)
  <2>1. \A d \in Clients : Spares(new, after[d])
    BY <1>1, <1>3, <1>7, <1>8 DEF RequestsInv
  <2>2. \A d \in Clients : d # c => Spares(open[d], new)
    BY <1>1, <1>5 DEF RequestsInv, Spares, Early
  <2> QED BY <1>3, <2>1, <2>2
<1>10. \A d \in Clients : d # c => Different(new, open[d]) /\ Different(open[d], new)
  BY <1>1, <1>5 DEF RequestsInv, Different
<1>11. RequestsInv(after, rows, asked)
  BY <1>1, <1>3, <1>7, <1>9, <1>10 DEF RequestsInv
<1>12. \A q \in late : Spares(new, q) /\ Different(new, q)
  BY <1>1, <1>5, <1>8 DEF LateInv, Different
<1>13. LateInv(late, after, rows, asked)
  BY <1>1, <1>3, <1>12 DEF LateInv
<1> QED BY <1>1, <1>2, <1>11, <1>13 DEF Inv

\* A request that comes in has a text of its own.
LEMMA Begun ==
    ASSUME HistoryInv, NEW c \in Clients, NEW req, Begin(c, req),
           DOMAIN req = Fields, req.stage # "replacing"
    PROVE  HistoryInv'
<1>1. /\ asked \in Nat /\ RowsInv(rows, asked) /\ RequestsInv(open, rows, asked)
      /\ LateInv(late, open, rows, asked)
  BY DEF HistoryInv, Inv
<1>2. PICK new : new = [req EXCEPT !.text = asked + 1]
  OBVIOUS
<1>3. DOMAIN new = Fields /\ new.stage # "replacing" /\ new.text = asked + 1
  BY <1>2 DEF Fields
<1>4. /\ open' = [open EXCEPT ![c] = new] /\ asked' = asked + 1
      /\ rows' = rows /\ late' = late
  BY <1>2 DEF Begin, Move
<1>5. /\ DOMAIN open' = Clients /\ open'[c] = new
      /\ \A d \in Clients : d # c => open'[d] = open[d]
  BY <1>1, <1>4 DEF RequestsInv
<1>6. RowsInv(rows, asked + 1)
  BY <1>1 DEF RowsInv
<1>7. RequestInv(new, rows, asked + 1)
  BY <1>1, <1>3 DEF RequestInv, RowsInv, Unused, KnowsLater
<1>8. ASSUME NEW old, RequestInv(old, rows, asked)
      PROVE  RequestInv(old, rows, asked + 1) /\ Spares(old, new)
             /\ Different(old, new) /\ Different(new, old)
  <2>1. Roles \X (1..asked) \subseteq Roles \X (1..(asked + 1))
    BY <1>1
  <2>2. RequestInv(old, rows, asked + 1)
    BY <1>1, <1>8, <2>1 DEF RequestInv, KnowsLater
  <2>3. Spares(old, new)
    BY <1>1, <1>3, <1>8 DEF RequestInv, KnowsLater, Spares
  <2>4. Different(old, new) /\ Different(new, old)
    BY <1>1, <1>3, <1>8 DEF RequestInv, Different
  <2> QED BY <2>2, <2>3, <2>4
<1>9. \A any : Spares(new, any)
  BY <1>3 DEF Spares
<1>10. RequestsInv(open', rows, asked + 1)
  BY <1>1, <1>5, <1>7, <1>8, <1>9 DEF RequestsInv
<1>11. LateInv(late, open', rows, asked + 1)
  BY <1>1, <1>5, <1>8, <1>9 DEF LateInv
<1> QED BY <1>1, <1>4, <1>6, <1>10, <1>11 DEF HistoryInv, Inv

-----------------------------------------------------------------------------
\* A client's request brings a message on display, and goes on or is done.
LEMMA InsertStep ==
    ASSUME HistoryInv, NEW c \in Clients, NEW role \in Roles, NEW from, NEW new,
           InsertMessage(c, from, role, new), from # "idle",
           role = "user" => from \in Early,
           DOMAIN new = Fields,
           new.stage = "idle" \/ (role = "user" /\ new.stage \notin Early /\ new.text = open[c].text)
    PROVE  HistoryInv'
<1>1. /\ asked \in Nat /\ RequestsInv(open, rows, asked) /\ LateInv(late, open, rows, asked)
  BY DEF HistoryInv, Inv
<1>2. PICK moved : moved = [open EXCEPT ![c] = new]
  OBVIOUS
<1>3. PICK row : row = RowOf(open[c], role)
  OBVIOUS
<1>4. /\ open' = moved /\ rows' = rows \cup {row} /\ late' = late /\ asked' = asked
      /\ open[c].stage = from
  BY <1>2, <1>3 DEF InsertMessage, Move, Step
<1>5. /\ DOMAIN row = {"role", "made", "text", "at"}
      /\ row.role = role /\ row.made = open[c].text /\ row.text = open[c].text
  BY <1>3 DEF RowOf
<1>6. open[c].text \in 1..asked /\ Unused(open[c], rows)
  BY <1>1, <1>4 DEF RequestsInv, RequestInv
<1>7. Inv(rows, moved, late, asked)
  <2>1. new.stage # "replacing"
    BY DEF Early
  <2> QED BY <1>2, <1>4, <2>1, Moved DEF HistoryInv
<1>8. /\ \A r \in rows : r.role = role => r.made # open[c].text
      /\ role = "user" => \A r \in rows : r.role = "user" => r.text # open[c].text
  BY <1>4, <1>6 DEF Unused, Roles
<1>9. ASSUME NEW d \in Clients
      PROVE  /\ \/ moved[d].text # open[c].text \/ moved[d].stage = "idle"
                \/ role = "user" /\ moved[d].stage \notin Early
             /\ moved[d].stage = "replacing" => <<role, open[c].text>> \notin moved[d].later
  <2>1. CASE d = c
    BY <1>1, <1>2, <2>1 DEF RequestsInv, Early
  <2>2. CASE d # c
    <3>1. moved[d] = open[d]
      BY <1>1, <1>2, <2>2 DEF RequestsInv
    <3>2. Different(open[d], open[c]) /\ Spares(open[d], open[c])
      BY <1>1, <2>2 DEF RequestsInv
    <3> QED BY <1>4, <3>1, <3>2 DEF Different, Spares, Roles
  <2> QED BY <2>1, <2>2
<1>10. \A q \in late : q.text # open[c].text
  BY <1>1, <1>4 DEF LateInv, Different
<1>11. Inv(rows \cup {row}, moved, late, asked)
  BY <1>5, <1>6, <1>7, <1>8, <1>9, <1>10, Inserted
<1> QED BY <1>4, <1>11 DEF HistoryInv

\* An answer whose client has gone is inserted after all.
LEMMA LateStep == HistoryInv /\ InsertLate => HistoryInv'
<1> SUFFICES ASSUME HistoryInv, InsertLate PROVE HistoryInv'
  OBVIOUS
<1>1. /\ asked \in Nat /\ RowsInv(rows, asked) /\ RequestsInv(open, rows, asked)
      /\ LateInv(late, open, rows, asked)
  BY DEF HistoryInv, Inv
<1>2. PICK q \in late : /\ late' = late \ {q}
                        /\ rows' = rows \cup {RowOf(q, "assistant")}
                        /\ open' = open /\ asked' = asked
  BY DEF InsertLate
<1>3. PICK row : row = RowOf(q, "assistant")
  OBVIOUS
<1>4. /\ DOMAIN row = {"role", "made", "text", "at"}
      /\ row.role = "assistant" /\ row.made = q.text /\ row.text = q.text
  BY <1>3 DEF RowOf
<1>5. Inv(rows, open, late \ {q}, asked)
  BY <1>1 DEF Inv, LateInv
<1>6. q.stage = "answer_insert" /\ q.text \in 1..asked /\ Unused(q, rows)
  BY <1>1 DEF LateInv, RequestInv
<1>7. \A d \in Clients : /\ open[d].text # q.text \/ open[d].stage = "idle"
                         /\ open[d].stage = "replacing" => <<"assistant", q.text>> \notin open[d].later
  BY <1>1, <1>6 DEF LateInv, Different, Spares
<1>8. \A p \in late \ {q} : p.text # q.text
  BY <1>1 DEF LateInv
<1>9. \A r \in rows : r.role = "assistant" => r.made # q.text
  BY <1>6 DEF Unused
<1>10. Inv(rows \cup {row}, open, late \ {q}, asked)
  BY <1>4, <1>5, <1>6, <1>7, <1>8, <1>9, Inserted DEF Roles
<1> QED BY <1>2, <1>3, <1>10 DEF HistoryInv

\* The edit changes its question and deletes what came after it.
LEMMA ReplaceStep == ASSUME HistoryInv, NEW c \in Clients, ReplaceAndTruncate(c) PROVE HistoryInv'
<1>1. /\ asked \in Nat /\ RowsInv(rows, asked) /\ RequestsInv(open, rows, asked)
      /\ LateInv(late, open, rows, asked)
  BY DEF HistoryInv, Inv
<1>2. /\ open[c].stage = "replacing" /\ DOMAIN open[c] = Fields
      /\ open[c].text \in 1..asked /\ Unused(open[c], rows)
  BY <1>1 DEF ReplaceAndTruncate, Step, RequestsInv, RequestInv
<1>3. CASE exists
  <2>1. PICK new : new = To(open[c], "relisting")
    OBVIOUS
  <2>2. DOMAIN new = Fields /\ new.stage = "relisting" /\ new.text = open[c].text
    BY <1>2, <2>1 DEF To, Fields
  <2>3. PICK moved : moved = [open EXCEPT ![c] = new]
    OBVIOUS
  <2>4. Inv(rows, moved, late, asked)
    BY <1>2, <2>2, <2>3, Moved DEF HistoryInv, Early
  <2>5. \A d \in Clients : moved[d].text # open[c].text \/ moved[d].stage \notin Early
    <3>1. \A d \in Clients : d # c => moved[d] = open[d] /\ Different(open[d], open[c])
      BY <1>1, <2>3 DEF RequestsInv
    <3>2. moved[c] = new
      BY <1>1, <2>3 DEF RequestsInv
    <3> QED BY <1>2, <2>2, <3>1, <3>2 DEF Different, Early
  <2>6. \A r \in rows : r.role = "user" => r.text # open[c].text
    BY <1>2 DEF Unused, Early
  <2>7. Kept(open[c]) \subseteq rows
    BY DEF Kept
  <2>8. Inv(Rewritten(open[c], Kept(open[c])), moved, late, asked)
    <3>1. PICK after : after = Rewritten(open[c], Kept(open[c]))
      OBVIOUS
    <3>2. \A r \in rows : DOMAIN r = {"role", "made", "text", "at"}
      BY <1>1 DEF RowsInv
    <3>3. \A s \in after : \E r \in rows : Rewords(s, r, open[c].edited, open[c].text)
      BY <2>7, <3>1, <3>2 DEF Rewritten, Rewords, IdOf
    <3>4. Inv(after, moved, late, asked)
      BY <1>2, <2>4, <2>5, <2>6, <3>3, Reworded
    <3> QED BY <3>1, <3>4
  <2>9. /\ rows' = Rewritten(open[c], Kept(open[c])) /\ open' = moved
        /\ late' = late /\ asked' = asked
    BY <1>3, <2>1, <2>3 DEF ReplaceAndTruncate, Move
  <2> QED BY <2>8, <2>9 DEF HistoryInv
<1>4. CASE ~exists
  <2>1. /\ rows' = rows /\ open' = [open EXCEPT ![c] = Idle] /\ late' = late /\ asked' = asked
    BY <1>4 DEF ReplaceAndTruncate, Move
  <2>2. Inv(rows, [open EXCEPT ![c] = Idle], late, asked)
    BY IdleFields, Moved DEF HistoryInv
  <2> QED BY <2>1, <2>2 DEF HistoryInv
<1> QED BY <1>3, <1>4

\* A step of a request that changes nothing on display and reads no target.
LEMMA PassStep ==
    ASSUME HistoryInv, NEW c \in Clients, NEW new,
           Move(c, new), UNCHANGED <<rows, late, asked>>,
           new = Idle \/ /\ DOMAIN new = DOMAIN open[c] /\ new.text = open[c].text
                         /\ open[c].stage # "idle" /\ new.stage # "replacing"
                         /\ new.stage \in Early => open[c].stage \in Early
    PROVE  HistoryInv'
<1>1. DOMAIN open[c] = Fields
  BY DEF HistoryInv, Inv, RequestsInv, RequestInv
<1>2. Inv(rows, [open EXCEPT ![c] = new], late, asked)
  BY <1>1, IdleFields, Moved DEF HistoryInv
<1> QED BY <1>2 DEF HistoryInv, Move

\* A stream that is stopped may leave its last insertion behind.
LEMMA StopStep == ASSUME HistoryInv, NEW c \in Clients, StopStream(c) PROVE HistoryInv'
<1>1. /\ asked \in Nat /\ RowsInv(rows, asked) /\ RequestsInv(open, rows, asked)
      /\ LateInv(late, open, rows, asked)
  BY DEF HistoryInv, Inv
<1>2. /\ Move(c, Idle) /\ rows' = rows /\ asked' = asked
      /\ late' = IF open[c].stage = "answer_insert" THEN late \cup {open[c]} ELSE late
  BY DEF StopStream, Step
<1>3. CASE late' = late
  BY <1>2, <1>3, PassStep
<1>4. CASE open[c].stage = "answer_insert" /\ late' = late \cup {open[c]}
  <2>1. PICK moved : moved = [open EXCEPT ![c] = Idle]
    OBVIOUS
  <2>2. Inv(rows, moved, late, asked)
    BY <2>1, IdleFields, Moved DEF HistoryInv
  <2>3. /\ DOMAIN moved = Clients /\ moved[c] = Idle
        /\ \A d \in Clients : d # c => moved[d] = open[d]
    BY <1>1, <2>1 DEF RequestsInv
  <2>4. \A d \in Clients : Spares(moved[d], open[c]) /\ Different(moved[d], open[c])
    <3>1. Spares(Idle, open[c]) /\ Different(Idle, open[c])
      BY IdleFields DEF Spares, Different
    <3> QED BY <1>1, <2>3, <3>1 DEF RequestsInv
  <2>5. \A q \in late : q.text # open[c].text
    BY <1>1, <1>4 DEF LateInv, Different
  <2>6. LateInv(late \cup {open[c]}, moved, rows, asked)
    <3>1. LateInv(late, moved, rows, asked)
      BY <2>2 DEF Inv
    <3>2. RequestInv(open[c], rows, asked)
      BY <1>1 DEF RequestsInv
    <3> QED BY <1>4, <2>4, <2>5, <3>1, <3>2 DEF LateInv
  <2> QED BY <1>2, <1>4, <2>1, <2>2, <2>6 DEF HistoryInv, Inv, Move
<1> QED BY <1>2, <1>3, <1>4

\* Every step of a client's request keeps the invariant.
LEMMA HandleStep == ASSUME HistoryInv, NEW c \in Clients, Handle(c) PROVE HistoryInv'
<1>fields. DOMAIN open[c] = Fields
  BY DEF HistoryInv, Inv, RequestsInv, RequestInv
<1>1. CASE Send(c) \/ Retrieve(c)
  <2>1. ASSUME NEW req, DOMAIN req = Fields, Begin(c, req), req.stage # "replacing" PROVE HistoryInv'
    BY <2>1, Begun
  <2>2. PICK send : send = [Idle EXCEPT !.stage = "listing"]
    OBVIOUS
  <2>3. PICK retrieve : retrieve = [Idle EXCEPT !.kind = "retrieve", !.stage = "resolving"]
    OBVIOUS
  <2>4. /\ DOMAIN send = Fields /\ send.stage = "listing"
        /\ DOMAIN retrieve = Fields /\ retrieve.stage = "resolving"
    BY <2>2, <2>3 DEF Idle, Fields
  <2> QED BY <1>1, <2>1, <2>2, <2>3, <2>4 DEF Send, Retrieve
<1>2. CASE Edit(c)
  <2>1. PICK q : Begin(c, [Idle EXCEPT !.kind = "edit", !.stage = "target", !.edited = q])
    BY <1>2 DEF Edit
  <2>2. PICK req : req = [Idle EXCEPT !.kind = "edit", !.stage = "target", !.edited = q]
    OBVIOUS
  <2>3. DOMAIN req = Fields /\ req.stage = "target"
    BY <2>2 DEF Idle, Fields
  <2> QED BY <2>1, <2>2, <2>3, Begun
<1>3. CASE DeleteSession(c)
  <2>1. rows' = {} /\ UNCHANGED <<open, late, asked>>
    BY <1>3 DEF DeleteSession
  <2> QED BY <2>1 DEF HistoryInv, Inv, RowsInv, RequestsInv, RequestInv, Unused, KnowsLater, LateInv
<1>4. CASE ListHistory(c)
  <2>1. PICK listed : listed = Listed
    OBVIOUS
  <2>2. PICK new : new = [open[c] EXCEPT !.stage = "user_check", !.history = listed]
    OBVIOUS
  <2>3. /\ DOMAIN new = DOMAIN open[c] /\ new.text = open[c].text /\ new.stage = "user_check"
    BY <1>fields, <2>2 DEF Fields
  <2>4. Move(c, new) /\ open[c].stage = "listing" /\ UNCHANGED <<rows, late, asked>>
    BY <1>4, <2>1, <2>2 DEF ListHistory, Step
  <2> QED BY <2>3, <2>4, PassStep DEF Early
<1>5. CASE CheckBeforeQuestion(c) \/ CheckBeforeAnswer(c)
  <2>1. PICK from \in {"user_check", "answer_check"}, next \in {"user_insert", "answer_insert"} :
            CheckSession(c, from, next) /\ (from = "user_check" \/ next = "answer_insert")
    BY <1>5 DEF CheckBeforeQuestion, CheckBeforeAnswer
  <2>2. PICK went : went = [open[c] EXCEPT !.stage = next, !.at = clock + 1]
    OBVIOUS
  <2>3. DOMAIN went = DOMAIN open[c] /\ went.text = open[c].text /\ went.stage = next
    BY <1>fields, <2>2 DEF Fields
  <2>4. PICK new : /\ new = Idle \/ new = went
                   /\ Move(c, new) /\ open[c].stage = from /\ UNCHANGED <<rows, late, asked>>
    BY <2>1, <2>2 DEF CheckSession, Step
  <2> QED BY <2>1, <2>3, <2>4, PassStep DEF Early
<1>6. CASE InsertQuestion(c)
  <2>1. PICK new : new = To(open[c], "resolving")
    OBVIOUS
  <2>2. DOMAIN new = Fields /\ new.text = open[c].text /\ new.stage = "resolving"
    BY <1>fields, <2>1 DEF To, Fields
  <2>3. InsertMessage(c, "user_insert", "user", new)
    BY <1>6, <2>1 DEF InsertQuestion
  <2> QED BY <2>2, <2>3, InsertStep DEF Early, Roles
<1>7. CASE InsertAnswer(c)
  BY <1>7, IdleFields, InsertStep DEF InsertAnswer, Roles
<1>target. CASE FindTarget(c)
  <2>1. PICK found : found = To(open[c], "ordering")
    OBVIOUS
  <2>2. DOMAIN found = DOMAIN open[c] /\ found.text = open[c].text /\ found.stage = "ordering"
    BY <1>fields, <2>1 DEF To, Fields
  <2>3. PICK new : /\ new = Idle \/ new = found
                   /\ Move(c, new) /\ open[c].stage = "target" /\ UNCHANGED <<rows, late, asked>>
    BY <1>target, <2>1 DEF FindTarget, Step
  <2> QED BY <2>2, <2>3, PassStep DEF Early
<1>8. CASE ReadOrder(c)
  <2>1. open[c].stage = "ordering" /\ UNCHANGED <<rows, late, asked>>
    BY <1>8 DEF ReadOrder, Step
  <2>2. CASE Move(c, Idle)
    BY <2>1, <2>2, PassStep
  <2>3. ASSUME NEW t \in rows,
               Move(c, [open[c] EXCEPT !.stage = "replacing", !.at = t.at, !.later = Later(t)])
        PROVE  HistoryInv'
    BY <2>1, <2>3, TargetRead DEF HistoryInv, Move
  <2> QED BY <1>8, <2>2, <2>3 DEF ReadOrder
<1>9. CASE ReplaceAndTruncate(c)
  BY <1>9, ReplaceStep
<1>10. CASE RelistRetained(c)
  <2>1. PICK listed : listed = Retained(Listed)
    OBVIOUS
  <2>2. PICK new : new = [open[c] EXCEPT !.stage = "resetting", !.history = listed]
    OBVIOUS
  <2>3. /\ DOMAIN new = DOMAIN open[c] /\ new.text = open[c].text /\ new.stage = "resetting"
    BY <1>fields, <2>2 DEF Fields
  <2>4. Move(c, new) /\ open[c].stage = "relisting" /\ UNCHANGED <<rows, late, asked>>
    BY <1>10, <2>1, <2>2 DEF RelistRetained, Step
  <2> QED BY <2>3, <2>4, PassStep DEF Early
<1>11. CASE ResetContext(c) \/ ResolveThread(c)
  <2>1. PICK stage \in {"forgetting", "preparing"} :
            /\ Move(c, [open[c] EXCEPT !.stage = stage, !.thread = mapped])
            /\ open[c].stage \in {"resetting", "resolving"} /\ UNCHANGED <<rows, late, asked>>
    BY <1>11 DEF ResetContext, ResolveThread, Step
  <2>2. PICK new : new = [open[c] EXCEPT !.stage = stage, !.thread = mapped]
    OBVIOUS
  <2>3. DOMAIN new = DOMAIN open[c] /\ new.text = open[c].text /\ new.stage = stage
    BY <1>fields, <2>2 DEF Fields
  <2> QED BY <2>1, <2>2, <2>3, PassStep DEF Early
<1>12. CASE ForgetThread(c)
  <2>1. PICK new : new = To(open[c], "resolving")
    OBVIOUS
  <2>2. DOMAIN new = DOMAIN open[c] /\ new.text = open[c].text /\ new.stage = "resolving"
    BY <1>fields, <2>1 DEF To, Fields
  <2>3. Move(c, new) /\ open[c].stage = "forgetting" /\ UNCHANGED <<rows, late, asked>>
    BY <1>12, <2>1 DEF ForgetThread, AfterForgetting, Step
  <2> QED BY <2>2, <2>3, PassStep DEF Early
<1>13. CASE PrepareTurn(c)
  <2>1. PICK context : /\ Move(c, [open[c] EXCEPT !.stage = "answering", !.context = context])
                       /\ open[c].stage = "preparing" /\ UNCHANGED <<rows, late, asked>>
    BY <1>13 DEF PrepareTurn, Step
  <2>2. PICK new : new = [open[c] EXCEPT !.stage = "answering", !.context = context]
    OBVIOUS
  <2>3. DOMAIN new = DOMAIN open[c] /\ new.text = open[c].text /\ new.stage = "answering"
    BY <1>fields, <2>2 DEF Fields
  <2> QED BY <2>1, <2>2, <2>3, PassStep DEF Early
<1>14. CASE FinishTurn(c)
  <2>1. PICK went : went = To(open[c], "answer_check")
    OBVIOUS
  <2>2. DOMAIN went = DOMAIN open[c] /\ went.text = open[c].text /\ went.stage = "answer_check"
    BY <1>fields, <2>1 DEF To, Fields
  <2>3. PICK new : /\ new = Idle \/ new = went
                   /\ Move(c, new) /\ open[c].stage = "answering" /\ UNCHANGED <<rows, late, asked>>
    BY <1>14, <2>1 DEF FinishTurn, Step
  <2> QED BY <2>2, <2>3, PassStep DEF Early
<1>15. CASE FailTurn(c) \/ FailBeforeReset(c)
  BY <1>15, PassStep DEF FailTurn, FailBeforeReset
<1>16. CASE StopStream(c)
  BY <1>16, StopStep
<1> QED
  BY <1>target, <1>1, <1>2, <1>3, <1>4, <1>5, <1>6, <1>7, <1>8, <1>9, <1>10, <1>11, <1>12, <1>13, <1>14,
     <1>15, <1>16
  DEF Handle

\* And so does every step of the session.
LEMMA HistoryStep == HistoryInv /\ [Next]_vars => HistoryInv'
<1> SUFFICES ASSUME HistoryInv, [Next]_vars PROVE HistoryInv'
  OBVIOUS
<1>1. CASE InsertLate
  BY <1>1, LateStep
<1>2. ASSUME NEW c \in Clients, Handle(c) PROVE HistoryInv'
  BY <1>2, HandleStep
<1>3. CASE UNCHANGED vars
  BY <1>3 DEF vars, HistoryInv
<1> QED BY <1>1, <1>2, <1>3 DEF Next

\* A session starts empty.
LEMMA HistoryInit == Init => HistoryInv
<1> SUFFICES ASSUME Init PROVE HistoryInv
  OBVIOUS
<1>1. asked = 0 /\ rows = {} /\ late = {} /\ open = [c \in Clients |-> Idle]
  BY DEF Init
<1>2. RequestsInv(open, rows, asked)
  BY <1>1, IdleFields DEF RequestsInv, RequestInv, KnowsLater, Spares, Different
<1> QED BY <1>1, <1>2 DEF HistoryInv, Inv, RowsInv, LateInv

\* However many clients send, edit, stop and delete at once, no question is on display twice.
THEOREM QuestionShownOnceCorrect == Spec => []QuestionShownOnce
<1>1. HistoryInv => QuestionShownOnce
  BY DEF HistoryInv, Inv, RowsInv, QuestionShownOnce
<1> QED BY <1>1, HistoryInit, HistoryStep, PTL DEF Spec

\* What leaves the display while the session exists is what an edit that is running has found
\* to come after its question.
THEOREM EditsOnlyTruncateCorrect == Spec => EditsOnlyTruncate
<1>1. ASSUME HistoryInv, [Next]_vars
      PROVE  exists' => \A r \in rows :
                 (\A s \in rows' : IdOf(s) # IdOf(r)) =>
                     \E c \in Clients : Step(c, "replacing") /\ r.at > open[c].at
  <2> SUFFICES ASSUME exists', NEW r \in rows, \A s \in rows' : IdOf(s) # IdOf(r)
               PROVE  \E c \in Clients : Step(c, "replacing") /\ r.at > open[c].at
    OBVIOUS
  <2>1. ~(rows \subseteq rows')
    OBVIOUS
  <2>2. PICK c \in Clients : ReplaceAndTruncate(c) /\ rows' = Rewritten(open[c], Kept(open[c]))
    BY <1>1, <2>1
    DEF Next, vars, InsertLate, Handle, Send, Edit, Retrieve, Begin, DeleteSession, ListHistory,
        CheckBeforeQuestion, CheckBeforeAnswer, CheckSession, InsertQuestion, InsertAnswer,
        InsertMessage, FindTarget, ReadOrder, ReplaceAndTruncate, RelistRetained, ResetContext, ForgetThread,
        ResolveThread, PrepareTurn, FinishTurn, FailTurn, StopStream, FailBeforeReset
  <2>3. IdOf(r) \in open[c].later
    <3>1. SUFFICES ASSUME IdOf(r) \notin open[c].later PROVE FALSE
      OBVIOUS
    <3>2. PICK s : s = IF IdOf(r) = <<"user", open[c].edited>> THEN [r EXCEPT !.text = open[c].text]
                       ELSE r
      OBVIOUS
    <3>3. r \in Kept(open[c])
      BY <3>1 DEF Kept
    <3>4. s \in rows'
      BY <2>2, <3>2, <3>3 DEF Rewritten
    <3>5. DOMAIN r = {"role", "made", "text", "at"}
      BY <1>1 DEF HistoryInv, Inv, RowsInv
    <3>6. IdOf(s) = IdOf(r)
      BY <3>2, <3>5 DEF IdOf
    <3> QED BY <3>4, <3>6
  <2>4. Step(c, "replacing")
    BY <2>2 DEF ReplaceAndTruncate
  <2>5. RequestInv(open[c], rows, asked)
    BY <1>1 DEF HistoryInv, Inv, RequestsInv
  <2> QED BY <2>3, <2>4, <2>5 DEF RequestInv, KnowsLater, Step
<1> QED BY <1>1, HistoryInit, HistoryStep, PTL DEF Spec, EditsOnlyTruncate

-----------------------------------------------------------------------------
(* Rows in order: what Nth, Said and Listed stand for when no two rows have the same time. *)

Ordered(set) ==
    /\ IsFiniteSet(set)
    /\ \A r \in set : r.at \in Nat
    /\ \A r, s \in set : r.at = s.at => r = s

Older(set, r) == {q \in set : q.at < r.at}

\* A row's place in the order is its own.
LEMMA RankIsOwn ==
    ASSUME NEW set, Ordered(set), NEW r \in set, NEW s \in set, r.at < s.at
    PROVE  /\ Cardinality(Older(set, r)) \in Nat /\ Cardinality(Older(set, s)) \in Nat
           /\ Cardinality(Older(set, r)) < Cardinality(Older(set, s))
           /\ Cardinality(Older(set, s)) < Cardinality(set)
<1>1. IsFiniteSet(set) /\ r.at \in Nat /\ s.at \in Nat /\ \A q \in set : q.at \in Nat
  BY DEF Ordered
<1>2. /\ Older(set, s) \in SUBSET set /\ s \in set /\ s \notin Older(set, s)
      /\ Older(set, r) \in SUBSET Older(set, s)
      /\ r \in Older(set, s) /\ r \notin Older(set, r)
  BY <1>1 DEF Older
<1>3. IsFiniteSet(Older(set, s)) /\ IsFiniteSet(Older(set, r))
  BY <1>1, <1>2, FS_Subset
<1>4. /\ Cardinality(Older(set, s)) <= Cardinality(set)
      /\ Cardinality(Older(set, s)) # Cardinality(set)
  BY <1>1, <1>2, FS_Subset
<1>5. /\ Cardinality(Older(set, r)) <= Cardinality(Older(set, s))
      /\ Cardinality(Older(set, r)) # Cardinality(Older(set, s))
  BY <1>2, <1>3, FS_Subset
<1>6. /\ Cardinality(Older(set, r)) \in Nat /\ Cardinality(Older(set, s)) \in Nat
      /\ Cardinality(set) \in Nat
  BY <1>1, <1>3, FS_CardinalityType
<1> QED BY <1>4, <1>5, <1>6

\* Fewer rows are older than a row than there are rows.
LEMMA RankBound ==
    ASSUME NEW set, Ordered(set), NEW r \in set
    PROVE  /\ Cardinality(Older(set, r)) \in Nat /\ Cardinality(set) \in Nat
           /\ Cardinality(Older(set, r)) + 1 \in 1..Cardinality(set)
<1>1. IsFiniteSet(set) /\ r.at \in Nat
  BY DEF Ordered
<1>2. Older(set, r) \in SUBSET set /\ r \notin Older(set, r)
  BY <1>1 DEF Older
<1>3. /\ Cardinality(Older(set, r)) <= Cardinality(set)
      /\ Cardinality(Older(set, r)) # Cardinality(set)
      /\ IsFiniteSet(Older(set, r))
  BY <1>1, <1>2, FS_Subset
<1>4. Cardinality(Older(set, r)) \in Nat /\ Cardinality(set) \in Nat
  BY <1>1, <1>3, FS_CardinalityType
<1> QED BY <1>3, <1>4

\* Every place is taken, by one row.
LEMMA NthRow ==
    ASSUME NEW set, Ordered(set), NEW i \in 1..Cardinality(set)
    PROVE  /\ Nth(set, i) \in set
           /\ Cardinality(Older(set, Nth(set, i))) = i - 1
           /\ \A r \in set : Cardinality(Older(set, r)) = i - 1 => r = Nth(set, i)
<1>1. PICK rank : rank = [r \in set |-> Cardinality(Older(set, r)) + 1]
  OBVIOUS
<1>2. PICK n : n = Cardinality(set)
  OBVIOUS
<1>3. n \in Nat /\ IsFiniteSet(1..n) /\ Cardinality(1..n) = n
  <2>1. n \in Nat
    BY <1>2, FS_CardinalityType DEF Ordered
  <2> QED BY <2>1, FS_Interval
<1>4. \A r \in set : rank[r] \in 1..n /\ Cardinality(Older(set, r)) \in Nat
  BY <1>1, <1>2, RankBound
<1>5. \A r, s \in set : rank[r] = rank[s] => r = s
  <2> SUFFICES ASSUME NEW r \in set, NEW s \in set, r # s PROVE rank[r] # rank[s]
    OBVIOUS
  <2>1. r.at \in Nat /\ s.at \in Nat /\ r.at # s.at
    BY DEF Ordered
  <2>2. CASE r.at < s.at
    BY <1>1, <2>2, RankIsOwn
  <2>3. CASE s.at < r.at
    BY <1>1, <2>3, RankIsOwn
  <2> QED BY <2>1, <2>2, <2>3
<1>6. rank \in Injection(set, 1..n)
  <2>1. rank \in [set -> 1..n]
    BY <1>1, <1>4
  <2> QED BY <1>5, <2>1 DEF Injection, IsInjective
<1>7. rank \in Surjection(set, 1..n)
  BY <1>2, <1>3, <1>6, FS_Injection
<1>8. \A k \in 1..n : \E r \in set : rank[r] = k
  BY <1>7 DEF Surjection
<1>9. PICK row \in set : rank[row] = i
  BY <1>2, <1>8
<1>10. Cardinality(Older(set, row)) = i - 1
  BY <1>1, <1>3, <1>4, <1>9
<1>11. Nth(set, i) \in set /\ Cardinality(Older(set, Nth(set, i))) = i - 1
  BY <1>10 DEF Nth, Older
<1>12. \A r \in set : Cardinality(Older(set, r)) = i - 1 => rank[r] = i
  BY <1>1, <1>2, <1>3
<1>13. rank[Nth(set, i)] = i
  BY <1>11, <1>12
<1> QED BY <1>5, <1>11, <1>12, <1>13

\* What is said is one entry for each row, of that row.
LEMMA SaidTypes ==
    ASSUME NEW set, Ordered(set), set \subseteq Rows
    PROVE  /\ Said(set) \in Seq(Entries) /\ Len(Said(set)) = Cardinality(set)
           /\ \A i \in 1..Cardinality(set) : Said(set)[i] = EntryOf(Nth(set, i))
<1>1. PICK n : n = Cardinality(set)
  OBVIOUS
<1>2. n \in Nat
  BY <1>1, FS_CardinalityType DEF Ordered
<1>3. \A i \in 1..n : EntryOf(Nth(set, i)) \in Entries
  BY <1>1, NthRow DEF EntryOf, Entries, Rows
<1>4. PICK f : f = [i \in 1..n |-> EntryOf(Nth(set, i))]
  OBVIOUS
<1>5. f \in [1..n -> Entries]
  BY <1>3, <1>4
<1>6. f \in Seq(Entries) /\ Len(f) = n
  BY <1>2, <1>5
<1>7. Said(set) = f
  BY <1>1, <1>4 DEF Said
<1> QED BY <1>1, <1>4, <1>6, <1>7

\* A message of what is said is one of the rows.
LEMMA SaidRows ==
    ASSUME NEW set, Ordered(set), set \subseteq Rows, NEW i \in 1..Len(Said(set))
    PROVE  Said(set)[i].text \in Texts(set)
<1>1. i \in 1..Cardinality(set) /\ Said(set)[i] = EntryOf(Nth(set, i))
  BY SaidTypes
<1>2. Nth(set, i) \in set
  BY <1>1, NthRow
<1> QED BY <1>1, <1>2 DEF EntryOf, Texts

\* Without its newest row the rest is said as before.
LEMMA SaidBefore ==
    ASSUME NEW set, Ordered(set), set \subseteq Rows, NEW last \in set,
           \A r \in set : r.at <= last.at
    PROVE  Said(set \ {last}) = Front(Said(set)) /\ Said(set) # <<>>
<1>1. PICK rest : rest = set \ {last}
  OBVIOUS
<1>2. PICK n : n = Cardinality(set)
  OBVIOUS
<1>3. /\ IsFiniteSet(rest) /\ Cardinality(rest) = n - 1 /\ Ordered(rest) /\ rest \subseteq Rows
  BY <1>1, <1>2, FS_RemoveElement DEF Ordered
<1>4. n \in Nat /\ n - 1 \in Nat /\ n > 0
  BY <1>2, <1>3, FS_CardinalityType DEF Ordered
<1>5. /\ Said(set) \in Seq(Entries) /\ Len(Said(set)) = n
      /\ \A i \in 1..n : Said(set)[i] = EntryOf(Nth(set, i))
  BY <1>2, SaidTypes
<1>6. /\ Said(rest) \in Seq(Entries) /\ Len(Said(rest)) = n - 1
      /\ \A i \in 1..(n - 1) : Said(rest)[i] = EntryOf(Nth(rest, i))
  BY <1>3, SaidTypes
<1>7. ASSUME NEW i \in 1..(n - 1) PROVE Nth(rest, i) = Nth(set, i)
  <2>1. PICK row : row = Nth(rest, i)
    OBVIOUS
  <2>2. row \in rest /\ Cardinality(Older(rest, row)) = i - 1
    BY <1>3, <1>7, <2>1, NthRow
  <2>3. row \in set /\ row.at \in Nat /\ last.at \in Nat /\ row.at <= last.at
    BY <1>1, <2>2 DEF Ordered
  <2>4. Older(rest, row) = Older(set, row)
    BY <1>1, <2>3 DEF Older
  <2>5. i \in 1..Cardinality(set)
    BY <1>2, <1>4
  <2> QED BY <2>1, <2>2, <2>3, <2>4, <2>5, NthRow
<1>8. PICK before : before = Front(Said(set))
  OBVIOUS
<1>9. /\ before \in Seq(Entries) /\ Len(before) = n - 1
      /\ \A i \in 1..(n - 1) : before[i] = Said(set)[i]
  BY <1>4, <1>5, <1>8 DEF Front
<1>10. \A i \in 1..(n - 1) : before[i] = Said(rest)[i]
  BY <1>4, <1>5, <1>6, <1>7, <1>9
<1>11. before = Said(rest)
  BY <1>6, <1>9, <1>10
<1> QED BY <1>1, <1>4, <1>5, <1>8, <1>11

\* What is listed is a beginning of what is said, and all of it within the limit.
LEMMA ListedSaid ==
    ASSUME Ordered(rows), rows \subseteq Rows
    PROVE  /\ Listed \in Seq(Entries)
           /\ \A i \in 1..Len(Listed) : Listed[i].text \in Texts(rows)
           /\ Cardinality(rows) <= ListLimit => Listed = Said(rows)
<1>1. PICK all : all = Said(rows)
  OBVIOUS
<1>2. all \in Seq(Entries) /\ Len(all) = Cardinality(rows)
  BY <1>1, SaidTypes
<1>3. ListLimit \in Nat
  BY BoundsAssumption
<1>4. Listed = SubSeq(all, 1, IF Len(all) <= ListLimit THEN Len(all) ELSE ListLimit)
  BY <1>1 DEF Listed
<1>5. \A i \in 1..Len(all) : all[i].text \in Texts(rows)
  BY <1>1, SaidRows
<1>6. PICK k \in Nat : k <= Len(all) /\ Listed = SubSeq(all, 1, k)
                       /\ (Len(all) <= ListLimit => k = Len(all))
  BY <1>2, <1>3, <1>4
<1>7. /\ Listed \in Seq(Entries) /\ Len(Listed) = k
      /\ \A i \in 1..k : Listed[i] = all[i]
  BY <1>2, <1>6
<1>8. k = Len(all) => Listed = all
  BY <1>2, <1>7
<1>9. Cardinality(rows) <= ListLimit => Listed = all
  BY <1>2, <1>6, <1>8
<1> QED BY <1>1, <1>2, <1>5, <1>6, <1>7, <1>9

\* The newest messages of a list are of the list, and so are those retained.
LEMMA PartsOfList ==
    ASSUME NEW list \in Seq(Entries), NEW words, \A i \in 1..Len(list) : list[i].text \in words
    PROVE  /\ Newest(list, HistoryTake) \in Seq(Entries)
           /\ \A i \in 1..Len(Newest(list, HistoryTake)) : Newest(list, HistoryTake)[i].text \in words
           /\ Retained(list) \in Seq(Entries)
           /\ \A i \in 1..Len(Retained(list)) : Retained(list)[i].text \in words
<1>1. HistoryTake \in Nat /\ HistoryTake > 0
  BY BoundsAssumption
<1>2. PICK newest : newest = Newest(list, HistoryTake)
  OBVIOUS
<1>3. newest \in Seq(Entries) /\ \A i \in 1..Len(newest) : newest[i].text \in words
  <2>1. CASE Len(list) <= HistoryTake
    BY <1>2, <2>1 DEF Newest
  <2>2. CASE ~(Len(list) <= HistoryTake)
    <3>1. newest = SubSeq(list, Len(list) - HistoryTake + 1, Len(list))
      BY <1>2, <2>2 DEF Newest
    <3>2. /\ newest \in Seq(Entries) /\ Len(newest) = HistoryTake
          /\ \A i \in 1..HistoryTake : newest[i] = list[Len(list) - HistoryTake + i]
      BY <1>1, <2>2, <3>1
    <3>3. \A i \in 1..HistoryTake : Len(list) - HistoryTake + i \in 1..Len(list)
      BY <1>1, <2>2
    <3> QED BY <3>2, <3>3
  <2> QED BY <2>1, <2>2
<1>4. PICK kept : kept = Retained(list)
  OBVIOUS
<1>5. kept \in Seq(Entries) /\ \A i \in 1..Len(kept) : kept[i].text \in words
  <2>1. CASE list = <<>>
    BY <1>4, <2>1 DEF Retained
  <2>2. CASE list # <<>>
    <3>1. PICK n \in Nat : n = Len(list) - 1
      BY <2>2
    <3>2. kept = SubSeq(list, 1, n)
      BY <1>4, <2>2, <3>1 DEF Retained, Front
    <3>3. /\ kept \in Seq(Entries) /\ Len(kept) = n
          /\ \A i \in 1..n : kept[i] = list[i]
      BY <3>1, <3>2
    <3> QED BY <3>1, <3>3
  <2> QED BY <2>1, <2>2
<1> QED BY <1>2, <1>3, <1>4, <1>5

-----------------------------------------------------------------------------
(* The times of the messages, and how many resets there can be. *)

Inserts == {"user_insert", "answer_insert"}

Stamped(req, set, now) ==
    req.stage \in Inserts => req.at \in Nat /\ req.at <= now /\ \A r \in set : r.at # req.at

Apart(a, b) == a.stage \in Inserts /\ b.stage \in Inserts => a.at # b.at

\* Rows, and the requests about to insert one, have times of their own.
TimesInv(set, requests, outlived, now) ==
    /\ now \in Nat
    /\ Ordered(set) /\ \A r \in set : r.at <= now
    /\ \A c \in Clients : Stamped(requests[c], set, now)
    /\ \A c, d \in Clients : c # d => Apart(requests[c], requests[d])
    /\ \A q \in outlived : Stamped(q, set, now)
    /\ \A q \in outlived, c \in Clients : Apart(requests[c], q)
    /\ \A p, q \in outlived : p.at = q.at => p = q

\* An edit that has yet to reset its thread.
Unreset == {"target", "ordering", "replacing", "relisting", "resetting"}
ToReset == {c \in Clients : open[c].stage \in Unreset}

\* There are no more resets than requests.
ResetsInv ==
    /\ resets \in Nat
    /\ IsFiniteSet(ToReset) /\ resets + Cardinality(ToReset) <= asked

TypeInv == HistoryInv /\ TimesInv(rows, open, late, clock) /\ ResetsInv /\ TypeOK

\* A request gets on; if it comes to insert a message, its time is the clock's next.
LEMMA TimesMoved ==
    ASSUME NEW set, NEW requests, NEW outlived, NEW now,
           TimesInv(set, requests, outlived, now), DOMAIN requests = Clients,
           NEW c \in Clients, NEW new, NEW next \in {now, now + 1},
           new.stage \in Inserts => new.at = now + 1 /\ next = now + 1
    PROVE  TimesInv(set, [requests EXCEPT ![c] = new], outlived, next)
<1>1. PICK after : after = [requests EXCEPT ![c] = new]
  OBVIOUS
<1>2. /\ after[c] = new /\ \A d \in Clients : d # c => after[d] = requests[d]
  BY <1>1
<1>3. /\ now \in Nat /\ next \in Nat /\ now <= next
      /\ Ordered(set) /\ \A r \in set : r.at \in Nat /\ r.at <= now
  BY DEF TimesInv, Ordered
<1>4. ASSUME NEW req, Stamped(req, set, now)
      PROVE  Stamped(req, set, next) /\ Apart(req, new) /\ Apart(new, req)
  BY <1>3, <1>4 DEF Stamped, Apart
<1>5. Stamped(new, set, next)
  BY <1>3 DEF Stamped
<1>6. \A d \in Clients : Stamped(after[d], set, next)
  BY <1>2, <1>4, <1>5 DEF TimesInv
<1>7. \A d, e \in Clients : d # e => Apart(after[d], after[e])
  BY <1>2, <1>4 DEF TimesInv
<1>8. \A q \in outlived : Stamped(q, set, next)
  BY <1>4 DEF TimesInv
<1>9. \A q \in outlived, d \in Clients : Apart(after[d], q)
  BY <1>2, <1>4 DEF TimesInv
<1>10. \A r \in set : r.at <= next
  BY <1>3
<1> QED BY <1>1, <1>3, <1>6, <1>7, <1>8, <1>9, <1>10 DEF TimesInv

\* A row of a time that nobody else has or will insert.
LEMMA TimesInserted ==
    ASSUME NEW set, NEW requests, NEW outlived, NEW now,
           TimesInv(set, requests, outlived, now), NEW row,
           row.at \in Nat, row.at <= now, \A r \in set : r.at # row.at,
           \A c \in Clients : requests[c].stage \in Inserts => requests[c].at # row.at,
           \A q \in outlived : q.stage \in Inserts => q.at # row.at
    PROVE  TimesInv(set \cup {row}, requests, outlived, now)
<1>1. IsFiniteSet(set) /\ IsFiniteSet(set \cup {row})
  BY FS_AddElement DEF TimesInv, Ordered
<1>2. Ordered(set \cup {row})
  BY <1>1 DEF TimesInv, Ordered
<1> QED BY <1>2 DEF TimesInv, Stamped

\* Rows that stay, under whatever text.
LEMMA TimesReworded ==
    ASSUME NEW set, NEW requests, NEW outlived, NEW now,
           TimesInv(set, requests, outlived, now), NEW after, IsFiniteSet(after), NEW id, NEW text,
           \A s \in after : \E r \in set : Rewords(s, r, id, text)
    PROVE  TimesInv(after, requests, outlived, now)
<1>1. Ordered(set) /\ \A r \in set : r.at \in Nat /\ r.at <= now
  BY DEF TimesInv, Ordered
<1>2. \A s \in after : \E r \in set : s.at = r.at
  BY DEF Rewords
<1>3. \A s, t \in after : s.at = t.at => s = t
  <2> SUFFICES ASSUME NEW s \in after, NEW t \in after, s.at = t.at PROVE s = t
    OBVIOUS
  <2>1. PICK r \in set : Rewords(s, r, id, text)
    OBVIOUS
  <2>2. PICK q \in set : Rewords(t, q, id, text)
    OBVIOUS
  <2>3. r.at = q.at
    BY <2>1, <2>2 DEF Rewords
  <2>4. r = q
    BY <1>1, <2>3 DEF Ordered
  <2> QED BY <2>1, <2>2, <2>4 DEF Rewords
<1>4. Ordered(after) /\ \A s \in after : s.at <= now
  BY <1>1, <1>2, <1>3 DEF Ordered
<1>5. \A req : Stamped(req, set, now) => Stamped(req, after, now)
  BY <1>2 DEF Stamped
<1> QED BY <1>4, <1>5 DEF TimesInv

\* The rows that an edit leaves are rows that were there, its question under the new text.
LEMMA RewrittenRows ==
    ASSUME HistoryInv, NEW req
    PROVE  /\ \A s \in Rewritten(req, Kept(req)) : \E r \in Kept(req) : Rewords(s, r, req.edited, req.text)
           /\ \A r \in Kept(req) : \E s \in Rewritten(req, Kept(req)) : Rewords(s, r, req.edited, req.text)
           /\ IsFiniteSet(rows) => IsFiniteSet(Rewritten(req, Kept(req)))
<1>1. \A r \in rows : DOMAIN r = {"role", "made", "text", "at"}
  BY DEF HistoryInv, Inv, RowsInv
<1>2. PICK kept : kept = Kept(req)
  OBVIOUS
<1>3. kept \subseteq rows
  BY <1>2 DEF Kept
<1>4. PICK new : new = [r \in kept |->
                   IF IdOf(r) = <<"user", req.edited>> THEN [r EXCEPT !.text = req.text] ELSE r]
  OBVIOUS
<1>5. \A r \in kept : Rewords(new[r], r, req.edited, req.text)
  BY <1>1, <1>3, <1>4 DEF Rewords, IdOf
<1>6. PICK after : after = Rewritten(req, kept)
  OBVIOUS
<1>7. after = {new[r] : r \in kept}
  BY <1>4, <1>6 DEF Rewritten
<1>8. new \in Surjection(kept, after)
  <2>1. new \in [kept -> after]
    BY <1>4, <1>7
  <2> QED BY <1>7, <2>1 DEF Surjection
<1>9. IsFiniteSet(rows) => IsFiniteSet(after)
  <2> SUFFICES ASSUME IsFiniteSet(rows) PROVE IsFiniteSet(after)
    OBVIOUS
  <2>1. IsFiniteSet(kept)
    BY <1>3, FS_Subset
  <2> QED BY <1>8, <2>1, FS_Surjection
<1> QED BY <1>2, <1>5, <1>6, <1>7, <1>9

\* An insertion takes the time that its request was given.
LEMMA TimesInsertStep ==
    ASSUME HistoryInv, TimesInv(rows, open, late, clock),
           NEW c \in Clients, NEW role, NEW from \in Inserts, NEW new,
           InsertMessage(c, from, role, new), new.stage \notin Inserts
    PROVE  TimesInv(rows, open, late, clock)'
<1>1. DOMAIN open = Clients
  BY DEF HistoryInv, Inv, RequestsInv
<1>2. PICK row : row = RowOf(open[c], role)
  OBVIOUS
<1>3. PICK moved : moved = [open EXCEPT ![c] = new]
  OBVIOUS
<1>4. /\ rows' = rows \cup {row} /\ open' = moved /\ late' = late /\ clock' = clock
      /\ open[c].stage \in Inserts /\ row.at = open[c].at
  BY <1>2, <1>3 DEF InsertMessage, Move, Step, RowOf
<1>5. TimesInv(rows, moved, late, clock)
  BY <1>1, <1>3, TimesMoved
<1>6. /\ row.at \in Nat /\ row.at <= clock /\ \A r \in rows : r.at # row.at
      /\ \A q \in late : q.stage \in Inserts => q.at # row.at
  BY <1>4 DEF TimesInv, Stamped, Apart
<1>7. \A d \in Clients : moved[d].stage \in Inserts => moved[d].at # row.at
  <2>1. moved[c] = new /\ \A d \in Clients : d # c => moved[d] = open[d]
    BY <1>1, <1>3
  <2> QED BY <1>4, <2>1 DEF TimesInv, Apart
<1>8. TimesInv(rows \cup {row}, moved, late, clock)
  BY <1>5, <1>6, <1>7, TimesInserted
<1> QED BY <1>4, <1>8

\* A request that gets on without a time of its own.
LEMMA TimesPassStep ==
    ASSUME HistoryInv, TimesInv(rows, open, late, clock),
           NEW c \in Clients, NEW new, Move(c, new), new.stage \notin Inserts,
           UNCHANGED <<rows, late, clock>>
    PROVE  TimesInv(rows, open, late, clock)'
<1>1. DOMAIN open = Clients
  BY DEF HistoryInv, Inv, RequestsInv
<1>2. TimesInv(rows, [open EXCEPT ![c] = new], late, clock)
  BY <1>1, TimesMoved
<1> QED BY <1>2 DEF Move

\* append_message takes the next time and looks the session up.
LEMMA TimesCheckStep ==
    ASSUME HistoryInv, TimesInv(rows, open, late, clock),
           NEW c \in Clients, NEW from, NEW next \in Inserts, CheckSession(c, from, next)
    PROVE  TimesInv(rows, open, late, clock)'
<1>1. DOMAIN open = Clients /\ DOMAIN open[c] = Fields /\ clock \in Nat
  BY DEF HistoryInv, Inv, RequestsInv, RequestInv, TimesInv
<1>2. PICK went : went = [open[c] EXCEPT !.stage = next, !.at = clock + 1]
  OBVIOUS
<1>3. went.at = clock + 1
  BY <1>1, <1>2 DEF Fields
<1>4. PICK new : /\ new = IF exists THEN went ELSE Idle
                 /\ Move(c, new) /\ clock' = clock + 1 /\ UNCHANGED <<rows, late>>
  BY <1>2 DEF CheckSession
<1>5. new.stage \in Inserts => new.at = clock + 1
  BY <1>3, <1>4, IdleFields DEF Inserts
<1>6. TimesInv(rows, [open EXCEPT ![c] = new], late, clock + 1)
  BY <1>1, <1>5, TimesMoved
<1> QED BY <1>4, <1>6 DEF Move

\* The edit leaves rows that were there.
LEMMA TimesReplaceStep ==
    ASSUME HistoryInv, TimesInv(rows, open, late, clock),
           NEW c \in Clients, ReplaceAndTruncate(c)
    PROVE  TimesInv(rows, open, late, clock)'
<1>1. DOMAIN open = Clients /\ DOMAIN open[c] = Fields
  BY DEF HistoryInv, Inv, RequestsInv, RequestInv
<1>2. PICK went : went = To(open[c], "relisting")
  OBVIOUS
<1>3. went.stage = "relisting"
  BY <1>1, <1>2 DEF To, Fields
<1>4. CASE exists
  <2>1. PICK moved : moved = [open EXCEPT ![c] = went]
    OBVIOUS
  <2>2. TimesInv(rows, moved, late, clock)
    BY <1>1, <1>3, <2>1, TimesMoved DEF Inserts
  <2>3. PICK after : after = Rewritten(open[c], Kept(open[c]))
    OBVIOUS
  <2>4. IsFiniteSet(after) /\ Kept(open[c]) \subseteq rows
    BY <2>3, RewrittenRows DEF TimesInv, Ordered, Kept
  <2>5. \A s \in after : \E r \in rows : Rewords(s, r, open[c].edited, open[c].text)
    BY <2>3, <2>4, RewrittenRows
  <2>6. TimesInv(after, moved, late, clock)
    BY <2>2, <2>4, <2>5, TimesReworded
  <2>7. rows' = after /\ open' = moved /\ late' = late /\ clock' = clock
    BY <1>2, <1>4, <2>1, <2>3 DEF ReplaceAndTruncate, Move
  <2> QED BY <2>6, <2>7
<1>5. CASE ~exists
  BY <1>5, IdleFields, TimesPassStep DEF ReplaceAndTruncate, Inserts
<1> QED BY <1>4, <1>5

\* A cancelled stream leaves its insertion, and the time of it, behind.
LEMMA TimesStopStep ==
    ASSUME HistoryInv, TimesInv(rows, open, late, clock), NEW c \in Clients, StopStream(c)
    PROVE  TimesInv(rows, open, late, clock)'
<1>1. DOMAIN open = Clients
  BY DEF HistoryInv, Inv, RequestsInv
<1>2. /\ Move(c, Idle) /\ rows' = rows /\ clock' = clock
      /\ late' = IF open[c].stage = "answer_insert" THEN late \cup {open[c]} ELSE late
  BY DEF StopStream, Step
<1>3. CASE late' = late
  BY <1>2, <1>3, IdleFields, TimesPassStep DEF Inserts
<1>4. CASE open[c].stage = "answer_insert" /\ late' = late \cup {open[c]}
  <2>1. PICK moved : moved = [open EXCEPT ![c] = Idle]
    OBVIOUS
  <2>2. TimesInv(rows, moved, late, clock)
    BY <1>1, <2>1, IdleFields, TimesMoved DEF Inserts
  <2>3. \A d \in Clients : Apart(moved[d], open[c])
    <3>1. moved[c] = Idle /\ \A d \in Clients : d # c => moved[d] = open[d]
      BY <1>1, <2>1
    <3>2. Apart(Idle, open[c])
      BY IdleFields DEF Apart, Inserts
    <3> QED BY <3>1, <3>2 DEF TimesInv
  <2>4. \A q \in late : q.stage = "answer_insert" /\ Apart(open[c], q)
    BY DEF TimesInv, HistoryInv, Inv, LateInv
  <2>5. \A q \in late : q.at # open[c].at
    BY <1>4, <2>4 DEF Apart, Inserts
  <2>6. TimesInv(rows, moved, late \cup {open[c]}, clock)
    BY <2>2, <2>3, <2>5 DEF TimesInv
  <2> QED BY <1>2, <1>4, <2>1, <2>6 DEF Move
<1> QED BY <1>2, <1>3, <1>4

\* The insertion left behind takes its time with it.
LEMMA TimesLateStep ==
    ASSUME HistoryInv, TimesInv(rows, open, late, clock), InsertLate
    PROVE  TimesInv(rows, open, late, clock)'
<1>1. PICK q \in late : /\ late' = late \ {q} /\ rows' = rows \cup {RowOf(q, "assistant")}
                        /\ open' = open /\ clock' = clock
  BY DEF InsertLate
<1>2. PICK row : row = RowOf(q, "assistant")
  OBVIOUS
<1>3. row.at = q.at /\ \A p \in late : p.stage = "answer_insert"
  BY <1>2 DEF RowOf, HistoryInv, Inv, LateInv
<1>4. TimesInv(rows, open, late \ {q}, clock)
  BY DEF TimesInv
<1>5. row.at \in Nat /\ row.at <= clock /\ \A r \in rows : r.at # row.at
  BY <1>3 DEF TimesInv, Stamped, Inserts
<1>6. \A c \in Clients : open[c].stage \in Inserts => open[c].at # row.at
  BY <1>3 DEF TimesInv, Apart, Inserts
<1>7. \A p \in late \ {q} : p.at # row.at
  BY <1>3 DEF TimesInv
<1>8. TimesInv(rows \cup {row}, open, late \ {q}, clock)
  BY <1>4, <1>5, <1>6, <1>7, TimesInserted
<1> QED BY <1>1, <1>2, <1>8

\* A client without a request is well typed.
LEMMA IdleType == Idle \in OpenType
BY BoundsAssumption DEF Idle, OpenType, Stages, Entries, Roles

\* A request that gets on to something well typed.
LEMMA TypesMoved ==
    ASSUME TypeOK, NEW c \in Clients, NEW new \in OpenType, Move(c, new)
    PROVE  open' \in [Clients -> OpenType]
BY DEF TypeOK, Move

\* A request that gets on does not come before its reset, unless it has just come in.
LEMMA ResetsMoved ==
    ASSUME ResetsInv, asked \in Nat, DOMAIN open = Clients, NEW c \in Clients, NEW new, Move(c, new),
           \/ asked' = asked /\ (new.stage \in Unreset => open[c].stage \in Unreset)
           \/ asked' = asked + 1,
           resets' = resets
    PROVE  ResetsInv'
<1>1. /\ open'[c] = new
      /\ \A d \in Clients : d # c => open'[d] = open[d]
  BY DEF Move
<1>2. PICK before : before = ToReset
  OBVIOUS
<1>3. PICK after : after = {d \in Clients : open'[d].stage \in Unreset}
  OBVIOUS
<1>4. /\ IsFiniteSet(before) /\ Cardinality(before) \in Nat
      /\ resets \in Nat /\ resets + Cardinality(before) <= asked
  BY <1>2, FS_CardinalityType DEF ResetsInv
<1>5. /\ IsFiniteSet(before \cup {c})
      /\ Cardinality(before \cup {c}) \in {Cardinality(before), Cardinality(before) + 1}
  BY <1>4, FS_AddElement
<1>6. after \subseteq before \cup {c}
  BY <1>1, <1>2, <1>3 DEF ToReset
<1>7. IsFiniteSet(after) /\ resets' + Cardinality(after) <= asked'
  <2>1. CASE asked' = asked /\ (new.stage \in Unreset => open[c].stage \in Unreset)
    <3>1. after \subseteq before
      BY <1>1, <1>2, <1>3, <2>1 DEF ToReset
    <3>2. IsFiniteSet(after) /\ Cardinality(after) <= Cardinality(before)
      BY <1>4, <3>1, FS_Subset
    <3>3. Cardinality(after) \in Nat
      BY <3>2, FS_CardinalityType
    <3> QED BY <1>4, <2>1, <3>2, <3>3
  <2>2. CASE asked' = asked + 1
    <3>1. IsFiniteSet(after) /\ Cardinality(after) <= Cardinality(before \cup {c})
      BY <1>5, <1>6, FS_Subset
    <3>2. Cardinality(after) \in Nat
      BY <3>1, FS_CardinalityType
    <3> QED BY <1>4, <1>5, <2>2, <3>1, <3>2
  <2> QED BY <2>1, <2>2
<1>8. ToReset' = after
  BY <1>3 DEF ToReset
<1> QED BY <1>4, <1>7, <1>8 DEF ResetsInv

\* A reset uses up its request.
LEMMA ResetsResetStep ==
    ASSUME TypeInv, NEW c \in Clients, ResetContext(c)
    PROVE  ResetsInv' /\ resets' \in 0..MaxRequests
<1>1. PICK new : new = [open[c] EXCEPT !.stage = "forgetting", !.thread = mapped]
  OBVIOUS
<1>2. open[c] \in OpenType
  BY DEF TypeInv, TypeOK
<1>3. new.stage = "forgetting"
  BY <1>1, <1>2 DEF OpenType
<1>4. /\ open'[c] = new /\ \A d \in Clients : d # c => open'[d] = open[d]
      /\ resets' = resets + 1 /\ asked' = asked /\ open[c].stage = "resetting"
  BY <1>1 DEF ResetContext, Move, Step, TypeInv, TypeOK
<1>5. PICK before : before = ToReset
  OBVIOUS
<1>6. IsFiniteSet(before) /\ resets \in Nat /\ resets + Cardinality(before) <= asked
      /\ asked \in 0..MaxRequests /\ MaxRequests \in Nat
  BY <1>5, BoundsAssumption DEF TypeInv, ResetsInv, TypeOK
<1>7. c \in before
  BY <1>4, <1>5 DEF ToReset, Unreset
<1>8. IsFiniteSet(before \ {c}) /\ Cardinality(before \ {c}) = Cardinality(before) - 1
  BY <1>6, <1>7, FS_RemoveElement
<1>9. Cardinality(before \ {c}) \in Nat /\ Cardinality(before) \in Nat
  BY <1>6, <1>8, FS_CardinalityType
<1>10. ToReset' = before \ {c}
  <2>1. {d \in Clients : open'[d].stage \in Unreset} = before \ {c}
    BY <1>3, <1>4, <1>5 DEF ToReset, Unreset
  <2> QED BY <2>1 DEF ToReset
<1> QED BY <1>4, <1>6, <1>8, <1>9, <1>10 DEF ResetsInv

\* Steps of a request that leave rows, clock and the late insertions alone.
LEMMA TypesPassStep ==
    ASSUME TypeInv, NEW c \in Clients, NEW new \in OpenType, Move(c, new),
           new.stage \notin Inserts,
           \/ asked' = asked /\ (new.stage \in Unreset => open[c].stage \in Unreset)
           \/ asked' = asked + 1,
           UNCHANGED <<rows, clock, late, resets>>
    PROVE  /\ TimesInv(rows, open, late, clock)' /\ ResetsInv'
           /\ open' \in [Clients -> OpenType]
<1>1. /\ HistoryInv /\ TimesInv(rows, open, late, clock) /\ ResetsInv /\ TypeOK
      /\ asked \in Nat /\ DOMAIN open = Clients
  BY DEF TypeInv, TypeOK
<1>2. TimesInv(rows, open, late, clock)'
  BY <1>1, TimesPassStep
<1>3. ResetsInv'
  BY <1>1, ResetsMoved
<1> QED BY <1>1, <1>2, <1>3, TypesMoved

\* A request that comes in.
LEMMA TypesBegin ==
    ASSUME TypeInv, NEW c \in Clients, NEW req \in OpenType, Begin(c, req), req.stage \notin Inserts
    PROVE  (TimesInv(rows, open, late, clock) /\ ResetsInv /\ TypeOK)'
<1>1. PICK new : new = [req EXCEPT !.text = asked + 1]
  OBVIOUS
<1>2. asked \in Nat /\ asked + 1 \in 1..MaxRequests
  BY BoundsAssumption DEF Begin, TypeInv, TypeOK
<1>3. new \in OpenType /\ new.stage = req.stage
  BY <1>1, <1>2 DEF OpenType, Requests
<1>4. Move(c, new) /\ asked' = asked + 1 /\ UNCHANGED <<rows, clock, late, resets>>
  BY <1>1 DEF Begin
<1>5. /\ TimesInv(rows, open, late, clock)' /\ ResetsInv'
      /\ open' \in [Clients -> OpenType]
  BY <1>3, <1>4, TypesPassStep
<1>6. orderly' \in BOOLEAN
  BY DEF Begin
<1>7. TypeOK'
  BY <1>2, <1>5, <1>6 DEF TypeInv, TypeOK, Begin
<1> QED BY <1>5, <1>7

\* What a turn is told, and what its thread is left with, are lists of messages.
LEMMA TurnTypes ==
    ASSUME TypeInv, NEW c \in Clients, open[c].stage # "idle"
    PROVE  /\ Question(open[c]) \in Entries /\ Answer(open[c]) \in Entries
           /\ open[c].history \in Seq(Entries) /\ open[c].context \in Seq(Entries)
           /\ Newest(open[c].history, HistoryTake) \in Seq(Entries)
<1>1. open[c] \in OpenType
  BY DEF TypeInv, TypeOK
<1>2. open[c].text \in Requests
  <2>1. open[c].text \in 1..asked /\ asked \in 0..MaxRequests
    BY DEF TypeInv, TypeOK, HistoryInv, Inv, RequestsInv, RequestInv
  <2> QED BY <2>1, BoundsAssumption DEF Requests
<1>3. open[c].history \in Seq(Entries) /\ open[c].context \in Seq(Entries)
  BY <1>1 DEF OpenType
<1>4. PICK words : \A i \in 1..Len(open[c].history) : open[c].history[i].text \in words
  <2>1. \A e \in Entries : e.text \in Requests
    BY DEF Entries
  <2>2. \A i \in 1..Len(open[c].history) : open[c].history[i] \in Entries
    BY <1>3
  <2> QED BY <2>1, <2>2
<1>5. Newest(open[c].history, HistoryTake) \in Seq(Entries)
  BY <1>3, <1>4, PartsOfList
<1> QED BY <1>2, <1>3, <1>5 DEF Question, Answer, Entries, Roles

\* Steps that change the rows.
LEMMA TypesInsertStep ==
    ASSUME TypeInv, NEW c \in Clients, NEW role \in Roles, NEW from \in Inserts, NEW new \in OpenType,
           InsertMessage(c, from, role, new), new.stage \notin Inserts, new.stage \notin Unreset
    PROVE  (TimesInv(rows, open, late, clock) /\ ResetsInv /\ TypeOK)'
<1>1. /\ HistoryInv /\ TimesInv(rows, open, late, clock) /\ ResetsInv /\ TypeOK
      /\ asked \in Nat /\ DOMAIN open = Clients
  BY DEF TypeInv, TypeOK
<1>2. TimesInv(rows, open, late, clock)'
  BY <1>1, TimesInsertStep
<1>3. /\ Move(c, new) /\ resets' = resets /\ asked' = asked /\ open[c].stage = from
      /\ rows' = rows \cup {RowOf(open[c], role)}
  BY DEF InsertMessage, Step
<1>4. ResetsInv' /\ open' \in [Clients -> OpenType]
  BY <1>1, <1>3, ResetsMoved, TypesMoved
<1>5. RowOf(open[c], role) \in Rows
  <2>1. open[c] \in OpenType /\ open[c].text \in 1..asked /\ asked \in 0..MaxRequests
    BY <1>1, <1>3 DEF TypeOK, HistoryInv, Inv, RequestsInv, RequestInv, Inserts
  <2>2. open[c].text \in Requests /\ open[c].at \in Nat
    BY <2>1, BoundsAssumption DEF OpenType, Requests
  <2> QED BY <2>2 DEF RowOf, Rows
<1>6. TypeOK'
  BY <1>1, <1>3, <1>4, <1>5 DEF TypeOK, InsertMessage
<1> QED BY <1>2, <1>4, <1>6

\* An edit.
LEMMA TypesReplaceStep ==
    ASSUME TypeInv, NEW c \in Clients, ReplaceAndTruncate(c)
    PROVE  (TimesInv(rows, open, late, clock) /\ ResetsInv /\ TypeOK)'
<1>1. /\ HistoryInv /\ TimesInv(rows, open, late, clock) /\ ResetsInv /\ TypeOK
      /\ asked \in Nat /\ DOMAIN open = Clients
  BY DEF TypeInv, TypeOK
<1>2. TimesInv(rows, open, late, clock)'
  BY <1>1, TimesReplaceStep
<1>3. open[c] \in OpenType /\ open[c].stage = "replacing" /\ open[c].text \in Requests
  <2>1. open[c].text \in 1..asked /\ asked \in 0..MaxRequests
    BY <1>1 DEF TypeOK, HistoryInv, Inv, RequestsInv, RequestInv, ReplaceAndTruncate, Step
  <2> QED BY <1>1, <2>1, BoundsAssumption DEF TypeOK, Requests, ReplaceAndTruncate, Step
<1>4. PICK went : went = To(open[c], "relisting")
  OBVIOUS
<1>5. went \in OpenType /\ went.stage = "relisting"
  BY <1>3, <1>4 DEF To, OpenType, Stages
<1>6. PICK new \in OpenType : Move(c, new) /\ (new.stage \in Unreset => open[c].stage \in Unreset)
  BY <1>3, <1>4, <1>5, IdleType, IdleFields DEF ReplaceAndTruncate, Unreset
<1>7. resets' = resets /\ asked' = asked
  BY DEF ReplaceAndTruncate
<1>8. ResetsInv' /\ open' \in [Clients -> OpenType]
  BY <1>1, <1>6, <1>7, ResetsMoved, TypesMoved
<1>9. Rewritten(open[c], Kept(open[c])) \subseteq Rows
  <2>1. Kept(open[c]) \subseteq Rows
    BY <1>1 DEF Kept, TypeOK
  <2>2. \A r \in Rows : [r EXCEPT !.text = open[c].text] \in Rows
    BY <1>3 DEF Rows
  <2> QED BY <2>1, <2>2 DEF Rewritten
<1>10. rows' \subseteq Rows /\ discarded' \subseteq Requests
  <2>1. Texts(rows) \subseteq Requests
    BY <1>1 DEF TypeOK, Texts, Rows
  <2>2. rows' \subseteq Rows
    BY <1>1, <1>9 DEF ReplaceAndTruncate, TypeOK
  <2>3. discarded' = discarded \/ discarded' = discarded \cup (Texts(rows) \ Texts(rows'))
    BY DEF ReplaceAndTruncate
  <2> QED BY <1>1, <2>1, <2>2, <2>3 DEF TypeOK
<1>11. TypeOK'
  BY <1>1, <1>8, <1>10 DEF TypeOK, ReplaceAndTruncate
<1> QED BY <1>2, <1>8, <1>11

\* An insertion that outlived its request.
LEMMA TypesLateStep ==
    ASSUME TypeInv, InsertLate
    PROVE  (TimesInv(rows, open, late, clock) /\ ResetsInv /\ TypeOK)'
<1>1. /\ HistoryInv /\ TimesInv(rows, open, late, clock) /\ ResetsInv /\ TypeOK
  BY DEF TypeInv
<1>2. TimesInv(rows, open, late, clock)'
  BY <1>1, TimesLateStep
<1>3. PICK q \in late : rows' = rows \cup {RowOf(q, "assistant")} /\ late' = late \ {q}
  BY DEF InsertLate
<1>4. UNCHANGED <<exists, clock, mapped, threads, open, discarded, orderly, asked, stops, resets>>
  BY DEF InsertLate
<1>5. RowOf(q, "assistant") \in Rows
  <2>1. q \in OpenType /\ q.text \in 1..asked /\ asked \in 0..MaxRequests
    BY <1>1 DEF TypeOK, HistoryInv, Inv, LateInv, RequestInv
  <2>2. q.text \in Requests /\ q.at \in Nat
    BY <2>1, BoundsAssumption DEF OpenType, Requests
  <2> QED BY <2>2 DEF RowOf, Rows, Roles
<1>6. ToReset' = ToReset
  BY <1>4 DEF ToReset
<1>7. ResetsInv'
  BY <1>1, <1>4, <1>6 DEF ResetsInv
<1>8. TypeOK'
  BY <1>1, <1>3, <1>4, <1>5 DEF TypeOK
<1> QED BY <1>2, <1>7, <1>8

\* Every step of a client's request keeps times, counts and types.
LEMMA TypesHandleStep ==
    ASSUME TypeInv, NEW c \in Clients, Handle(c)
    PROVE  (TimesInv(rows, open, late, clock) /\ ResetsInv /\ TypeOK)'
<1>0. /\ HistoryInv /\ TimesInv(rows, open, late, clock) /\ ResetsInv /\ TypeOK
      /\ asked \in Nat /\ DOMAIN open = Clients /\ open[c] \in OpenType
  BY DEF TypeInv, TypeOK
<1> DEFINE Goal == (TimesInv(rows, open, late, clock) /\ ResetsInv /\ TypeOK)'
<1>1. CASE Send(c)
  <2>1. PICK req : req = [Idle EXCEPT !.stage = "listing"]
    OBVIOUS
  <2>2. req \in OpenType /\ req.stage = "listing"
    BY <2>1, IdleType DEF OpenType, Stages
  <2> QED BY <1>1, <2>1, <2>2, TypesBegin DEF Send, Inserts
<1>2. CASE Retrieve(c)
  <2>1. PICK req : req = [Idle EXCEPT !.kind = "retrieve", !.stage = "resolving"]
    OBVIOUS
  <2>2. req \in OpenType /\ req.stage = "resolving"
    BY <2>1, IdleType DEF OpenType, Stages
  <2> QED BY <1>2, <2>1, <2>2, TypesBegin DEF Retrieve, Inserts
<1>3. CASE Edit(c)
  <2>1. PICK q \in 1..asked :
            Begin(c, [Idle EXCEPT !.kind = "edit", !.stage = "target", !.edited = q])
    BY <1>3 DEF Edit
  <2>2. PICK req : req = [Idle EXCEPT !.kind = "edit", !.stage = "target", !.edited = q]
    OBVIOUS
  <2>3. q \in Requests
    BY <1>0, BoundsAssumption DEF TypeOK, Requests
  <2>4. req \in OpenType /\ req.stage = "target"
    BY <2>2, <2>3, IdleType DEF OpenType, Stages
  <2> QED BY <2>1, <2>2, <2>4, TypesBegin DEF Inserts
<1>4. CASE DeleteSession(c)
  <2>1. /\ rows' = {} /\ exists' = FALSE /\ orderly' \in BOOLEAN
        /\ UNCHANGED <<clock, mapped, threads, open, late, discarded, asked, stops, resets>>
    BY <1>4 DEF DeleteSession
  <2>2. Ordered({})
    BY FS_EmptySet DEF Ordered
  <2>3. TimesInv({}, open, late, clock)
    BY <1>0, <2>2 DEF TimesInv, Stamped
  <2>4. ToReset' = ToReset
    BY <2>1 DEF ToReset
  <2>5. ResetsInv'
    BY <1>0, <2>1, <2>4 DEF ResetsInv
  <2>6. TypeOK'
    BY <1>0, <2>1 DEF TypeOK
  <2> QED BY <2>1, <2>3, <2>5, <2>6
<1>5. CASE ListHistory(c)
  <2>1. PICK new : new = [open[c] EXCEPT !.stage = "user_check", !.history = Listed]
    OBVIOUS
  <2>2. Listed \in Seq(Entries)
    BY <1>0, ListedSaid DEF TimesInv, TypeOK
  <2>3. new \in OpenType /\ new.stage = "user_check"
    BY <1>0, <2>1, <2>2 DEF OpenType, Stages
  <2>4. Move(c, new) /\ UNCHANGED <<rows, clock, late, resets, asked>>
    BY <1>5, <2>1 DEF ListHistory
  <2>5. /\ TimesInv(rows, open, late, clock)' /\ ResetsInv'
        /\ open' \in [Clients -> OpenType]
    BY <2>3, <2>4, TypesPassStep DEF Inserts, Unreset
  <2> QED BY <1>0, <1>5, <2>5 DEF ListHistory, TypeOK
<1>6. CASE CheckBeforeQuestion(c) \/ CheckBeforeAnswer(c)
  <2>1. PICK from \in {"user_check", "answer_check"}, next \in Inserts : CheckSession(c, from, next)
    BY <1>6 DEF CheckBeforeQuestion, CheckBeforeAnswer, Inserts
  <2>2. TimesInv(rows, open, late, clock)'
    BY <1>0, <2>1, TimesCheckStep
  <2>3. PICK went : went = [open[c] EXCEPT !.stage = next, !.at = clock + 1]
    OBVIOUS
  <2>4. went \in OpenType /\ went.stage = next /\ clock + 1 \in Nat
    <3>1. clock + 1 \in Nat /\ next \in Stages
      BY <1>0 DEF Inserts, Stages, TypeOK
    <3> QED BY <1>0, <2>3, <3>1 DEF OpenType
  <2>5. PICK new \in OpenType : Move(c, new) /\ new.stage \notin Unreset
    BY <2>1, <2>3, <2>4, IdleType, IdleFields DEF CheckSession, Inserts, Unreset
  <2>6. resets' = resets /\ asked' = asked
    BY <2>1 DEF CheckSession
  <2>7. ResetsInv' /\ open' \in [Clients -> OpenType]
    BY <1>0, <2>5, <2>6, ResetsMoved, TypesMoved
  <2>8. TypeOK'
    BY <1>0, <2>1, <2>4, <2>7 DEF CheckSession, TypeOK
  <2> QED BY <2>2, <2>7, <2>8
<1>7. CASE InsertQuestion(c)
  <2>1. PICK new : new = To(open[c], "resolving")
    OBVIOUS
  <2>2. new \in OpenType /\ new.stage = "resolving"
    BY <1>0, <2>1 DEF To, OpenType, Stages
  <2>3. InsertMessage(c, "user_insert", "user", new)
    BY <1>7, <2>1 DEF InsertQuestion
  <2> QED BY <2>2, <2>3, TypesInsertStep DEF Inserts, Unreset, Roles
<1>8. CASE InsertAnswer(c)
  BY <1>8, IdleType, IdleFields, TypesInsertStep DEF InsertAnswer, Inserts, Unreset, Roles
<1>target. CASE FindTarget(c)
  <2>1. PICK found : found = To(open[c], "ordering")
    OBVIOUS
  <2>2. found \in OpenType /\ found.stage = "ordering"
    BY <1>0, <2>1 DEF To, OpenType, Stages
  <2>3. PICK new \in OpenType :
            /\ new = Idle \/ new = found
            /\ Move(c, new) /\ open[c].stage = "target" /\ UNCHANGED <<rows, clock, late, resets, asked>>
    BY <1>target, <2>1, <2>2, IdleType DEF FindTarget, Step
  <2>4. /\ TimesInv(rows, open, late, clock)' /\ ResetsInv'
        /\ open' \in [Clients -> OpenType]
    BY <2>2, <2>3, IdleFields, TypesPassStep DEF Inserts, Unreset
  <2> QED BY <1>0, <1>target, <2>4 DEF FindTarget, TypeOK
<1>9. CASE ReadOrder(c)
  <2>1. open[c].stage = "ordering" /\ UNCHANGED <<rows, clock, late, resets, asked>>
    BY <1>9 DEF ReadOrder, Step
  <2>2. PICK new \in OpenType : Move(c, new) /\ new.stage \notin Inserts
    <3>1. CASE Move(c, Idle)
      BY <3>1, IdleType, IdleFields DEF Inserts
    <3>2. ASSUME NEW t \in rows,
                 Move(c, [open[c] EXCEPT !.stage = "replacing", !.at = t.at, !.later = Later(t)])
          PROVE  \E new \in OpenType : Move(c, new) /\ new.stage \notin Inserts
      <4>1. PICK new : new = [open[c] EXCEPT !.stage = "replacing", !.at = t.at, !.later = Later(t)]
        OBVIOUS
      <4>2. t.at \in Nat /\ Later(t) \subseteq Roles \X Requests
        BY <1>0 DEF TypeOK, Rows, Later, IdOf
      <4>3. new \in OpenType /\ new.stage = "replacing"
        BY <1>0, <4>1, <4>2 DEF OpenType, Stages
      <4> QED BY <3>2, <4>1, <4>3 DEF Inserts
    <3> QED BY <1>9, <3>1, <3>2 DEF ReadOrder
  <2>3. /\ TimesInv(rows, open, late, clock)' /\ ResetsInv'
        /\ open' \in [Clients -> OpenType]
    BY <2>1, <2>2, TypesPassStep DEF Unreset
  <2> QED BY <1>0, <1>9, <2>3 DEF ReadOrder, TypeOK
<1>10. CASE ReplaceAndTruncate(c)
  BY <1>10, TypesReplaceStep
<1>11. CASE RelistRetained(c)
  <2>1. PICK new : new = [open[c] EXCEPT !.stage = "resetting", !.history = Retained(Listed)]
    OBVIOUS
  <2>2. PICK listed : listed = Listed
    OBVIOUS
  <2>3. listed \in Seq(Entries) /\ \A i \in 1..Len(listed) : listed[i].text \in Texts(rows)
    BY <1>0, <2>2, ListedSaid DEF TimesInv, TypeOK
  <2>4. Retained(listed) \in Seq(Entries)
    BY <2>3, PartsOfList
  <2>5. new \in OpenType /\ new.stage = "resetting"
    BY <1>0, <2>1, <2>2, <2>4 DEF OpenType, Stages
  <2>6. /\ Move(c, new) /\ UNCHANGED <<rows, clock, late, resets, asked>>
        /\ open[c].stage = "relisting"
    BY <1>11, <2>1 DEF RelistRetained, Step
  <2>7. /\ TimesInv(rows, open, late, clock)' /\ ResetsInv'
        /\ open' \in [Clients -> OpenType]
    BY <2>5, <2>6, TypesPassStep DEF Inserts, Unreset
  <2> QED BY <1>0, <1>11, <2>7 DEF RelistRetained, TypeOK
<1>12. CASE ResetContext(c)
  <2>1. PICK new : new = [open[c] EXCEPT !.stage = "forgetting", !.thread = mapped]
    OBVIOUS
  <2>2. new \in OpenType /\ new.stage = "forgetting"
    BY <1>0, <2>1 DEF OpenType, Stages, TypeOK
  <2>3. Move(c, new) /\ UNCHANGED <<rows, clock, late>>
    BY <1>12, <2>1 DEF ResetContext
  <2>4. TimesInv(rows, open, late, clock)' /\ open' \in [Clients -> OpenType]
    BY <1>0, <2>2, <2>3, TimesPassStep, TypesMoved DEF Inserts
  <2>5. ResetsInv' /\ resets' \in 0..MaxRequests /\ mapped' = resets'
    BY <1>12, ResetsResetStep DEF ResetContext, Remapped
  <2>6. TypeOK'
    BY <1>0, <1>12, <2>4, <2>5 DEF ResetContext, TypeOK
  <2> QED BY <2>4, <2>5, <2>6
<1>13. CASE ForgetThread(c)
  <2>1. PICK new : new = To(open[c], "resolving")
    OBVIOUS
  <2>2. new \in OpenType /\ new.stage = "resolving"
    BY <1>0, <2>1 DEF To, OpenType, Stages
  <2>3. Move(c, new) /\ UNCHANGED <<rows, clock, late, resets, asked>>
    BY <1>13, <2>1 DEF ForgetThread, AfterForgetting
  <2>4. /\ TimesInv(rows, open, late, clock)' /\ ResetsInv'
        /\ open' \in [Clients -> OpenType]
    BY <2>2, <2>3, TypesPassStep DEF Inserts, Unreset
  <2>5. threads' \in [0..MaxRequests -> Seq(Entries)]
    <3>1. <<>> \in Seq(Entries)
      OBVIOUS
    <3> QED BY <1>0, <1>13, <3>1 DEF ForgetThread, TypeOK
  <2> QED BY <1>0, <1>13, <2>4, <2>5 DEF ForgetThread, TypeOK
<1>14. CASE ResolveThread(c)
  <2>1. PICK new : new = [open[c] EXCEPT !.stage = "preparing", !.thread = mapped]
    OBVIOUS
  <2>2. new \in OpenType /\ new.stage = "preparing"
    BY <1>0, <2>1 DEF OpenType, Stages, TypeOK
  <2>3. Move(c, new) /\ UNCHANGED <<rows, clock, late, resets, asked>>
    BY <1>14, <2>1 DEF ResolveThread
  <2>4. /\ TimesInv(rows, open, late, clock)' /\ ResetsInv'
        /\ open' \in [Clients -> OpenType]
    BY <2>2, <2>3, TypesPassStep DEF Inserts, Unreset
  <2> QED BY <1>0, <1>14, <2>4 DEF ResolveThread, TypeOK
<1>15. CASE PrepareTurn(c)
  <2>1. PICK context : context = Append(IF threads[open[c].thread] = <<>>
                                        THEN Newest(open[c].history, HistoryTake)
                                        ELSE threads[open[c].thread], Question(open[c]))
    OBVIOUS
  <2>2. PICK new : new = [open[c] EXCEPT !.stage = "answering", !.context = context]
    OBVIOUS
  <2>3. /\ threads' = [threads EXCEPT ![open[c].thread] = context] /\ Move(c, new)
        /\ open[c].stage = "preparing" /\ UNCHANGED <<rows, clock, late, resets, asked>>
    BY <1>15, <2>1, <2>2 DEF PrepareTurn, Step
  <2>4. context \in Seq(Entries)
    <3>1. /\ Question(open[c]) \in Entries
          /\ Newest(open[c].history, HistoryTake) \in Seq(Entries)
      BY <2>3, TurnTypes
    <3>2. open[c].thread \in 0..MaxRequests => threads[open[c].thread] \in Seq(Entries)
      BY <1>0 DEF TypeOK
    <3>3. open[c].thread \in 0..MaxRequests
      BY <1>0 DEF OpenType
    <3> QED BY <2>1, <3>1, <3>2, <3>3
  <2>5. new \in OpenType /\ new.stage = "answering"
    BY <1>0, <2>2, <2>4 DEF OpenType, Stages
  <2>6. /\ TimesInv(rows, open, late, clock)' /\ ResetsInv'
        /\ open' \in [Clients -> OpenType]
    BY <2>3, <2>5, TypesPassStep DEF Inserts, Unreset
  <2>7. threads' \in [0..MaxRequests -> Seq(Entries)]
    BY <1>0, <2>3, <2>4 DEF TypeOK
  <2> QED BY <1>0, <1>15, <2>6, <2>7 DEF PrepareTurn, TypeOK
<1>16. CASE FinishTurn(c)
  <2>1. PICK said : said = Append(open[c].context, Answer(open[c]))
    OBVIOUS
  <2>2. PICK went : went = To(open[c], "answer_check")
    OBVIOUS
  <2>3. went \in OpenType /\ went.stage = "answer_check"
    BY <1>0, <2>2 DEF To, OpenType, Stages
  <2>4. PICK new \in OpenType : Move(c, new) /\ new.stage \notin Inserts /\ new.stage \notin Unreset
    BY <1>16, <2>2, <2>3, IdleType, IdleFields DEF FinishTurn, Inserts, Unreset
  <2>5. /\ threads' = [threads EXCEPT ![open[c].thread] = said]
        /\ open[c].stage = "answering" /\ UNCHANGED <<rows, clock, late, resets, asked>>
    BY <1>16, <2>1 DEF FinishTurn, Step
  <2>6. /\ TimesInv(rows, open, late, clock)' /\ ResetsInv'
        /\ open' \in [Clients -> OpenType]
    BY <2>4, <2>5, TypesPassStep
  <2>7. threads' \in [0..MaxRequests -> Seq(Entries)]
    <3>1. said \in Seq(Entries)
      BY <2>1, <2>5, TurnTypes
    <3> QED BY <1>0, <2>5, <3>1 DEF TypeOK
  <2> QED BY <1>0, <1>16, <2>6, <2>7 DEF FinishTurn, TypeOK
<1>17. CASE FailTurn(c) \/ FailBeforeReset(c)
  <2>1. Move(c, Idle) /\ UNCHANGED <<rows, clock, late, resets, asked>>
    BY <1>17 DEF FailTurn, FailBeforeReset
  <2>2. /\ TimesInv(rows, open, late, clock)' /\ ResetsInv'
        /\ open' \in [Clients -> OpenType]
    BY <2>1, IdleType, IdleFields, TypesPassStep DEF Inserts, Unreset
  <2>3. stops' \in 0..MaxStops /\ orderly' \in BOOLEAN
    <3>1. stops \in 0..MaxStops /\ orderly \in BOOLEAN /\ MaxStops \in Nat
      BY <1>0, BoundsAssumption DEF TypeOK
    <3>2. CASE FailTurn(c)
      BY <3>1, <3>2 DEF FailTurn
    <3>3. CASE FailBeforeReset(c)
      <4>1. stops < MaxStops /\ stops' = stops + 1
        BY <3>3 DEF FailBeforeReset
      <4>2. stops' \in 0..MaxStops
        BY <3>1, <4>1
      <4>3. orderly' = FALSE
        BY <3>3 DEF FailBeforeReset
      <4> QED BY <4>2, <4>3
    <3> QED BY <1>17, <3>2, <3>3
  <2> QED BY <1>0, <1>17, <2>2, <2>3 DEF FailTurn, FailBeforeReset, TypeOK
<1>18. CASE StopStream(c)
  <2>1. TimesInv(rows, open, late, clock)'
    BY <1>0, <1>18, TimesStopStep
  <2>2. Move(c, Idle) /\ resets' = resets /\ asked' = asked
    BY <1>18 DEF StopStream
  <2>3. ResetsInv' /\ open' \in [Clients -> OpenType]
    BY <1>0, <2>2, IdleType, IdleFields, ResetsMoved, TypesMoved DEF Unreset
  <2>4. late' \subseteq OpenType
    BY <1>0, <1>18 DEF StopStream, TypeOK
  <2> QED BY <1>0, <1>18, <2>1, <2>3, <2>4, BoundsAssumption DEF StopStream, TypeOK
<1> QED
  BY <1>target, <1>1, <1>2, <1>3, <1>4, <1>5, <1>6, <1>7, <1>8, <1>9, <1>10, <1>11, <1>12, <1>13, <1>14,
     <1>15, <1>16, <1>17, <1>18
  DEF Handle

\* And so does every step of the session.
LEMMA TypesStep == TypeInv /\ [Next]_vars => TypeInv'
<1> SUFFICES ASSUME TypeInv, [Next]_vars PROVE TypeInv'
  OBVIOUS
<1>1. HistoryInv'
  BY HistoryStep DEF TypeInv
<1>2. ASSUME NEW c \in Clients, Handle(c)
      PROVE  (TimesInv(rows, open, late, clock) /\ ResetsInv /\ TypeOK)'
  BY <1>2, TypesHandleStep
<1>3. CASE UNCHANGED vars
  <2>1. UNCHANGED <<exists, rows, clock, mapped, threads, open, late, discarded, orderly, asked, stops, resets>>
    BY <1>3 DEF vars
  <2>2. ToReset' = ToReset
    BY <2>1 DEF ToReset
  <2> QED BY <1>1, <2>1, <2>2 DEF TypeInv, ResetsInv, TypeOK
<1> QED BY <1>1, <1>2, <1>3, TypesLateStep DEF Next, TypeInv

\* A session starts well typed.
LEMMA TypesInit == Init => TypeInv
<1> SUFFICES ASSUME Init PROVE TypeInv
  OBVIOUS
<1>1. /\ rows = {} /\ clock = 0 /\ late = {} /\ asked = 0 /\ resets = 0
      /\ open = [c \in Clients |-> Idle]
  BY DEF Init
<1>2. TypeOK
  <2>1. threads \in [0..MaxRequests -> Seq(Entries)]
    BY DEF Init
  <2>2. open \in [Clients -> OpenType]
    BY <1>1, IdleType
  <2> QED BY <1>1, <2>1, <2>2, BoundsAssumption DEF Init, TypeOK
<1>3. TimesInv(rows, open, late, clock)
  <2>1. Ordered(rows)
    BY <1>1, FS_EmptySet DEF Ordered
  <2> QED BY <1>1, <2>1, IdleFields DEF TimesInv, Stamped, Apart, Inserts
<1>4. ResetsInv
  <2>1. ToReset = {}
    BY <1>1, IdleFields DEF ToReset, Unreset
  <2> QED BY <1>1, <2>1, FS_EmptySet DEF ResetsInv
<1> QED BY <1>2, <1>3, <1>4, HistoryInit DEF TypeInv

\* In any reachable state the rows are ordered by the times they got.
LEMMA TypesInvariant == Spec => []TypeInv
BY TypesInit, TypesStep, PTL DEF Spec

\* Every reachable state of the session is well typed: the ids, texts and times of the rows, what
\* each stage of a request holds, and no more resets than requests.
THEOREM TypeCorrect == Spec => []TypeOK
<1>1. TypeInv => TypeOK
  BY DEF TypeInv
<1> QED BY <1>1, TypesInvariant, PTL

-----------------------------------------------------------------------------
(* While requests come one after another. *)

QuestionOf(q, req) == q.role = "user" /\ q.text = req.text

\* The question of the request is on display, and nothing came after it.
QuestionLast(req, set) == \E q \in set : QuestionOf(q, req) /\ \A s \in set : s.at <= q.at

\* The stages of a turn, and those at which a request's question is on display.
Turn == {"resolving", "preparing", "answering"}
Shown == Turn \cup {"relisting", "resetting", "forgetting", "answer_check", "answer_insert"}

\* What a request knows of the display is true, because nobody else changes it.
Display(req, set) ==
    /\ req.kind = "retrieve" => req.stage \in Turn
    /\ req.kind # "retrieve" /\ req.stage \in Shown => QuestionLast(req, set)
    /\ req.stage \in Inserts => \A r \in set : r.at < req.at
    /\ req.stage = "replacing" =>
          \E t \in set : /\ IdOf(t) = <<"user", req.edited>> /\ t.at = req.at
                         /\ req.later = {IdOf(r) : r \in {q \in set : q.at > t.at}}

\* Every answer has its question, and no row between the two.
AnswersBelow(set) ==
    \A r \in set :
        r.role = "assistant" =>
            \E q \in set :
                /\ q.role = "user" /\ q.text = r.text /\ q.at < r.at
                /\ \A s \in set : ~(q.at < s.at /\ s.at < r.at)

Alone(c) == \A d \in Clients : d # c => open[d] = Idle

\* Nothing outlives its request, and no two requests run at a time.
OneRequest ==
    /\ late = {}
    /\ \A c \in Clients : open[c] # Idle => exists /\ Alone(c)

\* While requests come one after another, what they know of the display is true.
DisplayInv ==
    orderly => OneRequest /\ AnswersBelow(rows) /\ \A c \in Clients : Display(open[c], rows)

\* Nothing is asked of a client without a request.
LEMMA IdleDisplay == \A set : Display(Idle, set)
BY DEF Display, Idle, Turn, Shown, Inserts

\* Every step of a client's request, but for the deletion of the session, moves that request.
LEMMA HandleMoves ==
    ASSUME TypeInv, NEW c \in Clients, Handle(c)
    PROVE  /\ \A d \in Clients : d # c => open'[d] = open[d]
           /\ exists' = exists \/ DeleteSession(c)
           /\ orderly' => orderly
<1>1. \/ open' = open
      \/ \E new : open' = [open EXCEPT ![c] = new]
  BY DEF Handle, Send, Edit, Retrieve, Begin, DeleteSession, ListHistory, CheckBeforeQuestion,
     CheckBeforeAnswer, CheckSession, InsertQuestion, InsertAnswer, InsertMessage, FindTarget, ReadOrder,
     ReplaceAndTruncate, RelistRetained, ResetContext, ForgetThread, ResolveThread, PrepareTurn,
     FinishTurn, FailTurn, StopStream, FailBeforeReset, Move
<1>2. \A d \in Clients : d # c => open'[d] = open[d]
  BY <1>1 DEF TypeInv, TypeOK
<1>3. exists' = exists \/ DeleteSession(c)
  BY DEF Handle, Send, Edit, Retrieve, Begin, ListHistory, CheckBeforeQuestion,
     CheckBeforeAnswer, CheckSession, InsertQuestion, InsertAnswer, InsertMessage, FindTarget, ReadOrder,
     ReplaceAndTruncate, RelistRetained, ResetContext, ForgetThread, ResolveThread, PrepareTurn,
     FinishTurn, FailTurn, StopStream, FailBeforeReset
<1>4. orderly' => orderly
  BY DEF Handle, Send, Edit, Retrieve, Begin, DeleteSession, ListHistory, CheckBeforeQuestion,
     CheckBeforeAnswer, CheckSession, InsertQuestion, InsertAnswer, InsertMessage, FindTarget, ReadOrder,
     ReplaceAndTruncate, RelistRetained, ResetContext, ForgetThread, ResolveThread, PrepareTurn,
     FinishTurn, FailTurn, StopStream, FailBeforeReset
<1> QED BY <1>2, <1>3, <1>4

\* While requests come one after another, a request that takes a step is the only one.
LEMMA StepsAlone ==
    ASSUME TypeInv, DisplayInv, NEW c \in Clients, Handle(c), orderly'
    PROVE  /\ orderly /\ late = {} /\ late' = {}
           /\ Alone(c) /\ \A d \in Clients : d # c => open'[d] = Idle
           /\ open[c] # Idle => exists
<1>1. orderly /\ OneRequest
  BY HandleMoves DEF DisplayInv
<1>2. ASSUME open[c] = Idle PROVE Alone(c)
  <2>1. \A d \in Clients : open[d] = Idle
    <3>1. Send(c) \/ Edit(c) \/ Retrieve(c) \/ DeleteSession(c)
      BY <1>2, IdleFields
      DEF Handle, ListHistory, CheckBeforeQuestion,
          CheckBeforeAnswer, CheckSession, InsertQuestion, InsertAnswer, InsertMessage, FindTarget, ReadOrder,
          ReplaceAndTruncate, RelistRetained, ResetContext, ForgetThread, ResolveThread, PrepareTurn,
          FinishTurn, FailTurn, StopStream, FailBeforeReset, Step
    <3> QED BY <3>1 DEF Send, Edit, Retrieve, Begin, DeleteSession
  <2> QED BY <2>1 DEF Alone
<1>3. Alone(c)
  BY <1>1, <1>2 DEF OneRequest
<1>4. late' = {}
  BY <1>1
  DEF OneRequest, Handle, Send, Edit, Retrieve, Begin, DeleteSession, ListHistory, CheckBeforeQuestion,
      CheckBeforeAnswer, CheckSession, InsertQuestion, InsertAnswer, InsertMessage, FindTarget, ReadOrder,
      ReplaceAndTruncate, RelistRetained, ResetContext, ForgetThread, ResolveThread, PrepareTurn,
      FinishTurn, FailTurn, StopStream, FailBeforeReset
<1> QED BY <1>1, <1>3, <1>4, HandleMoves DEF OneRequest, Alone

\* A request that gets on with what it knows.
LEMMA DisplayMoved ==
    ASSUME NEW set, NEW req, NEW new, Display(req, set),
           new.kind = req.kind, new.text = req.text,
           new.stage \notin Inserts, new.stage # "replacing",
           new.kind = "retrieve" => new.stage \in Turn,
           new.kind # "retrieve" /\ new.stage \in Shown => req.stage \in Shown
    PROVE  Display(new, set)
BY DEF Display, QuestionLast, QuestionOf

\* The question is brought on display, below everything else.
LEMMA DisplayQuestion ==
    ASSUME TypeInv, NEW c \in Clients, InsertQuestion(c), Display(open[c], rows), AnswersBelow(rows)
    PROVE  AnswersBelow(rows') /\ Display(open'[c], rows')
<1>1. open[c] \in OpenType /\ open[c].stage = "user_insert"
  BY DEF TypeInv, TypeOK, InsertQuestion, InsertMessage, Step
<1>2. PICK new : new = To(open[c], "resolving")
  OBVIOUS
<1>3. PICK row : row = RowOf(open[c], "user")
  OBVIOUS
<1>4. open'[c] = new /\ rows' = rows \cup {row}
  BY <1>2, <1>3 DEF InsertQuestion, InsertMessage, Move, TypeInv, TypeOK
<1>5. new.stage = "resolving" /\ new.kind = open[c].kind /\ new.text = open[c].text
  BY <1>1, <1>2 DEF To, OpenType
<1>6. row.role = "user" /\ row.text = open[c].text /\ row.at = open[c].at /\ row.at \in Nat
  BY <1>1, <1>3 DEF RowOf, OpenType
<1>7. \A r \in rows : r.at \in Nat /\ r.at < row.at
  BY <1>1, <1>6 DEF Display, Inserts, TypeInv, TypeOK, Rows
<1>8. open[c].kind # "retrieve"
  BY <1>1 DEF Display, Turn
<1>9. QuestionLast(new, rows')
  <2>1. row \in rows' /\ QuestionOf(row, new) /\ \A s \in rows' : s.at <= row.at
    BY <1>4, <1>5, <1>6, <1>7 DEF QuestionOf
  <2> QED BY <2>1 DEF QuestionLast
<1>10. Display(new, rows')
  BY <1>5, <1>8, <1>9 DEF Display, Inserts
<1>11. AnswersBelow(rows')
  <2> SUFFICES ASSUME NEW r \in rows', r.role = "assistant"
               PROVE  \E q \in rows' : /\ q.role = "user" /\ q.text = r.text /\ q.at < r.at
                                       /\ \A s \in rows' : ~(q.at < s.at /\ s.at < r.at)
    BY DEF AnswersBelow
  <2>1. r \in rows
    BY <1>4, <1>6
  <2>2. PICK q \in rows : /\ q.role = "user" /\ q.text = r.text /\ q.at < r.at
                          /\ \A s \in rows : ~(q.at < s.at /\ s.at < r.at)
    BY <2>1 DEF AnswersBelow
  <2>3. ~(row.at < r.at)
    BY <1>6, <1>7, <2>1
  <2> QED BY <1>4, <2>2, <2>3
<1> QED BY <1>4, <1>10, <1>11

\* The answer is brought on display, directly below its question.
LEMMA DisplayAnswer ==
    ASSUME TypeInv, NEW c \in Clients, InsertAnswer(c), Display(open[c], rows), AnswersBelow(rows)
    PROVE  AnswersBelow(rows') /\ Display(open'[c], rows')
<1>1. open[c] \in OpenType /\ open[c].stage = "answer_insert"
  BY DEF TypeInv, TypeOK, InsertAnswer, InsertMessage, Step
<1>2. PICK row : row = RowOf(open[c], "assistant")
  OBVIOUS
<1>3. open'[c] = Idle /\ rows' = rows \cup {row}
  BY <1>2 DEF InsertAnswer, InsertMessage, Move, TypeInv, TypeOK
<1>4. row.role = "assistant" /\ row.text = open[c].text /\ row.at = open[c].at /\ row.at \in Nat
  BY <1>1, <1>2 DEF RowOf, OpenType
<1>5. \A r \in rows : r.at \in Nat /\ r.at < row.at
  BY <1>1, <1>4 DEF Display, Inserts, TypeInv, TypeOK, Rows
<1>6. PICK last \in rows : QuestionOf(last, open[c]) /\ \A s \in rows : s.at <= last.at
  BY <1>1 DEF Display, Turn, Shown, QuestionLast
<1>7. AnswersBelow(rows')
  <2> SUFFICES ASSUME NEW r \in rows', r.role = "assistant"
               PROVE  \E q \in rows' : /\ q.role = "user" /\ q.text = r.text /\ q.at < r.at
                                       /\ \A s \in rows' : ~(q.at < s.at /\ s.at < r.at)
    BY DEF AnswersBelow
  <2>1. CASE r \in rows
    <3>1. PICK q \in rows : /\ q.role = "user" /\ q.text = r.text /\ q.at < r.at
                            /\ \A s \in rows : ~(q.at < s.at /\ s.at < r.at)
      BY <2>1 DEF AnswersBelow
    <3>2. ~(row.at < r.at)
      BY <1>4, <1>5, <2>1
    <3> QED BY <1>3, <3>1, <3>2
  <2>2. CASE r = row
    <3>1. last \in rows' /\ last.role = "user" /\ last.text = r.text /\ last.at < r.at
      BY <1>3, <1>4, <1>5, <1>6, <2>2 DEF QuestionOf
    <3>2. \A s \in rows' : ~(last.at < s.at /\ s.at < r.at)
      BY <1>3, <1>4, <1>5, <1>6, <2>2
    <3> QED BY <3>1, <3>2
  <2> QED BY <1>3, <2>1, <2>2
<1> QED BY <1>3, <1>7, IdleDisplay

\* What an edit leaves: its question under the new text last, and answers below theirs.
LEMMA DisplayReplace ==
    ASSUME TypeInv, NEW c \in Clients, ReplaceAndTruncate(c), exists,
           Display(open[c], rows), AnswersBelow(rows)
    PROVE  /\ AnswersBelow(rows') /\ Display(open'[c], rows')
           /\ \A s \in rows' : s.text = open[c].text \/ s.text \in Texts(rows)
           /\ open[c].text \in Texts(rows')
<1>1. /\ open[c] \in OpenType /\ open[c].stage = "replacing" /\ HistoryInv
      /\ TimesInv(rows, open, late, clock) /\ rows \subseteq Rows
  BY DEF TypeInv, TypeOK, ReplaceAndTruncate, Step
<1>2. PICK new : new = To(open[c], "relisting")
  OBVIOUS
<1>3. PICK kept : kept = Kept(open[c])
  OBVIOUS
<1>4. open'[c] = new /\ rows' = Rewritten(open[c], kept)
  BY <1>2, <1>3 DEF ReplaceAndTruncate, Move, TypeInv, TypeOK
<1>5. new.stage = "relisting" /\ new.kind = open[c].kind /\ new.text = open[c].text
  BY <1>1, <1>2 DEF To, OpenType
<1>6. PICK t \in rows : /\ IdOf(t) = <<"user", open[c].edited>> /\ t.at = open[c].at
                        /\ open[c].later = {IdOf(r) : r \in {q \in rows : q.at > t.at}}
  BY <1>1 DEF Display
<1>7. \A r, s \in rows : (IdOf(r) = IdOf(s) => r = s) /\ (r.at = s.at => r = s) /\ r.at \in Nat
  BY <1>1 DEF HistoryInv, Inv, RowsInv, TimesInv, Ordered
<1>8. \A r \in rows : r \in kept <=> r.at <= t.at
  <2>1. \A r \in rows : IdOf(r) \in open[c].later <=> r.at > t.at
    BY <1>6, <1>7
  <2> QED BY <1>3, <1>7, <2>1 DEF Kept
<1>9. \A s \in rows' : \E r \in kept : Rewords(s, r, open[c].edited, open[c].text)
  BY <1>1, <1>3, <1>4, RewrittenRows
<1>10. \A r \in kept : \E s \in rows' : Rewords(s, r, open[c].edited, open[c].text)
  BY <1>1, <1>3, <1>4, RewrittenRows
<1>11. kept \subseteq rows
  BY <1>3 DEF Kept
<1>12. PICK question \in rows' : Rewords(question, t, open[c].edited, open[c].text)
  BY <1>7, <1>8, <1>10
<1>13. question.role = "user" /\ question.text = open[c].text /\ question.at = t.at
  BY <1>6, <1>12 DEF Rewords, IdOf
<1>14. \A s \in rows' : s.at <= question.at
  BY <1>8, <1>9, <1>11, <1>13 DEF Rewords
<1>15. \A r \in kept : r # t => r \in rows' /\ IdOf(r) # <<"user", open[c].edited>>
  <2> SUFFICES ASSUME NEW r \in kept, r # t
               PROVE  r \in rows' /\ IdOf(r) # <<"user", open[c].edited>>
    OBVIOUS
  <2>1. IdOf(r) # <<"user", open[c].edited>>
    BY <1>6, <1>7, <1>11
  <2>2. PICK s \in rows' : Rewords(s, r, open[c].edited, open[c].text)
    BY <1>10
  <2> QED BY <2>1, <2>2 DEF Rewords
<1>16. \A s \in rows' : s \in kept \/ (s.text = open[c].text /\ s.role = "user")
  <2> SUFFICES ASSUME NEW s \in rows'
               PROVE  s \in kept \/ (s.text = open[c].text /\ s.role = "user")
    OBVIOUS
  <2>1. PICK r \in kept : Rewords(s, r, open[c].edited, open[c].text)
    BY <1>9
  <2> QED BY <2>1 DEF Rewords, IdOf
<1>17. AnswersBelow(rows')
  <2> SUFFICES ASSUME NEW r \in rows', r.role = "assistant"
               PROVE  \E q \in rows' : /\ q.role = "user" /\ q.text = r.text /\ q.at < r.at
                                       /\ \A s \in rows' : ~(q.at < s.at /\ s.at < r.at)
    BY DEF AnswersBelow
  <2>1. r \in kept /\ r \in rows
    BY <1>11, <1>16
  <2>2. PICK q \in rows : /\ q.role = "user" /\ q.text = r.text /\ q.at < r.at
                          /\ \A s \in rows : ~(q.at < s.at /\ s.at < r.at)
    BY <2>1 DEF AnswersBelow
  <2>3. q.at < t.at /\ q \in kept
    BY <1>7, <1>8, <2>1, <2>2
  <2>4. q \in rows'
    BY <1>7, <1>15, <2>3
  <2>5. \A s \in rows' : \E p \in rows : p.at = s.at
    BY <1>9, <1>11 DEF Rewords
  <2>6. \A s \in rows' : ~(q.at < s.at /\ s.at < r.at)
    BY <2>2, <2>5
  <2> QED BY <2>2, <2>4, <2>6
<1>18. QuestionLast(new, rows')
  BY <1>5, <1>13, <1>14 DEF QuestionLast, QuestionOf
<1>19. Display(new, rows')
  <2>1. new.kind # "retrieve"
    BY <1>1, <1>5 DEF Display, Turn
  <2> QED BY <1>5, <1>18, <2>1 DEF Display, Inserts
<1>20. \A s \in rows' : s.text = open[c].text \/ s.text \in Texts(rows)
  BY <1>11, <1>16 DEF Texts
<1> QED BY <1>4, <1>13, <1>17, <1>19, <1>20 DEF Texts

\* While requests come one after another, every step of one keeps the display in order.
LEMMA DisplayHandleStep ==
    ASSUME TypeInv, DisplayInv, NEW c \in Clients, Handle(c), orderly'
    PROVE  AnswersBelow(rows') /\ Display(open'[c], rows') /\ (open'[c] = Idle \/ exists')
<1>0. /\ AnswersBelow(rows) /\ Display(open[c], rows) /\ open[c] \in OpenType
      /\ open \in [Clients -> OpenType] /\ \A r \in rows : r.at \in Nat /\ r.at <= clock
      /\ open[c] # Idle => exists
  BY StepsAlone DEF DisplayInv, TypeInv, TypeOK, TimesInv, Ordered
<1>1. CASE Send(c) \/ Retrieve(c) \/ Edit(c)
  <2>1. PICK req, n : /\ Begin(c, req) /\ req.stage \in {"listing", "resolving", "target"}
                      /\ req.stage = "resolving" => req.kind = "retrieve"
                      /\ req.stage # "resolving" => req.kind # "retrieve"
                      /\ n = [req EXCEPT !.text = asked + 1] /\ n.stage = req.stage /\ n.kind = req.kind
    <3>1. CASE Send(c)
      <4>1. PICK req : req = [Idle EXCEPT !.stage = "listing"]
        OBVIOUS
      <4>2. PICK n : n = [req EXCEPT !.text = asked + 1]
        OBVIOUS
      <4>3. req.stage = "listing" /\ req.kind = "send" /\ n.stage = "listing" /\ n.kind = "send"
        BY <4>1, <4>2 DEF Idle
      <4> QED BY <3>1, <4>1, <4>2, <4>3 DEF Send
    <3>2. CASE Retrieve(c)
      <4>1. PICK req : req = [Idle EXCEPT !.kind = "retrieve", !.stage = "resolving"]
        OBVIOUS
      <4>2. PICK n : n = [req EXCEPT !.text = asked + 1]
        OBVIOUS
      <4>3. /\ req.stage = "resolving" /\ req.kind = "retrieve"
            /\ n.stage = "resolving" /\ n.kind = "retrieve"
        BY <4>1, <4>2 DEF Idle
      <4> QED BY <3>2, <4>1, <4>2, <4>3 DEF Retrieve
    <3>3. CASE Edit(c)
      <4>0. PICK q : Begin(c, [Idle EXCEPT !.kind = "edit", !.stage = "target", !.edited = q])
        BY <3>3 DEF Edit
      <4>1. PICK req : req = [Idle EXCEPT !.kind = "edit", !.stage = "target", !.edited = q]
        OBVIOUS
      <4>2. PICK n : n = [req EXCEPT !.text = asked + 1]
        OBVIOUS
      <4>3. req.stage = "target" /\ req.kind = "edit" /\ n.stage = "target" /\ n.kind = "edit"
        BY <4>1, <4>2 DEF Idle
      <4> QED BY <4>0, <4>1, <4>2, <4>3
    <3> QED BY <1>1, <3>1, <3>2, <3>3
  <2>2. open'[c] = n /\ rows' = rows /\ exists'
    BY <1>0, <2>1 DEF Begin, Move
  <2>3. Display(n, rows)
    BY <2>1 DEF Display, Turn, Shown, Inserts
  <2> QED BY <1>0, <2>2, <2>3
<1>2. CASE DeleteSession(c)
  <2>1. rows' = {} /\ open'[c] = Idle
    BY <1>2 DEF DeleteSession
  <2> QED BY <2>1, IdleDisplay DEF AnswersBelow
<1>3. CASE CheckBeforeQuestion(c) \/ CheckBeforeAnswer(c)
  <2>1. PICK next : /\ CheckSession(c, open[c].stage, next)
                    /\ \/ open[c].stage = "user_check" /\ next = "user_insert"
                       \/ open[c].stage = "answer_check" /\ next = "answer_insert"
    BY <1>3 DEF CheckBeforeQuestion, CheckBeforeAnswer, CheckSession, Step
  <2>2. PICK went : went = [open[c] EXCEPT !.stage = next, !.at = clock + 1]
    OBVIOUS
  <2>3. went.stage = next /\ went.at = clock + 1 /\ went.kind = open[c].kind /\ went.text = open[c].text
    BY <1>0, <2>2 DEF OpenType
  <2>4. rows' = rows /\ exists' = exists /\ open'[c] = IF exists THEN went ELSE Idle
    BY <1>0, <2>1, <2>2 DEF CheckSession, Move
  <2>5. Display(went, rows)
    <3>1. went.kind # "retrieve"
      BY <1>0, <2>1, <2>3 DEF Display, Turn
    <3>2. went.stage \in Shown => QuestionLast(went, rows)
      BY <1>0, <2>1, <2>3 DEF Display, Turn, Shown, QuestionLast, QuestionOf
    <3>3. clock \in Nat /\ \A r \in rows : r.at < went.at
      BY <1>0, <2>3 DEF TypeInv, TypeOK
    <3> QED BY <2>1, <2>3, <3>1, <3>2, <3>3 DEF Display
  <2> QED BY <1>0, <2>4, <2>5, IdleDisplay
<1>4. CASE InsertQuestion(c)
  <2>1. open[c] # Idle /\ exists' = exists
    BY <1>4, IdleFields DEF InsertQuestion, InsertMessage, Step
  <2> QED BY <1>0, <1>4, <2>1, DisplayQuestion
<1>5. CASE InsertAnswer(c)
  <2>1. open'[c] = Idle
    BY <1>0, <1>5 DEF InsertAnswer, InsertMessage, Move
  <2> QED BY <1>0, <1>5, <2>1, DisplayAnswer
<1>6. CASE ReadOrder(c)
  <2>1. open[c].stage = "ordering" /\ rows' = rows /\ exists' = exists
    BY <1>6 DEF ReadOrder, Step
  <2>2. ASSUME Move(c, Idle) PROVE Display(open'[c], rows)
    <3>1. open'[c] = Idle
      BY <1>0, <2>2 DEF Move
    <3> QED BY <3>1, IdleDisplay
  <2>3. ASSUME NEW t \in rows, IdOf(t) = <<"user", open[c].edited>>,
               Move(c, [open[c] EXCEPT !.stage = "replacing", !.at = t.at, !.later = Later(t)])
        PROVE  Display(open'[c], rows)
    <3>1. PICK new : new = [open[c] EXCEPT !.stage = "replacing", !.at = t.at, !.later = Later(t)]
      OBVIOUS
    <3>2. /\ new.stage = "replacing" /\ new.at = t.at /\ new.later = Later(t)
          /\ new.kind = open[c].kind /\ new.edited = open[c].edited
      BY <1>0, <3>1 DEF OpenType
    <3>3. open'[c] = new
      BY <1>0, <2>3, <3>1 DEF Move
    <3>4. new.kind # "retrieve"
      BY <1>0, <2>1, <3>2 DEF Display, Turn
    <3> QED BY <2>3, <3>2, <3>3, <3>4 DEF Display, Shown, Turn, Inserts, Later
  <2>4. open[c] # Idle
    BY <2>1, IdleFields
  <2>5. \/ Move(c, Idle)
        \/ \E t \in rows :
              /\ IdOf(t) = <<"user", open[c].edited>>
              /\ Move(c, [open[c] EXCEPT !.stage = "replacing", !.at = t.at, !.later = Later(t)])
    BY <1>6 DEF ReadOrder
  <2>6. Display(open'[c], rows)
    BY <2>2, <2>3, <2>5
  <2> QED BY <1>0, <2>1, <2>4, <2>6
<1>7. CASE ReplaceAndTruncate(c)
  <2>1. open[c] # Idle /\ exists' = exists
    BY <1>7, IdleFields DEF ReplaceAndTruncate, Step
  <2> QED BY <1>0, <1>7, <2>1, DisplayReplace
<1>8. ASSUME NEW new, Move(c, new), rows' = rows, exists' = exists, open[c].stage # "idle",
             \/ new = Idle
             \/ /\ new.kind = open[c].kind /\ new.text = open[c].text
                /\ new.stage \notin Inserts /\ new.stage # "replacing"
                /\ new.kind = "retrieve" => new.stage \in Turn
                /\ new.kind # "retrieve" /\ new.stage \in Shown => open[c].stage \in Shown
      PROVE  AnswersBelow(rows') /\ Display(open'[c], rows') /\ (open'[c] = Idle \/ exists')
  <2>1. open'[c] = new
    BY <1>0, <1>8 DEF Move
  <2>2. Display(new, rows)
    BY <1>0, <1>8, IdleDisplay, DisplayMoved
  <2> QED BY <1>0, <1>8, <2>1, <2>2, IdleFields
<1>target. CASE FindTarget(c)
  <2>1. PICK found : found = To(open[c], "ordering")
    OBVIOUS
  <2>2. found.kind = open[c].kind /\ found.text = open[c].text /\ found.stage = "ordering"
    BY <1>0, <2>1 DEF To, OpenType
  <2>3. PICK new : /\ new = Idle \/ new = found
                   /\ Move(c, new) /\ rows' = rows /\ exists' = exists /\ open[c].stage = "target"
    BY <1>target, <2>1 DEF FindTarget, Step
  <2>4. open[c].kind # "retrieve"
    BY <1>0, <2>3 DEF Display, Turn
  <2> QED BY <1>8, <2>2, <2>3, <2>4 DEF Turn, Shown, Inserts
<1>9. CASE ListHistory(c) \/ RelistRetained(c)
  <2>1. PICK new, stage, history :
            /\ new = [open[c] EXCEPT !.stage = stage, !.history = history]
            /\ Move(c, new) /\ rows' = rows /\ exists' = exists
            /\ \/ open[c].stage = "listing" /\ stage = "user_check"
               \/ open[c].stage = "relisting" /\ stage = "resetting"
    BY <1>9 DEF ListHistory, RelistRetained, Step
  <2>2. new.kind = open[c].kind /\ new.text = open[c].text /\ new.stage = stage
    BY <1>0, <2>1 DEF OpenType
  <2>3. new.kind # "retrieve"
    BY <1>0, <2>1, <2>2 DEF Display, Turn
  <2> QED BY <1>8, <2>1, <2>2, <2>3 DEF Turn, Shown, Inserts
<1>10. CASE ResetContext(c) \/ ResolveThread(c)
  <2>1. PICK new, stage :
            /\ new = [open[c] EXCEPT !.stage = stage, !.thread = mapped]
            /\ Move(c, new) /\ rows' = rows /\ exists' = exists
            /\ \/ open[c].stage = "resetting" /\ stage = "forgetting"
               \/ open[c].stage = "resolving" /\ stage = "preparing"
    BY <1>10 DEF ResetContext, ResolveThread, Step
  <2>2. new.kind = open[c].kind /\ new.text = open[c].text /\ new.stage = stage
    BY <1>0, <2>1 DEF OpenType
  <2>3. new.kind = "retrieve" => new.stage \in Turn
    BY <1>0, <2>1, <2>2 DEF Display, Turn
  <2> QED BY <1>8, <2>1, <2>2, <2>3 DEF Turn, Shown, Inserts
<1>11. CASE ForgetThread(c)
  <2>1. PICK new : new = To(open[c], "resolving")
    OBVIOUS
  <2>2. new.kind = open[c].kind /\ new.text = open[c].text /\ new.stage = "resolving"
    BY <1>0, <2>1 DEF To, OpenType
  <2>3. Move(c, new) /\ rows' = rows /\ exists' = exists /\ open[c].stage = "forgetting"
    BY <1>11, <2>1 DEF ForgetThread, AfterForgetting, Step
  <2> QED BY <1>8, <2>2, <2>3 DEF Turn, Shown, Inserts
<1>12. CASE PrepareTurn(c)
  <2>1. PICK new, context :
            /\ new = [open[c] EXCEPT !.stage = "answering", !.context = context]
            /\ Move(c, new) /\ rows' = rows /\ exists' = exists /\ open[c].stage = "preparing"
    BY <1>12 DEF PrepareTurn, Step
  <2>2. new.kind = open[c].kind /\ new.text = open[c].text /\ new.stage = "answering"
    BY <1>0, <2>1 DEF OpenType
  <2> QED BY <1>8, <2>1, <2>2 DEF Turn, Shown, Inserts
<1>13. CASE FinishTurn(c)
  <2>1. PICK went : went = To(open[c], "answer_check")
    OBVIOUS
  <2>2. went.kind = open[c].kind /\ went.text = open[c].text /\ went.stage = "answer_check"
    BY <1>0, <2>1 DEF To, OpenType
  <2>3. PICK new : /\ Move(c, new) /\ rows' = rows /\ exists' = exists
                   /\ open[c].stage = "answering"
                   /\ new = IF open[c].kind = "retrieve" THEN Idle ELSE went
    BY <1>13, <2>1 DEF FinishTurn, Step
  <2> QED BY <1>8, <2>2, <2>3 DEF Turn, Shown, Inserts
<1>14. CASE FailTurn(c) \/ FailBeforeReset(c) \/ StopStream(c)
  <2>1. Move(c, Idle) /\ rows' = rows /\ exists' = exists /\ open[c].stage # "idle"
    BY <1>14 DEF FailTurn, FailBeforeReset, StopStream, Step
  <2> QED BY <1>8, <2>1
<1> QED
  BY <1>target, <1>1, <1>2, <1>3, <1>4, <1>5, <1>6, <1>7, <1>9, <1>10, <1>11, <1>12, <1>13, <1>14
  DEF Handle

\* And so does every step of the session.
LEMMA DisplayStep == TypeInv /\ DisplayInv /\ [Next]_vars => DisplayInv'
<1> SUFFICES ASSUME TypeInv, DisplayInv, [Next]_vars, orderly'
             PROVE  (OneRequest /\ AnswersBelow(rows) /\ \A c \in Clients : Display(open[c], rows))'
  BY DEF DisplayInv
<1>1. CASE InsertLate
  BY <1>1 DEF InsertLate, DisplayInv, OneRequest
<1>2. ASSUME NEW c \in Clients, Handle(c)
      PROVE  (OneRequest /\ AnswersBelow(rows) /\ \A d \in Clients : Display(open[d], rows))'
  <2>1. AnswersBelow(rows') /\ Display(open'[c], rows') /\ (open'[c] = Idle \/ exists')
    BY <1>2, DisplayHandleStep
  <2>2. late' = {} /\ \A d \in Clients : d # c => open'[d] = Idle
    BY <1>2, StepsAlone
  <2>3. \A d \in Clients : Display(open'[d], rows')
    BY <2>1, <2>2, IdleDisplay
  <2>4. OneRequest'
    BY <2>1, <2>2 DEF OneRequest, Alone
  <2>5. AnswersBelow(rows)'
    BY <2>1 DEF AnswersBelow
  <2>6. (\A d \in Clients : Display(open[d], rows))'
    BY <2>3
  <2> QED BY <2>4, <2>5, <2>6
<1>3. CASE UNCHANGED vars
  BY <1>3 DEF vars, DisplayInv, OneRequest, Alone
<1> QED BY <1>1, <1>2, <1>3 DEF Next

\* A session starts without messages.
LEMMA DisplayInit == Init => DisplayInv
<1> SUFFICES ASSUME Init PROVE DisplayInv
  OBVIOUS
<1>1. rows = {} /\ late = {} /\ open = [c \in Clients |-> Idle]
  BY DEF Init
<1> QED BY <1>1, IdleDisplay DEF DisplayInv, OneRequest, AnswersBelow

\* While requests come one after another, an answer stands directly below its question, however
\* many questions were asked, edited, stopped or left unanswered before it.
THEOREM OneBranchCorrect == Spec => []OneBranch
<1>1. DisplayInv => OneBranch
  BY DEF DisplayInv, AnswersBelow, OneBranch
<1>2. Spec => []DisplayInv
  BY DisplayInit, DisplayStep, TypesInvariant, PTL DEF Spec
<1> QED BY <1>1, <1>2, PTL

-----------------------------------------------------------------------------
(* What the turns are told. *)

\* Threads: the session's is the last one given out, and those to come are empty.
ThreadsInv ==
    /\ mapped = resets
    /\ \A t \in 0..MaxRequests : t > resets => threads[t] = <<>>
    /\ \A c \in Clients : open[c].thread <= resets

\* The messages retained before the question of an edit.
Before(req, set) == {r \in set : \E q \in set : q.text = req.text /\ r.at < q.at}

\* An edit past its reset runs on an empty thread, and is handed what it has retained.
EditRuns(req, set, lists, current) ==
    /\ req.kind = "edit" => req.stage \notin {"listing", "user_check", "user_insert"}
    /\ req.stage \in {"preparing", "answering"} => req.thread = current
    /\ req.kind = "edit" /\ req.stage \in {"forgetting", "resolving", "preparing"} =>
          lists[current] = <<>>
    /\ req.kind = "edit" /\ Cardinality(set) <= ListLimit =>
          /\ req.stage \in {"resetting", "forgetting", "resolving", "preparing"} =>
                req.history = Said(Before(req, set))
          /\ req.stage = "answering" =>
                req.context = Append(Newest(Said(Before(req, set)), HistoryTake), Question(req))

\* While requests come one after another, edits run on what they have retained.
RunsInv == orderly => \A c \in Clients : EditRuns(open[c], rows, threads, mapped)

\* No entry of the list is discarded.
Clean(list, gone) == \A i \in 1..Len(list) : list[i].text \notin gone

\* Nothing that a request holds is discarded.
Untold(req, gone) ==
    /\ req.stage # "idle" => req.text \notin gone
    /\ Clean(req.history, gone)
    /\ req.stage \in {"target", "ordering", "replacing"} => req.history = <<>>
    /\ req.stage = "answering" => Clean(req.context, gone)

\* No request, no row and no list that a turn may take up has a discarded text.
CleanInv ==
    /\ discarded \subseteq 1..asked
    /\ orderly =>
          /\ Texts(rows) \cap discarded = {}
          /\ \A c \in Clients : Untold(open[c], discarded)
          /\ (\A c \in Clients : open[c].stage \notin {"relisting", "resetting"}) =>
                Clean(threads[mapped], discarded)

-----------------------------------------------------------------------------
(* What each step does to the lists that turns are told, all conditions that do not matter  *)
(* to them left out.                                                                        *)

Stays == UNCHANGED <<rows, threads, mapped, resets, discarded, asked>>

SameLists(new, req) == new.history = req.history /\ new.thread = req.thread

ComesIn(c, new) ==
    /\ UNCHANGED <<rows, threads, mapped, resets, discarded>>
    /\ asked' = asked + 1 /\ open[c].stage = "idle"
    /\ new.stage \in {"listing", "target", "resolving"} /\ new.text = asked + 1
    /\ new.kind = "edit" <=> new.stage = "target"
    /\ new.history = <<>> /\ new.thread = 0

Deletes(c, new) ==
    /\ new = Idle /\ open[c] = Idle /\ rows' = {}
    /\ UNCHANGED <<threads, mapped, resets, discarded, asked>>

\* It ends with nothing done: no answer, no session, no target.
GivesUp(c, new) ==
    /\ Stays /\ new = Idle
    /\ orderly' => open[c].stage \notin {"relisting", "resetting"}

Lists(new, req) ==
    /\ Stays /\ new.thread = req.thread
    /\ new.kind = req.kind /\ new.text = req.text
    /\ \/ req.stage = "listing" /\ new.stage = "user_check" /\ new.history = Listed
       \/ req.stage = "relisting" /\ new.stage = "resetting" /\ new.history = Retained(Listed)

Looks(new, req) ==
    /\ Stays /\ SameLists(new, req) /\ new.kind = req.kind /\ new.text = req.text
    /\ \/ req.stage = "user_check" /\ new.stage = "user_insert"
       \/ req.stage = "answer_check" /\ new.stage = "answer_insert"
       \/ req.stage = "target" /\ new.stage = "ordering"
       \/ req.stage = "ordering" /\ new.stage = "replacing"

Shows(new, req) ==
    /\ UNCHANGED <<threads, mapped, resets, discarded, asked>>
    /\ \/ /\ req.stage = "user_insert" /\ new.stage = "resolving"
          /\ new.kind = req.kind /\ new.text = req.text /\ SameLists(new, req)
       \/ req.stage = "answer_insert" /\ new = Idle
    /\ \E row : row.text = req.text /\ rows' = rows \cup {row}

Truncates(c, new, req) ==
    /\ UNCHANGED <<threads, mapped, resets, asked>>
    /\ discarded' = discarded \cup (Texts(rows) \ Texts(rows'))
    /\ req.stage = "replacing" /\ new.stage = "relisting"
    /\ new.kind = req.kind /\ new.text = req.text /\ SameLists(new, req)
    /\ ReplaceAndTruncate(c) /\ exists

Resets(new, req) ==
    /\ UNCHANGED <<rows, threads, discarded, asked>>
    /\ resets' = resets + 1 /\ mapped' = resets + 1
    /\ req.stage = "resetting" /\ new.stage = "forgetting" /\ new.thread = mapped
    /\ new.kind = req.kind /\ new.text = req.text /\ new.history = req.history

Forgets(new, req) ==
    /\ UNCHANGED <<rows, mapped, resets, discarded, asked>>
    /\ threads' = IF req.thread = mapped THEN threads ELSE [threads EXCEPT ![req.thread] = <<>>]
    /\ req.stage = "forgetting" /\ new.stage = "resolving"
    /\ new.kind = req.kind /\ new.text = req.text /\ SameLists(new, req)

Resolves(new, req) ==
    /\ Stays /\ req.stage = "resolving" /\ new.stage = "preparing" /\ new.thread = mapped
    /\ new.kind = req.kind /\ new.text = req.text /\ new.history = req.history

ToldTo(req) ==
    Append(IF threads[req.thread] = <<>> THEN Newest(req.history, HistoryTake)
           ELSE threads[req.thread], Question(req))

Prepares(new, req) ==
    /\ UNCHANGED <<rows, mapped, resets, discarded, asked>>
    /\ req.stage = "preparing" /\ new.stage = "answering" /\ new.context = ToldTo(req)
    /\ threads' = [threads EXCEPT ![req.thread] = ToldTo(req)]
    /\ new.kind = req.kind /\ new.text = req.text /\ SameLists(new, req)

Finishes(new, req) ==
    /\ UNCHANGED <<rows, mapped, resets, discarded, asked>>
    /\ req.stage = "answering"
    /\ threads' = [threads EXCEPT ![req.thread] = Append(req.context, Answer(req))]
    /\ \/ new = Idle
       \/ /\ new.stage = "answer_check"
          /\ new.kind = req.kind /\ new.text = req.text /\ SameLists(new, req)

Effect(c, new, req) ==
    \/ ComesIn(c, new) \/ Deletes(c, new) \/ GivesUp(c, new)
    \/ Lists(new, req) \/ Looks(new, req) \/ Shows(new, req) \/ Truncates(c, new, req)
    \/ Resets(new, req) \/ Forgets(new, req) \/ Resolves(new, req)
    \/ Prepares(new, req) \/ Finishes(new, req)

\* Every step of a client's request has one of these effects.
LEMMA Effects ==
    ASSUME TypeInv, NEW c \in Clients, Handle(c)
    PROVE  Effect(c, open'[c], open[c])
<1>0. open[c] \in OpenType /\ open \in [Clients -> OpenType] /\ Idle.stage = "idle"
  BY IdleFields DEF TypeInv, TypeOK
<1> DEFINE req == open[c]
<1>1. CASE Send(c) \/ Retrieve(c) \/ Edit(c)
  <2>1. PICK r, q : /\ Begin(c, r)
                    /\ \/ r = [Idle EXCEPT !.stage = "listing"]
                       \/ r = [Idle EXCEPT !.kind = "retrieve", !.stage = "resolving"]
                       \/ r = [Idle EXCEPT !.kind = "edit", !.stage = "target", !.edited = q]
    BY <1>1 DEF Send, Retrieve, Edit
  <2>2. PICK new : new = [r EXCEPT !.text = asked + 1]
    OBVIOUS
  <2>3. /\ new.stage \in {"listing", "target", "resolving"} /\ new.text = asked + 1
        /\ new.kind = "edit" <=> new.stage = "target"
        /\ new.history = <<>> /\ new.thread = 0
    BY <2>1, <2>2 DEF Idle
  <2>4. /\ UNCHANGED <<rows, threads, mapped, resets, discarded>>
        /\ asked' = asked + 1 /\ open[c].stage = "idle" /\ open'[c] = new
    BY <1>0, <2>1, <2>2 DEF Begin, Move
  <2> QED BY <2>3, <2>4 DEF Effect, ComesIn
<1>2. CASE DeleteSession(c)
  BY <1>2 DEF DeleteSession, Effect, Deletes
<1>3. CASE Move(c, Idle) /\ Stays /\ (orderly' => open[c].stage \notin {"relisting", "resetting"})
  <2>1. open'[c] = Idle
    BY <1>0, <1>3 DEF Move
  <2> QED BY <1>3, <2>1 DEF Effect, GivesUp
<1>4. CASE ListHistory(c)
  <2>1. PICK new : new = [req EXCEPT !.stage = "user_check", !.history = Listed]
    OBVIOUS
  <2>2. /\ new.stage = "user_check" /\ new.history = Listed /\ new.thread = req.thread
        /\ new.kind = req.kind /\ new.text = req.text
    BY <1>0, <2>1 DEF OpenType
  <2>3. open'[c] = new /\ Stays /\ req.stage = "listing"
    BY <1>0, <1>4, <2>1 DEF ListHistory, Move, Step, Stays
  <2> QED BY <2>2, <2>3 DEF Effect, Lists
<1>5. CASE RelistRetained(c)
  <2>1. PICK new : new = [req EXCEPT !.stage = "resetting", !.history = Retained(Listed)]
    OBVIOUS
  <2>2. /\ new.stage = "resetting" /\ new.history = Retained(Listed) /\ new.thread = req.thread
        /\ new.kind = req.kind /\ new.text = req.text
    BY <1>0, <2>1 DEF OpenType
  <2>3. open'[c] = new /\ Stays /\ req.stage = "relisting"
    BY <1>0, <1>5, <2>1 DEF RelistRetained, Move, Step, Stays
  <2> QED BY <2>2, <2>3 DEF Effect, Lists
<1>6. CASE CheckBeforeQuestion(c) \/ CheckBeforeAnswer(c)
  <2>1. PICK next : /\ CheckSession(c, req.stage, next)
                    /\ \/ req.stage = "user_check" /\ next = "user_insert"
                       \/ req.stage = "answer_check" /\ next = "answer_insert"
    BY <1>6 DEF CheckBeforeQuestion, CheckBeforeAnswer, CheckSession, Step
  <2>2. PICK new : new = [req EXCEPT !.stage = next, !.at = clock + 1]
    OBVIOUS
  <2>3. new.stage = next /\ SameLists(new, req) /\ new.kind = req.kind /\ new.text = req.text
    BY <1>0, <2>2 DEF OpenType, SameLists
  <2>4. Stays
    BY <2>1 DEF CheckSession, Stays
  <2>5. CASE open'[c] = new
    BY <2>1, <2>3, <2>4, <2>5 DEF Effect, Looks
  <2>6. Move(c, Idle) \/ open'[c] = new
    BY <1>0, <2>1, <2>2 DEF CheckSession, Move
  <2> QED BY <1>3, <2>1, <2>4, <2>5, <2>6
<1>target. CASE FindTarget(c)
  <2>1. PICK new : new = To(req, "ordering")
    OBVIOUS
  <2>2. new.stage = "ordering" /\ SameLists(new, req) /\ new.kind = req.kind /\ new.text = req.text
    BY <1>0, <2>1 DEF To, OpenType, SameLists
  <2>3. Stays /\ req.stage = "target"
    BY <1>target DEF FindTarget, Stays, Step
  <2>4. CASE open'[c] = new
    BY <2>2, <2>3, <2>4 DEF Effect, Looks
  <2>5. Move(c, Idle) \/ open'[c] = new
    BY <1>0, <1>target, <2>1 DEF FindTarget, Move
  <2> QED BY <1>3, <2>3, <2>4, <2>5
<1>7. CASE ReadOrder(c)
  <2>1. Stays /\ req.stage = "ordering"
    BY <1>7 DEF ReadOrder, Stays, Step
  <2>2. ASSUME NEW t \in rows,
               Move(c, [open[c] EXCEPT !.stage = "replacing", !.at = t.at, !.later = Later(t)])
        PROVE  Effect(c, open'[c], open[c])
    <3>1. PICK new : new = [open[c] EXCEPT !.stage = "replacing", !.at = t.at, !.later = Later(t)]
      OBVIOUS
    <3>2. new.stage = "replacing" /\ SameLists(new, req) /\ new.kind = req.kind /\ new.text = req.text
      BY <1>0, <3>1 DEF OpenType, SameLists
    <3>3. open'[c] = new
      BY <1>0, <2>2, <3>1 DEF Move
    <3> QED BY <2>1, <3>2, <3>3 DEF Effect, Looks
  <2>3. \/ Move(c, Idle)
        \/ \E t \in rows :
              Move(c, [open[c] EXCEPT !.stage = "replacing", !.at = t.at, !.later = Later(t)])
    BY <1>7 DEF ReadOrder
  <2> QED BY <1>3, <2>1, <2>2, <2>3
<1>8. CASE InsertQuestion(c)
  <2>1. PICK new : new = To(req, "resolving")
    OBVIOUS
  <2>2. new.stage = "resolving" /\ SameLists(new, req) /\ new.kind = req.kind /\ new.text = req.text
    BY <1>0, <2>1 DEF To, OpenType, SameLists
  <2>3. PICK row : row = RowOf(req, "user")
    OBVIOUS
  <2>4. row.text = req.text
    BY <2>3 DEF RowOf
  <2>5. /\ open'[c] = new /\ rows' = rows \cup {row} /\ req.stage = "user_insert"
        /\ UNCHANGED <<threads, mapped, resets, discarded, asked>>
    BY <1>0, <1>8, <2>1, <2>3 DEF InsertQuestion, InsertMessage, Move, Step
  <2> QED BY <2>2, <2>4, <2>5 DEF Effect, Shows
<1>9. CASE InsertAnswer(c)
  <2>3. PICK row : row = RowOf(req, "assistant")
    OBVIOUS
  <2>4. row.text = req.text
    BY <2>3 DEF RowOf
  <2>5. /\ open'[c] = Idle /\ rows' = rows \cup {row} /\ req.stage = "answer_insert"
        /\ UNCHANGED <<threads, mapped, resets, discarded, asked>>
    BY <1>0, <1>9, <2>3 DEF InsertAnswer, InsertMessage, Move, Step
  <2> QED BY <2>4, <2>5 DEF Effect, Shows
<1>10. CASE ReplaceAndTruncate(c)
  <2>1. CASE exists
    <3>1. PICK new : new = To(req, "relisting")
      OBVIOUS
    <3>2. new.stage = "relisting" /\ SameLists(new, req) /\ new.kind = req.kind /\ new.text = req.text
      BY <1>0, <3>1 DEF To, OpenType, SameLists
    <3>3. /\ open'[c] = new /\ req.stage = "replacing"
          /\ discarded' = discarded \cup (Texts(rows) \ Texts(rows'))
          /\ UNCHANGED <<threads, mapped, resets, asked>>
      BY <1>0, <1>10, <2>1, <3>1 DEF ReplaceAndTruncate, Move, Step
    <3> QED BY <1>10, <2>1, <3>2, <3>3 DEF Effect, Truncates
  <2>2. CASE ~exists
    BY <1>3, <1>10, <2>2 DEF ReplaceAndTruncate, Step, Stays
  <2> QED BY <2>1, <2>2
<1>11. CASE ResetContext(c)
  <2>1. PICK new : new = [req EXCEPT !.stage = "forgetting", !.thread = mapped]
    OBVIOUS
  <2>2. /\ new.stage = "forgetting" /\ new.thread = mapped /\ new.history = req.history
        /\ new.kind = req.kind /\ new.text = req.text
    BY <1>0, <2>1 DEF OpenType
  <2>3. /\ open'[c] = new /\ req.stage = "resetting" /\ resets' = resets + 1 /\ mapped' = resets + 1
        /\ UNCHANGED <<rows, threads, discarded, asked>>
    BY <1>0, <1>11, <2>1 DEF ResetContext, Remapped, Move, Step
  <2> QED BY <2>2, <2>3 DEF Effect, Resets
<1>12. CASE ForgetThread(c)
  <2>1. PICK new : new = To(req, "resolving")
    OBVIOUS
  <2>2. new.stage = "resolving" /\ SameLists(new, req) /\ new.kind = req.kind /\ new.text = req.text
    BY <1>0, <2>1 DEF To, OpenType, SameLists
  <2>3. /\ open'[c] = new /\ req.stage = "forgetting"
        /\ threads' = IF req.thread = mapped THEN threads ELSE [threads EXCEPT ![req.thread] = <<>>]
        /\ UNCHANGED <<rows, mapped, resets, discarded, asked>>
    BY <1>0, <1>12, <2>1 DEF ForgetThread, AfterForgetting, Move, Step
  <2> QED BY <2>2, <2>3 DEF Effect, Forgets
<1>13. CASE ResolveThread(c)
  <2>1. PICK new : new = [req EXCEPT !.stage = "preparing", !.thread = mapped]
    OBVIOUS
  <2>2. /\ new.stage = "preparing" /\ new.thread = mapped /\ new.history = req.history
        /\ new.kind = req.kind /\ new.text = req.text
    BY <1>0, <2>1 DEF OpenType
  <2>3. open'[c] = new /\ req.stage = "resolving" /\ Stays
    BY <1>0, <1>13, <2>1 DEF ResolveThread, Move, Step, Stays
  <2> QED BY <2>2, <2>3 DEF Effect, Resolves
<1>14. CASE PrepareTurn(c)
  <2>1. PICK context : context = ToldTo(req)
    OBVIOUS
  <2>2. PICK new : new = [req EXCEPT !.stage = "answering", !.context = context]
    OBVIOUS
  <2>3. /\ new.stage = "answering" /\ new.context = context /\ SameLists(new, req)
        /\ new.kind = req.kind /\ new.text = req.text
    BY <1>0, <2>2 DEF OpenType, SameLists
  <2>4. /\ open'[c] = new /\ req.stage = "preparing"
        /\ threads' = [threads EXCEPT ![req.thread] = context]
        /\ UNCHANGED <<rows, mapped, resets, discarded, asked>>
    BY <1>0, <1>14, <2>1, <2>2 DEF PrepareTurn, Move, Step, ToldTo
  <2> QED BY <2>1, <2>3, <2>4 DEF Effect, Prepares
<1>15. CASE FinishTurn(c)
  <2>1. PICK went : went = To(req, "answer_check")
    OBVIOUS
  <2>2. went.stage = "answer_check" /\ SameLists(went, req) /\ went.kind = req.kind /\ went.text = req.text
    BY <1>0, <2>1 DEF To, OpenType, SameLists
  <2>3. /\ open'[c] = Idle \/ open'[c] = went
        /\ req.stage = "answering"
        /\ threads' = [threads EXCEPT ![req.thread] = Append(req.context, Answer(req))]
        /\ UNCHANGED <<rows, mapped, resets, discarded, asked>>
    BY <1>0, <1>15, <2>1 DEF FinishTurn, Move, Step
  <2> QED BY <2>2, <2>3 DEF Effect, Finishes
<1>16. CASE FailTurn(c) \/ FailBeforeReset(c) \/ StopStream(c)
  BY <1>3, <1>16 DEF FailTurn, FailBeforeReset, StopStream, Step, Stays
<1> QED
  BY <1>target, <1>1, <1>2, <1>4, <1>5, <1>6, <1>7, <1>8, <1>9, <1>10, <1>11, <1>12, <1>13, <1>14, <1>15, <1>16
  DEF Handle

\* Turns run on threads that were given out.
LEMMA ThreadsStep == TypeInv /\ ThreadsInv /\ [Next]_vars => ThreadsInv'
<1> SUFFICES ASSUME TypeInv, ThreadsInv, [Next]_vars PROVE ThreadsInv'
  OBVIOUS
<1>1. CASE InsertLate \/ UNCHANGED vars
  BY <1>1 DEF InsertLate, vars, ThreadsInv
<1>2. ASSUME NEW c \in Clients, Handle(c) PROVE ThreadsInv'
  <2>1. PICK new : new = open'[c]
    OBVIOUS
  <2>2. PICK req : req = open[c]
    OBVIOUS
  <2>3. Effect(c, new, req)
    BY <1>2, <2>1, <2>2, Effects
  <2>4. /\ \A d \in Clients : d # c => open'[d] = open[d]
        /\ threads \in [0..MaxRequests -> Seq(Entries)] /\ mapped = resets /\ resets \in Nat
        /\ \A d \in Clients : open[d].thread <= resets /\ open[d].thread \in Nat
        /\ Idle.thread = 0
    BY <1>2, HandleMoves DEF TypeInv, TypeOK, ThreadsInv, OpenType, Idle
  <2>5. /\ resets' \in {resets, resets + 1} /\ mapped' = resets'
        /\ new.thread \in {0, mapped, req.thread}
    BY <2>3, <2>4
    DEF Effect, ComesIn, Deletes, GivesUp, Lists, Looks, Shows, Truncates, Resets, Forgets, Resolves,
        Prepares, Finishes, Stays, SameLists
  <2>6. \A d \in Clients : open'[d].thread <= resets'
    BY <2>1, <2>2, <2>4, <2>5
  <2>7. \/ threads' = threads
        \/ \E list : threads' = [threads EXCEPT ![req.thread] = list]
    BY <2>3
    DEF Effect, ComesIn, Deletes, GivesUp, Lists, Looks, Shows, Truncates, Resets, Forgets, Resolves,
        Prepares, Finishes, Stays
  <2>8. \A t \in 0..MaxRequests : t > resets => threads'[t] = threads[t]
    <3>1. CASE threads' = threads
      BY <3>1
    <3>2. ASSUME NEW list, threads' = [threads EXCEPT ![req.thread] = list]
          PROVE  \A t \in 0..MaxRequests : t > resets => threads'[t] = threads[t]
      <4>1. req.thread <= resets /\ req.thread \in Nat
        BY <2>2, <2>4
      <4>2. \A t \in 0..MaxRequests : t > resets => t # req.thread
        BY <2>4, <4>1
      <4> QED BY <2>4, <3>2, <4>2
    <3> QED BY <2>7, <3>1, <3>2
  <2>9. \A t \in 0..MaxRequests : t > resets' => threads'[t] = <<>>
    BY <2>4, <2>5, <2>8, BoundsAssumption DEF ThreadsInv
  <2> QED BY <2>5, <2>6, <2>9 DEF ThreadsInv
<1> QED BY <1>1, <1>2 DEF Next

\* A session starts with an empty thread.
LEMMA ThreadsInit == Init => ThreadsInv
BY BoundsAssumption DEF Init, ThreadsInv, Idle

\* A client without a request has nothing to keep.
LEMMA IdleRuns ==
    /\ Idle.kind = "send" /\ Idle.stage = "idle" /\ Idle.history = <<>>
    /\ \A set, lists, current : EditRuns(Idle, set, lists, current)
    /\ \A gone : Untold(Idle, gone)
BY DEF EditRuns, Untold, Clean, Idle

\* What is retained before a question that comes last is all but the question.
LEMMA BeforeLast ==
    ASSUME TypeInv, NEW req, QuestionLast(req, rows), Cardinality(rows) <= ListLimit
    PROVE  Retained(Listed) = Said(Before(req, rows))
<1>1. Ordered(rows) /\ rows \subseteq Rows
  BY DEF TypeInv, TypeOK, TimesInv
<1>2. PICK last \in rows : last.text = req.text /\ \A s \in rows : s.at <= last.at
  BY DEF QuestionLast, QuestionOf
<1>3. Before(req, rows) = rows \ {last}
  <2>1. \A r, s \in rows : r.at \in Nat /\ (r.at = s.at => r = s)
    BY <1>1 DEF Ordered
  <2>2. \A r \in rows : r # last => r.at < last.at
    BY <1>2, <2>1
  <2>3. \A r \in rows : ~(last.at < r.at)
    BY <1>2, <2>1
  <2> QED BY <1>2, <2>2, <2>3 DEF Before
<1>4. Said(rows \ {last}) = Front(Said(rows)) /\ Said(rows) # <<>>
  BY <1>1, <1>2, SaidBefore
<1>5. Listed = Said(rows)
  BY <1>1, ListedSaid
<1> QED BY <1>3, <1>4, <1>5 DEF Retained

\* While requests come one after another, an edit is handed what it has retained, and after its
\* reset its thread stays empty until its turn starts.
LEMMA RunsHandleStep ==
    ASSUME TypeInv, DisplayInv, ThreadsInv, RunsInv, NEW c \in Clients, Handle(c), orderly'
    PROVE  EditRuns(open'[c], rows', threads', mapped')
<1>1. PICK new : new = open'[c]
  OBVIOUS
<1> SUFFICES EditRuns(new, rows', threads', mapped')
  BY <1>1
<1>2. PICK req : req = open[c]
  OBVIOUS
<1>3. Effect(c, new, req)
  BY <1>1, <1>2, Effects
<1>4. /\ EditRuns(req, rows, threads, mapped) /\ Display(req, rows)
      /\ threads \in [0..MaxRequests -> Seq(Entries)] /\ mapped \in 0..MaxRequests /\ mapped = resets
      /\ resets' \in 0..MaxRequests
  <2>1. TypeInv'
    BY TypesStep DEF Next
  <2> QED BY <1>2, <2>1, StepsAlone DEF RunsInv, DisplayInv, TypeInv, TypeOK, ThreadsInv
<1>5. EditRuns(Idle, rows', threads', mapped')
  BY IdleRuns
<1>6. ASSUME new.text = req.text PROVE Before(new, rows) = Before(req, rows) /\ Question(new) = Question(req)
  BY <1>6 DEF Before, Question
<1>7. CASE ComesIn(c, new)
  BY <1>7 DEF ComesIn, EditRuns
<1>8. CASE Deletes(c, new) \/ GivesUp(c, new)
  BY <1>5, <1>8 DEF Deletes, GivesUp
<1>9. CASE Lists(new, req)
  <2>1. CASE req.stage = "listing" /\ new.stage = "user_check"
    BY <1>4, <1>9, <2>1 DEF Lists, EditRuns
  <2>2. CASE req.stage = "relisting" /\ new.stage = "resetting" /\ new.history = Retained(Listed)
    <3>1. new.kind = req.kind /\ new.text = req.text /\ rows' = rows
      BY <1>9 DEF Lists, Stays
    <3>2. QuestionLast(req, rows)
      BY <1>4, <2>2 DEF Display, Turn, Shown
    <3>3. Cardinality(rows) <= ListLimit => new.history = Said(Before(new, rows))
      BY <1>6, <2>2, <3>1, <3>2, BeforeLast
    <3> QED BY <2>2, <3>1, <3>3 DEF EditRuns
  <2> QED BY <1>9, <2>1, <2>2 DEF Lists
<1>10. CASE Looks(new, req)
  BY <1>4, <1>10 DEF Looks, EditRuns
<1>11. CASE Shows(new, req)
  BY <1>4, <1>5, <1>11 DEF Shows, EditRuns
<1>12. CASE Truncates(c, new, req)
  BY <1>12 DEF Truncates, EditRuns
<1>13. CASE Resets(new, req)
  <2>1. /\ new.kind = req.kind /\ new.text = req.text /\ rows' = rows /\ new.history = req.history
        /\ req.stage = "resetting" /\ new.stage = "forgetting"
        /\ threads' = threads /\ mapped' = resets + 1 /\ resets' = resets + 1
    BY <1>13 DEF Resets
  <2>2. threads'[mapped'] = <<>>
    BY <1>4, <2>1 DEF ThreadsInv
  <2>3. Before(new, rows) = Before(req, rows)
    BY <1>6, <2>1
  <2> QED BY <1>4, <2>1, <2>2, <2>3 DEF EditRuns
<1>14. CASE Forgets(new, req)
  <2>1. /\ new.kind = req.kind /\ new.text = req.text /\ rows' = rows /\ new.history = req.history
        /\ req.stage = "forgetting" /\ new.stage = "resolving" /\ mapped' = mapped
    BY <1>14 DEF Forgets, SameLists
  <2>2. threads'[mapped] = threads[mapped]
    BY <1>4, <1>14 DEF Forgets
  <2>3. Before(new, rows) = Before(req, rows)
    BY <1>6, <2>1
  <2> QED BY <1>4, <2>1, <2>2, <2>3 DEF EditRuns
<1>15. CASE Resolves(new, req)
  <2>1. /\ new.kind = req.kind /\ new.text = req.text /\ rows' = rows /\ new.history = req.history
        /\ req.stage = "resolving" /\ new.stage = "preparing" /\ mapped' = mapped /\ threads' = threads
        /\ new.thread = mapped
    BY <1>15 DEF Resolves, Stays
  <2>2. Before(new, rows) = Before(req, rows)
    BY <1>6, <2>1
  <2> QED BY <1>4, <2>1, <2>2 DEF EditRuns
<1>16. CASE Prepares(new, req)
  <2>1. /\ new.kind = req.kind /\ new.text = req.text /\ rows' = rows
        /\ req.stage = "preparing" /\ new.stage = "answering" /\ mapped' = mapped
        /\ new.context = ToldTo(req) /\ new.thread = req.thread
    BY <1>16 DEF Prepares, SameLists
  <2>2. req.thread = mapped
    BY <1>4, <2>1 DEF EditRuns
  <2>3. ASSUME req.kind = "edit", Cardinality(rows) <= ListLimit
        PROVE  new.context = Append(Newest(Said(Before(new, rows)), HistoryTake), Question(new))
    <3>1. threads[req.thread] = <<>> /\ req.history = Said(Before(req, rows))
      BY <1>4, <2>1, <2>2, <2>3 DEF EditRuns
    <3>2. new.context = Append(Newest(req.history, HistoryTake), Question(req))
      BY <2>1, <3>1 DEF ToldTo
    <3>3. Before(new, rows) = Before(req, rows) /\ Question(new) = Question(req)
      BY <1>6, <2>1
    <3> QED BY <3>1, <3>2, <3>3
  <2> QED BY <2>1, <2>2, <2>3 DEF EditRuns
<1>17. CASE Finishes(new, req)
  BY <1>5, <1>17 DEF Finishes, EditRuns
<1> QED
  BY <1>1, <1>3, <1>7, <1>8, <1>9, <1>10, <1>11, <1>12, <1>13, <1>14, <1>15, <1>16, <1>17 DEF Effect

\* And so it does through every step of the session.
LEMMA RunsStep ==
    TypeInv /\ DisplayInv /\ ThreadsInv /\ RunsInv /\ [Next]_vars => RunsInv'
<1> SUFFICES ASSUME TypeInv, DisplayInv, ThreadsInv, RunsInv, [Next]_vars, orderly'
             PROVE  (\A c \in Clients : EditRuns(open[c], rows, threads, mapped))'
  BY DEF RunsInv
<1>1. CASE InsertLate
  BY <1>1 DEF InsertLate, DisplayInv, OneRequest
<1>2. ASSUME NEW c \in Clients, Handle(c)
      PROVE  (\A d \in Clients : EditRuns(open[d], rows, threads, mapped))'
  <2>1. \A d \in Clients : d # c => open'[d] = Idle
    BY <1>2, StepsAlone
  <2>2. EditRuns(open'[c], rows', threads', mapped')
    BY <1>2, RunsHandleStep
  <2>3. \A d \in Clients : EditRuns(open'[d], rows', threads', mapped')
    BY <2>1, <2>2, IdleRuns
  <2> QED BY <2>3
<1>3. CASE UNCHANGED vars
  BY <1>3 DEF vars, RunsInv
<1> QED BY <1>1, <1>2, <1>3 DEF Next

\* A session starts with nobody's turn running.
LEMMA RunsInit == Init => RunsInv
<1> SUFFICES ASSUME Init PROVE RunsInv
  OBVIOUS
<1>1. \A c \in Clients : open[c] = Idle
  BY DEF Init
<1> QED BY <1>1, IdleRuns DEF RunsInv

\* In any reachable state, all that holds of a session while requests come one after another.
LEMMA SerialInvariant == Spec => [](TypeInv /\ DisplayInv /\ ThreadsInv /\ RunsInv)
BY TypesInit, DisplayInit, ThreadsInit, RunsInit, TypesStep, DisplayStep, ThreadsStep, RunsStep, PTL
DEF Spec

\* While requests come one after another, the turn of an edited question is told the messages that
\* were retained before it, the newest HistoryTake of them, and its question: the thread that it
\* runs on was empty, whatever the session's earlier threads remember.
THEOREM EditRunsOnRetainedCorrect == Spec => []EditRunsOnRetained
<1>1. RunsInv => EditRunsOnRetained
  BY DEF RunsInv, EditRuns, EditRunsOnRetained, Before, Step
<1> QED BY <1>1, SerialInvariant, PTL

\* Parts of a clean list are clean, and so is a clean list with a message of a clean text.
LEMMA CleanLists ==
    ASSUME NEW gone, NEW list \in Seq(Entries), Clean(list, gone)
    PROVE  /\ Clean(Newest(list, HistoryTake), gone)
           /\ \A e \in Entries : e.text \notin gone => Clean(Append(list, e), gone)
<1>1. PICK words : words = {list[i].text : i \in 1..Len(list)}
  OBVIOUS
<1>2. PICK newest : newest = Newest(list, HistoryTake)
  OBVIOUS
<1>3. \A i \in 1..Len(newest) : newest[i].text \in words
  BY <1>1, <1>2, PartsOfList
<1>4. \A w \in words : w \notin gone
  BY <1>1 DEF Clean
<1>5. ASSUME NEW e \in Entries, e.text \notin gone PROVE Clean(Append(list, e), gone)
  <2>1. PICK longer : longer = Append(list, e)
    OBVIOUS
  <2>2. /\ Len(longer) = Len(list) + 1 /\ Len(list) \in Nat
        /\ \A i \in 1..Len(list) : longer[i] = list[i]
        /\ longer[Len(list) + 1] = e
    BY <2>1
  <2>3. \A i \in 1..Len(longer) : i \in 1..Len(list) \/ i = Len(list) + 1
    BY <2>2
  <2> QED BY <1>5, <2>1, <2>2, <2>3 DEF Clean
<1> QED BY <1>2, <1>3, <1>4, <1>5 DEF Clean

\* What is listed of rows without a discarded text is clean.
LEMMA CleanListed ==
    ASSUME TypeInv, NEW gone, Texts(rows) \cap gone = {}
    PROVE  Clean(Listed, gone) /\ Clean(Retained(Listed), gone)
<1>1. PICK listed : listed = Listed
  OBVIOUS
<1>2. listed \in Seq(Entries) /\ \A i \in 1..Len(listed) : listed[i].text \in Texts(rows)
  BY <1>1, ListedSaid DEF TypeInv, TypeOK, TimesInv
<1>3. PICK words : words = Texts(rows)
  OBVIOUS
<1>4. PICK kept : kept = Retained(listed)
  OBVIOUS
<1>5. \A i \in 1..Len(kept) : kept[i].text \in words
  BY <1>2, <1>3, <1>4, PartsOfList
<1> QED BY <1>1, <1>2, <1>3, <1>4, <1>5 DEF Clean

\* An edit discards the texts that leave the display, none of which stays or is its own.
LEMMA CleanTruncate ==
    ASSUME TypeInv, DisplayInv, CleanInv, orderly, NEW c \in Clients,
           ReplaceAndTruncate(c), exists,
           discarded' = discarded \cup (Texts(rows) \ Texts(rows'))
    PROVE  Texts(rows') \cap discarded' = {} /\ open[c].text \notin discarded'
<1>1. Display(open[c], rows) /\ AnswersBelow(rows) /\ Untold(open[c], discarded)
      /\ Texts(rows) \cap discarded = {}
  BY DEF DisplayInv, CleanInv
<1>2. /\ \A s \in rows' : s.text = open[c].text \/ s.text \in Texts(rows)
      /\ open[c].text \in Texts(rows')
  BY <1>1, DisplayReplace
<1>3. open[c].text \notin discarded
  <2>1. open[c].stage = "replacing"
    BY DEF ReplaceAndTruncate, Step
  <2> QED BY <1>1, <2>1 DEF Untold
<1>4. \A x \in Texts(rows') : x = open[c].text \/ x \in Texts(rows)
  BY <1>2 DEF Texts
<1>5. \A x \in Texts(rows') : x \notin discarded
  BY <1>1, <1>3, <1>4
<1> QED BY <1>2, <1>3, <1>5

\* While requests come one after another, nothing discarded comes back.
LEMMA CleanHandleStep ==
    ASSUME TypeInv, DisplayInv, ThreadsInv, RunsInv, CleanInv, NEW c \in Clients, Handle(c), orderly'
    PROVE  /\ Texts(rows') \cap discarded' = {}
           /\ Untold(open'[c], discarded')
           /\ open'[c].stage \notin {"relisting", "resetting"} => Clean(threads'[mapped'], discarded')
<1>1. PICK new : new = open'[c]
  OBVIOUS
<1> SUFFICES /\ Texts(rows') \cap discarded' = {}
             /\ Untold(new, discarded')
             /\ new.stage \notin {"relisting", "resetting"} => Clean(threads'[mapped'], discarded')
  BY <1>1
<1>2. PICK req : req = open[c]
  OBVIOUS
<1>3. Effect(c, new, req)
  BY <1>1, <1>2, Effects
<1>4. /\ orderly /\ Alone(c)
      /\ Display(req, rows) /\ EditRuns(req, rows, threads, mapped) /\ Untold(req, discarded)
      /\ Texts(rows) \cap discarded = {}
      /\ threads \in [0..MaxRequests -> Seq(Entries)] /\ mapped \in 0..MaxRequests /\ mapped = resets
      /\ resets' \in 0..MaxRequests
      /\ req.history \in Seq(Entries) /\ req.context \in Seq(Entries) /\ req.thread \in 0..MaxRequests
  <2>1. TypeInv'
    BY TypesStep DEF Next
  <2> QED
    BY <1>2, <2>1, StepsAlone DEF RunsInv, DisplayInv, CleanInv, TypeInv, TypeOK, ThreadsInv, OpenType
<1>5. req.stage \notin {"relisting", "resetting"} => Clean(threads[mapped], discarded)
  BY <1>2, <1>4, IdleFields DEF CleanInv, Alone
<1>6. Untold(Idle, discarded') /\ Idle.stage = "idle"
  BY IdleRuns
<1>7. CASE ComesIn(c, new)
  <2>1. asked + 1 \notin discarded
    BY DEF CleanInv, TypeInv, TypeOK
  <2>2. Untold(new, discarded)
    BY <1>7, <2>1 DEF ComesIn, Untold, Clean
  <2> QED BY <1>2, <1>4, <1>5, <1>7, <2>2 DEF ComesIn
<1>8. CASE Deletes(c, new)
  <2>1. Texts(rows') = {}
    BY <1>8 DEF Deletes, Texts
  <2> QED BY <1>2, <1>4, <1>5, <1>6, <1>8, <2>1 DEF Deletes
<1>9. CASE GivesUp(c, new)
  BY <1>2, <1>4, <1>5, <1>6, <1>9 DEF GivesUp, Stays
<1>10. CASE Lists(new, req)
  <2>1. Clean(new.history, discarded)
    BY <1>4, <1>10, CleanListed DEF Lists
  <2>2. Untold(new, discarded)
    BY <1>4, <1>10, <2>1 DEF Lists, Untold
  <2> QED BY <1>4, <1>5, <1>10, <2>2 DEF Lists, Stays
<1>11. CASE Looks(new, req)
  <2>1. Untold(new, discarded)
    BY <1>4, <1>11 DEF Looks, Untold, SameLists
  <2> QED BY <1>4, <1>5, <1>11, <2>1 DEF Looks, Stays
<1>12. CASE Shows(new, req)
  <2>1. req.text \notin discarded
    BY <1>4, <1>12 DEF Shows, Untold
  <2>2. Texts(rows') \cap discarded = {}
    BY <1>4, <1>12, <2>1 DEF Shows, Texts
  <2>3. Untold(new, discarded)
    BY <1>4, <1>6, <1>12 DEF Shows, Untold, SameLists
  <2> QED BY <1>4, <1>5, <1>12, <2>2, <2>3 DEF Shows
<1>13. CASE Truncates(c, new, req)
  <2>1. Texts(rows') \cap discarded' = {} /\ req.text \notin discarded'
    BY <1>2, <1>4, <1>13, CleanTruncate DEF Truncates
  <2>2. new.history = <<>> /\ new.stage = "relisting" /\ new.text = req.text
    BY <1>4, <1>13 DEF Truncates, SameLists, Untold
  <2> QED BY <2>1, <2>2 DEF Untold, Clean
<1>14. CASE Resets(new, req)
  <2>1. threads'[mapped'] = <<>>
    BY <1>4, <1>14 DEF Resets, ThreadsInv
  <2>2. Untold(new, discarded) /\ discarded' = discarded /\ rows' = rows
    BY <1>4, <1>14 DEF Resets, Untold
  <2> QED BY <1>4, <2>1, <2>2 DEF Clean
<1>15. CASE Forgets(new, req)
  <2>1. threads'[mapped] = threads[mapped] /\ mapped' = mapped
    BY <1>4, <1>15 DEF Forgets
  <2>2. Untold(new, discarded) /\ discarded' = discarded /\ rows' = rows
    BY <1>4, <1>15 DEF Forgets, Untold, SameLists
  <2> QED BY <1>4, <1>5, <1>15, <2>1, <2>2 DEF Forgets
<1>16. CASE Resolves(new, req)
  <2>1. Untold(new, discarded)
    BY <1>4, <1>16 DEF Resolves, Untold
  <2> QED BY <1>4, <1>5, <1>16, <2>1 DEF Resolves, Stays
<1>17. CASE Prepares(new, req)
  <2>1. req.stage = "preparing" /\ req.thread = mapped /\ Clean(threads[mapped], discarded)
    BY <1>4, <1>5, <1>17 DEF Prepares, EditRuns
  <2>2. Question(req) \in Entries /\ Question(req).text \notin discarded
    <3>1. Question(req) \in Entries
      BY <1>2, <2>1, TurnTypes
    <3> QED BY <1>4, <2>1, <3>1 DEF Question, Untold
  <2>3. PICK before : before = IF threads[mapped] = <<>> THEN Newest(req.history, HistoryTake)
                               ELSE threads[mapped]
    OBVIOUS
  <2>4. before \in Seq(Entries) /\ Clean(before, discarded)
    <3>1. Clean(Newest(req.history, HistoryTake), discarded)
      BY <1>4, CleanLists DEF Untold
    <3>2. Newest(req.history, HistoryTake) \in Seq(Entries) /\ threads[mapped] \in Seq(Entries)
      BY <1>2, <1>4, <2>1, TurnTypes
    <3> QED BY <2>1, <2>3, <3>1, <3>2
  <2>5. PICK told : told = ToldTo(req)
    OBVIOUS
  <2>6. told = Append(before, Question(req))
    BY <2>1, <2>3, <2>5 DEF ToldTo
  <2>7. Clean(told, discarded)
    BY <2>2, <2>4, <2>6, CleanLists
  <2>8. /\ new.context = told /\ threads'[mapped] = told /\ mapped' = mapped
        /\ discarded' = discarded /\ rows' = rows
    BY <1>4, <1>17, <2>1, <2>5 DEF Prepares
  <2>9. Untold(new, discarded)
    BY <1>4, <1>17, <2>7, <2>8 DEF Prepares, Untold, SameLists
  <2> QED BY <1>4, <2>7, <2>8, <2>9
<1>18. CASE Finishes(new, req)
  <2>1. req.stage = "answering" /\ req.thread = mapped
    BY <1>4, <1>18 DEF Finishes, EditRuns
  <2>2. Answer(req) \in Entries /\ Answer(req).text \notin discarded
    <3>1. Answer(req) \in Entries
      BY <1>2, <2>1, TurnTypes
    <3> QED BY <1>4, <2>1, <3>1 DEF Answer, Untold
  <2>3. PICK said : said = Append(req.context, Answer(req))
    OBVIOUS
  <2>4. Clean(said, discarded)
    BY <1>4, <2>1, <2>2, <2>3, CleanLists DEF Untold
  <2>5. /\ threads'[mapped] = said /\ mapped' = mapped
        /\ discarded' = discarded /\ rows' = rows
    BY <1>4, <1>18, <2>1, <2>3 DEF Finishes
  <2>6. Untold(new, discarded)
    BY <1>4, <1>6, <1>18, <2>5 DEF Finishes, Untold, SameLists
  <2> QED BY <1>4, <2>4, <2>5, <2>6
<1> QED
  BY <1>3, <1>7, <1>8, <1>9, <1>10, <1>11, <1>12, <1>13, <1>14, <1>15, <1>16, <1>17, <1>18
  DEF Effect

\* What is discarded was the text of a request, whatever runs at the same time.
LEMMA DiscardedStep ==
    ASSUME TypeInv, CleanInv, [Next]_vars
    PROVE  discarded' \subseteq 1..asked'
<1>1. asked \in Nat /\ discarded \subseteq 1..asked /\ Texts(rows) \subseteq 1..asked
  BY DEF TypeInv, TypeOK, CleanInv, HistoryInv, Inv, RowsInv, Texts
<1>2. CASE InsertLate \/ UNCHANGED vars
  BY <1>1, <1>2 DEF InsertLate, vars
<1>3. ASSUME NEW c \in Clients, Handle(c) PROVE discarded' \subseteq 1..asked'
  <2>1. Effect(c, open'[c], open[c])
    BY <1>3, Effects
  <2>2. /\ asked' \in {asked, asked + 1}
        /\ discarded' = discarded \/ discarded' = discarded \cup (Texts(rows) \ Texts(rows'))
    BY <2>1
    DEF Effect, ComesIn, Deletes, GivesUp, Lists, Looks, Shows, Truncates, Resets, Forgets, Resolves,
        Prepares, Finishes, Stays
  <2>3. 1..asked \subseteq 1..asked'
    BY <1>1, <2>2
  <2>4. discarded' \subseteq 1..asked
    BY <1>1, <2>2
  <2> QED BY <2>3, <2>4
<1> QED BY <1>2, <1>3 DEF Next

\* And nothing comes back through any step of the session.
LEMMA CleanStep ==
    TypeInv /\ DisplayInv /\ ThreadsInv /\ RunsInv /\ CleanInv /\ [Next]_vars => CleanInv'
<1> SUFFICES ASSUME TypeInv, DisplayInv, ThreadsInv, RunsInv, CleanInv, [Next]_vars PROVE CleanInv'
  OBVIOUS
<1>1. discarded' \subseteq 1..asked'
  BY DiscardedStep
<1>2. CASE InsertLate
  BY <1>1, <1>2 DEF InsertLate, DisplayInv, OneRequest, CleanInv
<1>3. ASSUME NEW c \in Clients, Handle(c) PROVE CleanInv'
  <2> SUFFICES ASSUME orderly'
               PROVE  /\ Texts(rows') \cap discarded' = {}
                      /\ \A d \in Clients : Untold(open'[d], discarded')
                      /\ (\A d \in Clients : open'[d].stage \notin {"relisting", "resetting"}) =>
                            Clean(threads'[mapped'], discarded')
    BY <1>1 DEF CleanInv, Texts
  <2>1. \A d \in Clients : d # c => open'[d] = Idle
    BY <1>3, StepsAlone
  <2> QED BY <1>3, <2>1, CleanHandleStep, IdleRuns
<1>4. CASE UNCHANGED vars
  BY <1>4 DEF vars, CleanInv, Texts
<1> QED BY <1>2, <1>3, <1>4 DEF Next

\* A session starts with nothing discarded.
LEMMA CleanInit == Init => CleanInv
<1> SUFFICES ASSUME Init PROVE CleanInv
  OBVIOUS
<1>1. \A c \in Clients : open[c] = Idle
  BY DEF Init
<1>2. mapped = 0 /\ threads[0] = <<>> /\ discarded = {}
  BY BoundsAssumption DEF Init
<1> QED BY <1>1, <1>2, IdleRuns DEF CleanInv, Clean

\* While requests come one after another, no turn is told anything that an edit has taken off the
\* display: neither by the history it is handed nor by the thread it runs on, however many edits,
\* failures, disconnects and reads through /retrieve came before.
THEOREM DiscardedStaysOutCorrect == Spec => []DiscardedStaysOut
<1>1. CleanInv => DiscardedStaysOut
  BY DEF CleanInv, Untold, Clean, DiscardedStaysOut, Step
<1>2. Spec => []CleanInv
  BY SerialInvariant, CleanInit, CleanStep, PTL DEF Spec
<1> QED BY <1>1, <1>2, PTL

=============================================================================
