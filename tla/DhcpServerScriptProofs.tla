----------------------- MODULE DhcpServerScriptProofs -----------------------
(***************************************************************************)
(* Proofs about the lease-change script, for any network, configuration and *)
(* set of datagrams: the script never believes that two addresses have one *)
(* name, and when there is nothing more to announce it knows the leases.   *)
(*                                                                         *)
(* What do_script_run may still say is in the table: the removed leases,   *)
(* the flags of the others, and the names they lost.  The invariant relates *)
(* that, address by address, to what the script has heard or is about to   *)
(* hear; where its last news was lost with a process, nothing is said.     *)
(***************************************************************************)
EXTENDS DhcpServerTableProofs

(***************************************************************************)
(* The invariant.                                                          *)
(***************************************************************************)

\* What the script believes of an address once it has heard what is in the buffer.
Buffered(s, a) == \E e \in s.buf : e.addr = a
View(s, a) == IF Buffered(s, a) THEN Heard(CHOOSE e \in s.buf : e.addr = a) ELSE s.told[a]

\* The news of the address was not lost.
Fresh(s, a) == a \notin s.missed \/ Buffered(s, a)

\* A removed lease on the address is still to be announced, or a lease is.
Mentioned(d, a) == \E i \in DOMAIN d.old_leases : d.old_leases[i].addr = a
Flagged(l) == l.flags \cap {"NEW", "CHANGED"} # {}

\* Where no removal is to be announced, the script believes in no lease that is
\* gone, and in no name that is not there, unless the loss is to be announced.
Remembered(s, d) ==
    \A a \in Addrs : Fresh(s, a) /\ ~Mentioned(d, a) =>
        /\ ~Leased(d, a) => View(s, a) = Unheard
        /\ \A l \in d.leases :
              l.addr = a /\ l.oldname = NoName /\ View(s, a).name # NoName => l.name = View(s, a).name

\* A lease is to be announced again after the removal of another on its address;
\* one that is not, but has lost a name, has none; and the script knows the rest.
Announced(s, d) ==
    \A l \in d.leases :
        \/ Flagged(l)
        \/ /\ ~Mentioned(d, l.addr)
           /\ l.oldname # NoName => l.name = NoName
           /\ l.oldname = NoName /\ l.addr \in Addrs /\ Fresh(s, l.addr) =>
                 View(s, l.addr) = [present |-> TRUE, name |-> l.name]

News(s, d) == Remembered(s, d) /\ Announced(s, d)

\* No two addresses have one name, in what the script believes or will believe.
ViewsUnique(s) ==
    \A a, b \in Addrs : Fresh(s, a) /\ Fresh(s, b) /\ a # b /\ View(s, a).name # NoName =>
        View(s, a).name # View(s, b).name
ToldUnique(s) ==
    \A a, b \in Addrs \ s.missed :
        a # b /\ s.told[a].name # NoName => s.told[a].name # s.told[b].name

\* After a death the script believes in no lease and no name that is not in the file.
Left(s, f) ==
    \A a \in Addrs \ s.missed :
        /\ (\A e \in f : e.addr # a) => s.told[a] = Unheard
        /\ s.told[a].name # NoName => \E e \in f : e.addr = a /\ e.name = s.told[a].name

\* Without a script there is nothing to know.
ScriptInv ==
    /\ script.buf = {} \/ \E e \in Event : script.buf = {e}
    /\ ~LeaseScript => script.buf = {} /\ \A a \in Addrs : script.told[a] = Unheard
    /\ ViewsUnique(script) /\ ToldUnique(script)
    /\ LeaseScript /\ up => News(script, db)
    /\ LeaseScript /\ ~up => Left(script, file) /\ script.buf = {}

\* The buffer is empty, or holds one event.
LEMMA ViewOfNone ==
    ASSUME NEW s, s.buf = {}, NEW a
    PROVE  View(s, a) = s.told[a] /\ (Fresh(s, a) <=> a \notin s.missed)
  BY DEF View, Fresh, Buffered

LEMMA ViewOfOne ==
    ASSUME NEW s, NEW e, s.buf = {e}, NEW a
    PROVE  /\ View(s, a) = IF a = e.addr THEN Heard(e) ELSE s.told[a]
           /\ Fresh(s, a) <=> a \notin s.missed \/ a = e.addr
  BY DEF View, Fresh, Buffered

(***************************************************************************)
(* What the handlers do to the news.                                       *)
(***************************************************************************)

\* Two tables with the same removed leases and the same addresses, where every
\* change of a name is marked.
NamesFollow(d, e) ==
    /\ DbOK(d) /\ DbOK(e) /\ e.old_leases = d.old_leases
    /\ \A k \in e.leases : \E l \in d.leases : k.addr = l.addr /\ NameFollows(k, l)
    /\ \A l \in d.leases : \E k \in e.leases : k.addr = l.addr

LEMMA NamesFollowed ==
    ASSUME NEW s, NEW d, NEW e, NamesFollow(d, e), Remembered(s, d)
    PROVE  Remembered(s, e) /\ (Announced(s, d) => Announced(s, e))
<1>1. \A a : /\ Mentioned(e, a) <=> Mentioned(d, a)
             /\ Leased(e, a) <=> Leased(d, a)
  BY DEF NamesFollow, Mentioned, Leased
<1>2. Remembered(s, e)
  <2> SUFFICES ASSUME NEW a \in Addrs, Fresh(s, a), ~Mentioned(e, a)
               PROVE  /\ ~Leased(e, a) => View(s, a) = Unheard
                      /\ \A k \in e.leases :
                            k.addr = a /\ k.oldname = NoName /\ View(s, a).name # NoName
                            => k.name = View(s, a).name
    BY DEF Remembered
  <2>1. ~Leased(e, a) => View(s, a) = Unheard
    BY <1>1 DEF Remembered
  <2>2. ASSUME NEW k \in e.leases, k.addr = a, k.oldname = NoName, View(s, a).name # NoName
        PROVE  k.name = View(s, a).name
    <3>1. PICK l \in d.leases : l.addr = a /\ NameFollows(k, l)
      BY <2>2 DEF NamesFollow
    <3>2. l.oldname = NoName => l.name = View(s, a).name
      BY <1>1, <2>2, <3>1 DEF Remembered
    <3> QED
      BY <2>2, <3>1, <3>2 DEF NameFollows, SameNames
  <2> QED
    BY <2>1, <2>2
<1>3. ASSUME Announced(s, d), NEW k \in e.leases, ~Flagged(k)
      PROVE  /\ ~Mentioned(e, k.addr)
             /\ k.oldname # NoName => k.name = NoName
             /\ k.oldname = NoName /\ k.addr \in Addrs /\ Fresh(s, k.addr) =>
                   View(s, k.addr) = [present |-> TRUE, name |-> k.name]
  <2>1. PICK l \in d.leases : k.addr = l.addr /\ NameFollows(k, l)
    BY DEF NamesFollow
  <2>2. ~Flagged(l) /\ "CHANGED" \notin k.flags
    BY <1>3, <2>1 DEF Flagged, NameFollows
  <2>3. SameNames(k, l) \/ (k.name = NoName /\ k.oldname # NoName)
    BY <2>1, <2>2 DEF NameFollows
  <2> QED
    BY <1>1, <1>3, <2>1, <2>2, <2>3 DEF Announced, SameNames
<1> QED
  BY <1>2, <1>3 DEF Announced

\* lease_prune announces what it removes.
LEMMA PrunedNews ==
    ASSUME NEW s, NEW d, DbOK(d), Remembered(s, d), NEW target, NEW e, e = lease_prune(d, target, now)
    PROVE  Remembered(s, e) /\ (Announced(s, d) => Announced(s, e))
<1> DEFINE gone == {l \in d.leases : Expired(l, now) \/ l \in target}
<1>1. e.leases = d.leases \ gone /\ e.old_leases = SetToSeq(gone) \o d.old_leases
  BY DEF lease_prune
<1>2. IsFiniteSet(gone) /\ d.old_leases \in Seq(Lease)
  BY FS_Subset DEF DbOK, Database
<1>3. gone \subseteq d.leases
  OBVIOUS
<1> HIDE DEF gone
<1>4. \A a : Mentioned(e, a) <=> Mentioned(d, a) \/ \E l \in gone : l.addr = a
  <2> DEFINE g == SetToSeq(gone)
  <2>1. g \in Seq(gone) /\ \A l \in gone : \E i \in DOMAIN g : g[i] = l
    BY <1>2, SetToSeqType
  <2> HIDE DEF g
  <2>2. e.old_leases = g \o d.old_leases
    BY <1>1 DEF g
  <2>3. /\ Len(g) \in Nat /\ Len(d.old_leases) \in Nat
        /\ DOMAIN g = 1 .. Len(g) /\ DOMAIN d.old_leases = 1 .. Len(d.old_leases)
        /\ DOMAIN e.old_leases = 1 .. Len(g) + Len(d.old_leases)
        /\ \A i \in 1 .. Len(g) + Len(d.old_leases) :
              e.old_leases[i] = IF i <= Len(g) THEN g[i] ELSE d.old_leases[i - Len(g)]
    BY <1>2, <2>1, <2>2
  <2>4. \A i \in DOMAIN g : i \in DOMAIN e.old_leases /\ e.old_leases[i] = g[i] /\ g[i] \in gone
    BY <2>1, <2>3
  <2>5. \A i \in DOMAIN d.old_leases : /\ i + Len(g) \in DOMAIN e.old_leases
                                       /\ e.old_leases[i + Len(g)] = d.old_leases[i]
    BY <2>3
  <2>6. \A i \in DOMAIN e.old_leases : \/ i \in DOMAIN g /\ e.old_leases[i] = g[i]
                                       \/ /\ i - Len(g) \in DOMAIN d.old_leases
                                          /\ e.old_leases[i] = d.old_leases[i - Len(g)]
    BY <2>3
  <2> QED
    BY <2>1, <2>4, <2>5, <2>6 DEF Mentioned
<1>5. \A a : Leased(e, a) => Leased(d, a)
  BY <1>1 DEF Leased
<1>6. \A a : Leased(d, a) => Leased(e, a) \/ Mentioned(e, a)
  BY <1>1, <1>4 DEF Leased
<1>7. \A l \in e.leases : Mentioned(e, l.addr) => Mentioned(d, l.addr)
  BY <1>1, <1>3, <1>4 DEF DbOK, OneLeasePerAddr
<1>8. Remembered(s, e)
  BY <1>1, <1>4, <1>6 DEF Remembered
<1>9. Announced(s, d) => Announced(s, e)
  BY <1>1, <1>7 DEF Announced
<1> QED
  BY <1>8, <1>9

\* A new lease is to be announced, and nothing was there.
LEMMA AllocatedNews ==
    ASSUME NEW s, NEW d, DbOK(d), News(s, d), NEW a, ~Leased(d, a), NEW p, p = lease4_allocate(d, a)
    PROVE  News(s, p.d)
<1> DEFINE n == FreshLease(a)
<1>1. p = At([d EXCEPT !.leases = @ \cup {n}, !.leases_left = @ - 1, !.file_dirty = TRUE], n)
  BY DEF lease4_allocate
<1>2. n.addr = a /\ Flagged(n)
  BY DEF FreshLease, Flagged
<1> HIDE DEF n
<1>3. p.d.leases = d.leases \cup {n} /\ p.d.old_leases = d.old_leases
  <2>1. p.d = [d EXCEPT !.leases = @ \cup {n}, !.leases_left = @ - 1, !.file_dirty = TRUE]
    BY <1>1 DEF At
  <2>2. d \in Database
    BY DEF DbOK
  <2> QED
    BY <2>1, <2>2 DEF Database
<1>4. \A b : Mentioned(p.d, b) <=> Mentioned(d, b)
  BY <1>3 DEF Mentioned
<1>5. \A b : Leased(d, b) => Leased(p.d, b)
  BY <1>3 DEF Leased
<1>6. Remembered(s, d) => Unheard.name = NoName /\ (a \in Addrs /\ Fresh(s, a) /\ ~Mentioned(d, a) => View(s, a) = Unheard)
  BY DEF Remembered, Unheard
<1>7. Remembered(s, p.d)
  BY <1>2, <1>3, <1>4, <1>5, <1>6 DEF Remembered, News
<1>8. Announced(s, p.d)
  BY <1>2, <1>3, <1>4 DEF Announced, News
<1> QED
  BY <1>7, <1>8 DEF News

\* Edits and changes of names mark what the script has to hear.
LEMMA EditedNamesFollow ==
    ASSUME NEW p, PtrOK(p), NEW r, PtrOK(r),
           \/ Edited(p, r) /\ SameNames(r.l, p.l)
           \/ \E name, holder : Renamed(p, r, name, holder)
    PROVE  NamesFollow(p.d, r.d)
<1>1. /\ p.d.leases = Others(p) \cup {p.l} /\ r.d.leases = Others(r) \cup {r.l}
      /\ Others(p) \subseteq Lease
      /\ r.l.addr = p.l.addr /\ r.d.old_leases = p.d.old_leases /\ DbOK(p.d) /\ DbOK(r.d)
  BY OthersOK DEF Edited, Renamed, SameTable, PtrOK
<1>2. NameFollows(r.l, p.l)
  BY DEF Edited, Renamed, SameTable, NameFollows, SameNames
<1>3. CASE Edited(p, r)
  <2>1. \A l : NameFollows(l, l)
    BY DEF NameFollows, SameNames
  <2> QED
    BY <1>1, <1>2, <1>3, <2>1 DEF Edited, NamesFollow
<1>4. CASE \E name, holder : Renamed(p, r, name, holder)
  <2>1. PICK name, holder : Renamed(p, r, name, holder)
    BY <1>4
  <2>2. /\ holder \subseteq Others(p) /\ \A t \in holder : t.name # NoName
        /\ Others(r) = (Others(p) \ holder) \cup {kill_name(t) : t \in holder}
    BY <2>1 DEF Renamed
  <2>3. ASSUME NEW t \in holder PROVE kill_name(t).addr = t.addr /\ NameFollows(kill_name(t), t)
    <3>1. t \in Lease /\ t.name # NoName
      BY <1>1, <2>2
    <3> QED
      BY <3>1 DEF kill_name, NameFollows, Lease
  <2>4. \A l : NameFollows(l, l)
    BY DEF NameFollows, SameNames
  <2>5. \A k \in Others(r) : \E l \in Others(p) : k.addr = l.addr /\ NameFollows(k, l)
    BY <2>2, <2>3, <2>4
  <2>6. \A l \in Others(p) : \E k \in Others(r) : k.addr = l.addr
    BY <2>2, <2>3
  <2> QED
    BY <1>1, <1>2, <2>5, <2>6 DEF NamesFollow
<1> QED
  BY <1>3, <1>4

\* The news is kept by whatever a datagram does to the table.
LEMMA HandledNews ==
    ASSUME ServerInv, NEW s, News(s, db), NEW m, NEW d, HandledAs(m, d)
    PROVE  News(s, d)
<1>1. DbOK(db) /\ now \in Nat /\ DbOK(Pruned)
  BY PrunedOK DEF ServerInv, ServerTypeOK
<1>2. News(s, Pruned)
  BY <1>1, PrunedNews DEF News, Pruned
<1>3. ASSUME NEW e, Removed(m, e) PROVE News(s, e) /\ DbOK(e)
  <2>1. PICK lease : e = lease_prune(Pruned, {lease}, now)
    BY <1>3 DEF Removed
  <2> DEFINE target == {lease}
  <2>2. e = lease_prune(Pruned, target, now)
    BY <2>1
  <2> HIDE DEF target
  <2> QED
    BY <1>1, <1>2, <2>2, PrunedNews, lease_pruneOK DEF News
<1>4. ASSUME Marked(d) PROVE News(s, d)
  <2>1. PICK lease \in Pruned.leases : d = lease_set_interface(At(Pruned, lease)).d
    BY <1>4 DEF Marked
  <2> DEFINE p == At(Pruned, lease)
             r == lease_set_interface(p)
  <2>2. PtrOK(p) /\ p.d = Pruned
    BY <1>1, AtOK DEF At
  <2> HIDE DEF p
  <2>3. Edited(p, r) /\ SameNames(r.l, p.l)
    BY <2>2, lease_set_interfaceEdits
  <2> HIDE DEF r
  <2>4. NamesFollow(p.d, r.d)
    BY <2>2, <2>3, EditedNamesFollow DEF Edited, SameTable
  <2> QED
    BY <1>2, <2>1, <2>2, <2>4, NamesFollowed DEF News, r, p
<1>5. ASSUME Given(m, d) PROVE News(s, d)
  <2>1. PICK clid, exp, e, p, r :
           GivenFrom(m, e, p, clid) /\ Regranted(p, r, m.chaddr, clid, exp) /\ d = r.d
    BY <1>5 DEF Given
  <2>2. News(s, e) /\ DbOK(e)
    BY <1>1, <1>2, <1>3, <2>1 DEF GivenFrom
  <2>3. News(s, p.d)
    BY <2>1, <2>2, AllocatedNews DEF GivenFrom
  <2>4. NamesFollow(p.d, r.d)
    BY <2>1, EditedNamesFollow DEF Regranted
  <2> QED
    BY <2>1, <2>3, <2>4, NamesFollowed DEF News
<1> QED
  BY <1>2, <1>3, <1>4, <1>5 DEF HandledAs

(***************************************************************************)
(* The end of a handler.                                                   *)
(***************************************************************************)

\* rerun_scripts has everything announced again.
LEMMA RerunNews ==
    ASSUME NEW s, NEW d, DbOK(d), Remembered(s, d)
    PROVE  News(s, rerun_scripts(d))
<1> DEFINE h(l) == [l EXCEPT !.flags = @ \cup {"CHANGED"}]
           e == rerun_scripts(d)
<1>1. d \in Database /\ d.leases \subseteq Lease
  BY DEF DbOK, Database
<1>2. \A l \in d.leases : h(l).addr = l.addr /\ NameFollows(h(l), l) /\ Flagged(h(l))
  BY <1>1 DEF Lease, NameFollows, SameNames, Flagged
<1>3. e = [d EXCEPT !.leases = {h(l) : l \in @}]
  BY DEF rerun_scripts
<1> HIDE DEF h
<1>4. e.leases = {h(l) : l \in d.leases} /\ e.old_leases = d.old_leases
  <2> HIDE DEF e
  <2> QED
    BY <1>1, <1>3 DEF Database
<1>5. DbOK(e)
  BY rerun_scriptsOK
<1> HIDE DEF e
<1>6. NamesFollow(d, e)
  BY <1>2, <1>4, <1>5 DEF NamesFollow
<1>7. Remembered(s, e)
  BY <1>6, NamesFollowed
<1>8. Announced(s, e)
  BY <1>2, <1>4 DEF Announced
<1> QED
  BY <1>7, <1>8 DEF News, e

\* What has been told, and what is in the file, when a process with the table d dies.
LEMMA DiesLeft ==
    ASSUME LeaseScript, script \in Script,
           NEW d, Remembered(script, d), Dies(d)
    PROVE  /\ Left(script', file') /\ script'.buf = {}
           /\ script'.told = script.told /\ script.missed \subseteq script'.missed
<1> DEFINE lost == {e.addr : e \in script.buf}
                   \cup {d.old_leases[i].addr : i \in DOMAIN d.old_leases}
                   \cup {l.addr : l \in {k \in d.leases : k.oldname # NoName \/ Entry(k) \notin file'}}
<1>1. script' = [script EXCEPT !.buf = {}, !.missed = @ \cup lost]
  <2>1. script' = [ script EXCEPT !.buf = {}, !.missed = @ \cup {e.addr : e \in script.buf}
                        \cup {d.old_leases[i].addr : i \in DOMAIN d.old_leases}
                        \cup {l.addr : l \in {k \in d.leases : k.oldname # NoName
                                                              \/ Entry(k) \notin file'}} ]
    BY DEF Dies
  <2> QED
    BY <2>1 DEF Script
<1>2. \A a : a \notin lost =>
         /\ ~Buffered(script, a) /\ ~Mentioned(d, a)
         /\ \A l \in d.leases : l.addr = a => l.oldname = NoName /\ Entry(l) \in file'
  BY DEF Buffered, Mentioned
<1> HIDE DEF lost
<1>3. script'.buf = {} /\ script'.told = script.told /\ script'.missed = script.missed \cup lost
  BY <1>1 DEF Script
<1>4. ASSUME NEW a \in Addrs \ script'.missed
      PROVE  /\ (\A e \in file' : e.addr # a) => script.told[a] = Unheard
             /\ script.told[a].name # NoName => \E e \in file' : e.addr = a /\ e.name = script.told[a].name
  <2>1. /\ a \notin lost /\ Fresh(script, a) /\ View(script, a) = script.told[a]
        /\ ~Mentioned(d, a)
    BY <1>2, <1>3 DEF Fresh, View
  <2>2. CASE ~Leased(d, a)
    <3>1. View(script, a) = Unheard
      BY <2>1, <2>2 DEF Remembered
    <3>2. script.told[a] = Unheard /\ Unheard.name = NoName
      BY <2>1, <3>1 DEF Unheard
    <3> QED
      BY <3>2
  <2>3. CASE Leased(d, a)
    <3>1. PICK l \in d.leases : l.addr = a
      BY <2>3 DEF Leased
    <3>2. Entry(l) \in file' /\ Entry(l).addr = a /\ Entry(l).name = l.name /\ l.oldname = NoName
      BY <1>2, <2>1, <3>1 DEF Entry
    <3>3. View(script, a).name # NoName => l.name = View(script, a).name
      BY <2>1, <3>1, <3>2 DEF Remembered
    <3> HIDE DEF View
    <3> QED
      BY <2>1, <3>2, <3>3
  <2> QED
    BY <2>2, <2>3
<1> QED
  BY <1>3, <1>4 DEF Left

\* Fewer addresses to speak of, and nothing in the buffer.
LEMMA FewerKnown ==
    ASSUME NEW s, NEW t, t.buf = {}, t.told = s.told, s.missed \subseteq t.missed, ToldUnique(s)
    PROVE  ToldUnique(t) /\ ViewsUnique(t)
  BY ViewOfNone DEF ToldUnique, ViewsUnique

\* A death with a table whose news is known.
LEMMA DiesScript ==
    ASSUME ServerInv, ScriptInv, NEW d, LeaseScript => Remembered(script, d), Dies(d)
    PROVE  ScriptInv'
<1>1. script \in Script /\ up' = FALSE
  BY DEF ServerInv, ServerTypeOK, Dies
<1>2. CASE LeaseScript
  <2>1. /\ Left(script', file') /\ script'.buf = {}
        /\ script'.told = script.told /\ script.missed \subseteq script'.missed
    BY <1>1, <1>2, DiesLeft
  <2>2. ToldUnique(script') /\ ViewsUnique(script')
    BY <2>1, FewerKnown DEF ScriptInv
  <2> QED
    BY <1>1, <1>2, <2>1, <2>2 DEF ScriptInv
<1>3. CASE ~LeaseScript
  <2>1. script' = script
    BY <1>3 DEF Dies
  <2> QED
    BY <1>1, <1>3, <2>1 DEF ScriptInv
<1> QED
  BY <1>2, <1>3

\* Save leaves the news to be told, and a death takes it along.
LEMMA SaveScript ==
    ASSUME ServerInv, ScriptInv, NEW d, DbOK(d), NEW mode,
           LeaseScript => Remembered(script, d) /\ (mode = "reload" \/ Announced(script, d)),
           NEW armed, NEW memo2, NEW reply, Save(d, armed, mode, memo2, reply)
    PROVE  ScriptInv'
<1>1. CASE KilledWhileSaving(d)
  BY <1>1, DiesScript DEF KilledWhileSaving
<1>2. CASE ~KilledWhileSaving(d)
  <2> DEFINE toDns == mode = "reload" \/ (mode = "packet" /\ d.dns_dirty)
             saved(err) == [d EXCEPT !.file_dirty = @ /\ err, !.dns_dirty = @ /\ ~toDns]
  <2>1. PICK err \in BOOLEAN :
           /\ db' = Settled(IF mode = "reload" THEN rerun_scripts(saved(err)) ELSE saved(err))
           /\ up' = TRUE /\ script' = script
    BY <1>2 DEF Save
  <2>2. CASE LeaseScript
    <3>1. db' = IF mode = "reload" THEN rerun_scripts(saved(err)) ELSE saved(err)
      BY <2>1, <2>2 DEF Settled
    <3>2. /\ saved(err) \in Database /\ saved(err).leases = d.leases
          /\ saved(err).leases_left = d.leases_left /\ saved(err).old_leases = d.old_leases
      <4>1. d \in Database
        BY DEF DbOK
      <4> QED
        BY <4>1 DEF Database
    <3> HIDE DEF saved
    <3>3. DbOK(saved(err))
      BY <3>2, SameLeases
    <3>4. Remembered(script, saved(err)) /\ (mode = "reload" \/ Announced(script, saved(err)))
      BY <2>2, <3>2 DEF Remembered, Announced, Leased, Mentioned
    <3>5. News(script, db')
      BY <3>1, <3>3, <3>4, RerunNews DEF News
    <3> QED
      BY <2>1, <2>2, <3>5 DEF ScriptInv
  <2>3. CASE ~LeaseScript
    BY <2>1, <2>3 DEF ScriptInv
  <2> QED
    BY <2>2, <2>3
<1> QED
  BY <1>1, <1>2

(***************************************************************************)
(* The events.                                                             *)
(***************************************************************************)

\* A datagram.
LEMMA DhcpPacketScript ==
    ASSUME ServerInv, ScriptInv, NEW m \in RequestMsg, NEW answering, DhcpPacket(m, answering)
    PROVE  ScriptInv'
<1>1. PICK d, memo2, reply :
        /\ DbOK(d) /\ HandledAs(m, d)
        /\ Finish(d, memo2, reply) \/ NullDereference(d)
  BY DatagramHandled DEF Handled
<1>2. LeaseScript => News(script, d)
  BY <1>1, HandledNews DEF ScriptInv, DhcpPacket
<1>3. CASE Finish(d, memo2, reply)
  BY <1>1, <1>2, <1>3, SaveScript DEF Finish, News
<1>4. CASE NullDereference(d)
  BY <1>2, <1>4, DiesScript DEF NullDereference, News
<1> QED
  BY <1>1, <1>3, <1>4

\* The alarm.
LEMMA AlarmEventScript ==
    ASSUME ServerInv, ScriptInv, AlarmEvent
    PROVE  ScriptInv'
<1>1. DbOK(db) /\ DbOK(Pruned) /\ up
  BY PrunedOK DEF ServerInv, AlarmEvent
<1>2. LeaseScript => News(script, Pruned)
  BY <1>1, PrunedNews DEF ScriptInv, News, Pruned
<1>3. Save(Pruned, 0, "none", memo, {})
  BY DEF AlarmEvent
<1> QED
  BY <1>1, <1>2, <1>3, SaveScript DEF News

\* A reload has everything announced again, so it is enough that nothing that is
\* gone is forgotten.
LEMMA ReloadOfScript ==
    ASSUME ServerInv, ScriptInv, NEW d, DbOK(d), LeaseScript => Remembered(script, d),
           NEW conf \in Configurations, NEW armed, NEW memo2, ReloadOf(conf, d, armed, memo2)
    PROVE  ScriptInv'
<1>1. PICK pos \in Bijection(d.leases, 1 .. Cardinality(d.leases)) :
         Save(lease_update_from_configs(conf, d, pos), armed, "reload", memo2, {})
  BY DEF ReloadOf
<1> DEFINE e == lease_update_from_configs(conf, d, pos)
<1>2. DbOK(e)
  BY lease_update_from_configsOK
<1>3. /\ \A k \in e.leases : \E l \in d.leases : SameButName(k, l)
      /\ \A l \in d.leases : \E k \in e.leases : SameButName(k, l)
      /\ e.old_leases = d.old_leases
  BY ConfigsRename
<1>4. Save(e, armed, "reload", memo2, {})
  BY <1>1
<1> HIDE DEF e
<1>5. NamesFollow(d, e)
  BY <1>2, <1>3 DEF NamesFollow, SameButName
<1> QED
  BY <1>2, <1>4, <1>5, NamesFollowed, SaveScript

LEMMA ReloadScript ==
    ASSUME ServerInv, ScriptInv, Reload
    PROVE  ScriptInv'
<1> DEFINE memo2 == [memo EXCEPT !.declined = Reread(@)]
<1>1. /\ DbOK(db) /\ (LeaseScript => Remembered(script, db))
      /\ \E conf \in Configurations : ReloadOf(conf, db, alarm, memo2)
  BY DEF Reload, ServerInv, ScriptInv, News
<1> HIDE DEF memo2
<1> QED
  BY <1>1, ReloadOfScript

\* After a restart the file has what the script may believe in.
LEMMA RestartScript ==
    ASSUME ServerInv, ScriptInv, Restart
    PROVE  ScriptInv'
<1> DEFINE d == lease_init(file, now)
<1>1. now \in Nat /\ FileOK(file) /\ ~up
  BY DEF ServerInv, ServerTypeOK, Restart
<1>2. DbOK(d) /\ \E conf \in Configurations : ReloadOf(conf, d, 0, memo)
  BY <1>1, lease_initOK DEF Restart
<1>3. /\ d.leases \subseteq FromFile(file)
      /\ \A l \in FromFile(file) \ d.leases : \E i \in DOMAIN d.old_leases : d.old_leases[i] = l
  BY <1>1, lease_initReads
<1> HIDE DEF d
<1>4. ASSUME LeaseScript PROVE Remembered(script, d)
  <2>1. Left(script, file) /\ script.buf = {}
    BY <1>1, <1>4 DEF ScriptInv
  <2>2. ASSUME NEW e \in file PROVE \E l \in FromFile(file) : l.addr = e.addr /\ l.name = e.name
    <3> DEFINE lease(x) == [ addr |-> x.addr, hw |-> x.hw, clid |-> x.clid, expires |-> x.expires,
                             name |-> x.name, oldname |-> NoName, iface |-> FALSE, flags |-> {} ]
    <3>1. lease(e).addr = e.addr /\ lease(e).name = e.name
      OBVIOUS
    <3>2. FromFile(file) = {lease(x) : x \in file}
      BY DEF FromFile
    <3> HIDE DEF lease
    <3> QED
      BY <3>1, <3>2
  <2>3. \A k, l \in FromFile(file) : k.addr = l.addr => k = l
    BY <1>1, FromFileOK
  <2> SUFFICES ASSUME NEW a \in Addrs, Fresh(script, a), ~Mentioned(d, a)
               PROVE  /\ ~Leased(d, a) => View(script, a) = Unheard
                      /\ \A l \in d.leases :
                            l.addr = a /\ l.oldname = NoName /\ View(script, a).name # NoName
                            => l.name = View(script, a).name
    BY DEF Remembered
  <2>4. a \notin script.missed /\ View(script, a) = script.told[a]
    BY <2>1, ViewOfNone
  <2>5. \A l \in FromFile(file) : l.addr = a => l \in d.leases
    BY <1>3 DEF Mentioned
  <2>6. ~Leased(d, a) => \A e \in file : e.addr # a
    BY <2>2, <2>5 DEF Leased
  <2>7. ~Leased(d, a) => View(script, a) = Unheard
    BY <2>1, <2>4, <2>6 DEF Left
  <2>8. ASSUME View(script, a).name # NoName, NEW l \in d.leases, l.addr = a
        PROVE  l.name = View(script, a).name
    <3>1. \E e \in file : e.addr = a /\ e.name = script.told[a].name
      BY <2>1, <2>4, <2>8 DEF Left
    <3>2. PICK k \in FromFile(file) : k.addr = a /\ k.name = script.told[a].name
      BY <2>2, <3>1
    <3>3. k = l
      BY <1>3, <2>3, <2>8, <3>2
    <3> QED
      BY <2>4, <3>2, <3>3
  <2> QED
    BY <2>7, <2>8
<1> QED
  BY <1>2, <1>4, ReloadOfScript

\* dnsmasq is killed between two events.
LEMMA CrashScript ==
    ASSUME ServerInv, ScriptInv, Crash
    PROVE  ScriptInv'
  BY DiesScript DEF Crash, ScriptInv, News

\* Nothing happens that the script has to do with.
LEMMA UnheardOfScript ==
    ASSUME ScriptInv, db' = db, script' = script, up' = up, file' = file
    PROVE  ScriptInv'
  BY DEF ScriptInv

\* The script's beliefs where they are fresh, and the addresses they are about.
LEMMA SameViews ==
    ASSUME NEW s, NEW t, \A a \in Addrs : Fresh(t, a) => Fresh(s, a) /\ View(t, a) = View(s, a)
    PROVE  /\ \A d : News(s, d) => News(t, d)
           /\ ViewsUnique(s) => ViewsUnique(t)
<1>1. \A d : Remembered(s, d) => Remembered(t, d)
  BY DEF Remembered
<1>2. \A d : Announced(s, d) => Announced(t, d)
  BY DEF Announced
<1>3. ViewsUnique(s) => ViewsUnique(t)
  BY DEF ViewsUnique
<1> QED
  BY <1>1, <1>2, <1>3 DEF News

\* The helper writes to its pipe, or finds it broken.
LEMMA HelperWriteScript ==
    ASSUME ServerInv, ScriptInv, HelperWrite
    PROVE  ScriptInv'
<1>1. PICK e \in script.buf :
         \/ script' = [ buf |-> {}, told |-> [script.told EXCEPT ![e.addr] = Heard(e)],
                        missed |-> script.missed \ {e.addr} ]
         \/ script' = [script EXCEPT !.buf = {}, !.missed = @ \cup {e.addr}]
  BY DEF HelperWrite
<1>2. script \in Script /\ script.buf = {e} /\ LeaseScript
  BY DEF ServerInv, ServerTypeOK, ScriptInv
<1>3. /\ \A a : View(script, a) = IF a = e.addr THEN Heard(e) ELSE script.told[a]
      /\ \A a : Fresh(script, a) <=> a \notin script.missed \/ a = e.addr
  BY <1>2, ViewOfOne
<1>4. script'.buf = {}
  <2> DEFINE told == [script.told EXCEPT ![e.addr] = Heard(e)]
             rest == script.missed \ {e.addr}
             more == script.missed \cup {e.addr}
             none == {}
  <2>1. \/ script' = [buf |-> none, told |-> told, missed |-> rest]
        \/ script' = [script EXCEPT !.buf = none, !.missed = more]
    BY <1>1
  <2> HIDE DEF told, rest, more, none
  <2>2. [script EXCEPT !.buf = none, !.missed = more].buf = none
    BY <1>2 DEF Script
  <2>3. [buf |-> none, told |-> told, missed |-> rest].buf = none
    OBVIOUS
  <2>4. CASE script' = [buf |-> none, told |-> told, missed |-> rest]
    BY ONLY <2>3, <2>4 DEF none
  <2>5. CASE script' = [script EXCEPT !.buf = none, !.missed = more]
    BY ONLY <2>2, <2>5 DEF none
  <2> QED
    BY <2>1, <2>4, <2>5
<1>5. \A a : View(script', a) = script'.told[a] /\ (Fresh(script', a) <=> a \notin script'.missed)
  BY <1>4, ViewOfNone
<1>6. up /\ up' = up /\ db' = db /\ file' = file
  BY DEF HelperWrite
<1>7. /\ \A a \in Addrs : Fresh(script', a) => Fresh(script, a) /\ View(script', a) = View(script, a)
      /\ ToldUnique(script')
  <2>1. CASE script' = [ buf |-> {}, told |-> [script.told EXCEPT ![e.addr] = Heard(e)],
                         missed |-> script.missed \ {e.addr} ]
    <3> DEFINE h == Heard(e)
    <3>1. /\ script'.told = [script.told EXCEPT ![e.addr] = h]
          /\ script'.missed = script.missed \ {e.addr}
      BY <2>1
    <3>2. script.told \in [Addrs -> Word]
      BY <1>2 DEF Script
    <3> HIDE DEF h
    <3>3. \A a \in Addrs : script'.told[a] = IF a = e.addr THEN h ELSE script.told[a]
      BY <3>1, <3>2
    <3>4. \A a \in Addrs : Fresh(script', a) => Fresh(script, a) /\ View(script', a) = View(script, a)
      BY <1>3, <1>5, <3>1, <3>3 DEF h
    <3>5. ViewsUnique(script')
      BY <3>4, SameViews DEF ScriptInv
    <3>6. ToldUnique(script')
      BY <1>5, <3>5 DEF ViewsUnique, ToldUnique
    <3> QED
      BY <3>4, <3>6
  <2>2. CASE script' = [script EXCEPT !.buf = {}, !.missed = @ \cup {e.addr}]
    <3>1. script'.told = script.told /\ script'.missed = script.missed \cup {e.addr}
      BY <1>2, <2>2 DEF Script
    <3> QED
      BY <1>3, <1>5, <3>1 DEF ScriptInv, ToldUnique
  <2> QED
    BY <1>1, <2>1, <2>2
<1>8. News(script', db') /\ ViewsUnique(script')
  BY <1>2, <1>6, <1>7, SameViews DEF ScriptInv
<1> QED
  BY <1>2, <1>4, <1>6, <1>7, <1>8 DEF ScriptInv

\* What the script will believe of the address of an event.
LEMMA HeardOf ==
    ASSUME NEW l, NEW name
    PROVE  /\ Heard([action |-> "del", addr |-> l.addr, name |-> name]) = Unheard
           /\ Heard([action |-> "old_hostname", addr |-> l.addr, name |-> name])
              = [present |-> TRUE, name |-> NoName]
           /\ Heard([action |-> "add", addr |-> l.addr, name |-> name]) = [present |-> TRUE, name |-> name]
           /\ Heard([action |-> "old", addr |-> l.addr, name |-> name]) = [present |-> TRUE, name |-> name]
  BY DEF Heard

\* One event is queued, about the address of l, after which the script believes w.
Believes(l, w) ==
    \A a \in Addrs :
        /\ View(script', a) = IF a = l.addr THEN w ELSE View(script, a)
        /\ Fresh(script', a) <=> Fresh(script, a) \/ a = l.addr

LEMMA QueuedIsBelieved ==
    ASSUME script.buf = {}, script'.told = script.told, script'.missed = script.missed,
           NEW action, NEW l, NEW name, Queued(action, l, name),
           NEW w, Heard([action |-> action, addr |-> l.addr, name |-> name]) = w
    PROVE  Believes(l, w)
<1> DEFINE e == [action |-> action, addr |-> l.addr, name |-> name]
<1>1. script'.buf = {e} /\ e.addr = l.addr /\ Heard(e) = w
  BY DEF Queued
<1> HIDE DEF e
<1>2. ASSUME NEW a
      PROVE  /\ View(script', a) = IF a = e.addr THEN Heard(e) ELSE script'.told[a]
             /\ Fresh(script', a) <=> a \notin script'.missed \/ a = e.addr
  <2> DEFINE t == script'
  <2>1. t.buf = {e}
    BY <1>1
  <2> HIDE DEF t
  <2>2. /\ View(t, a) = IF a = e.addr THEN Heard(e) ELSE t.told[a]
        /\ Fresh(t, a) <=> a \notin t.missed \/ a = e.addr
    BY <2>1, ViewOfOne
  <2> QED
    BY <2>2 DEF t
<1>3. \A a : View(script, a) = script.told[a] /\ (Fresh(script, a) <=> a \notin script.missed)
  BY ViewOfNone
<1> QED
  BY <1>1, <1>2, <1>3 DEF Believes

\* What is not about the address of the event stays as it was.
LEMMA OthersBelieved ==
    ASSUME NEW l, NEW w, Believes(l, w), NEW a \in Addrs, a # l.addr
    PROVE  View(script', a) = View(script, a) /\ (Fresh(script', a) <=> Fresh(script, a))
  BY DEF Believes

\* The loss of the name of a removed lease, or the removal of a lease.
LEMMA RemovalNews ==
    ASSUME News(script, db), db.old_leases # <<>>, db.old_leases \in Seq(Lease),
           db'.leases = db.leases, NEW w, w.name = NoName, Believes(db.old_leases[1], w),
           \/ /\ DOMAIN db'.old_leases = DOMAIN db.old_leases
              /\ \A i \in DOMAIN db.old_leases : db'.old_leases[i].addr = db.old_leases[i].addr
           \/ db'.old_leases = Tail(db.old_leases) /\ w = Unheard
    PROVE  News(script', db')
<1> DEFINE head == db.old_leases[1]
<1>1. Mentioned(db, head.addr)
  BY DEF Mentioned
<1>2. /\ \A a : Mentioned(db', a) => Mentioned(db, a)
      /\ \A a : Mentioned(db, a) => Mentioned(db', a) \/ (a = head.addr /\ w = Unheard)
  <2>1. CASE /\ DOMAIN db'.old_leases = DOMAIN db.old_leases
             /\ \A i \in DOMAIN db.old_leases : db'.old_leases[i].addr = db.old_leases[i].addr
    BY <2>1 DEF Mentioned
  <2>2. CASE db'.old_leases = Tail(db.old_leases) /\ w = Unheard
    <3> DEFINE q == db.old_leases
               n == Len(q)
    <3>1. /\ n \in Nat \ {0} /\ DOMAIN q = 1 .. n
          /\ DOMAIN Tail(q) = 1 .. n - 1 /\ \A i \in 1 .. n - 1 : Tail(q)[i] = q[i + 1]
      OBVIOUS
    <3>2. db.old_leases = q /\ head = q[1] /\ db'.old_leases = Tail(q)
      BY <2>2
    <3> DEFINE r == Tail(q)
    <3> HIDE DEF q, n, head
    <3>3. \A i \in DOMAIN r : i + 1 \in DOMAIN q /\ r[i] = q[i + 1]
      BY <3>1
    <3>4. \A i \in DOMAIN q : i = 1 \/ (i - 1 \in DOMAIN r /\ r[i - 1] = q[i])
      BY <3>1
    <3> HIDE DEF r
    <3>5. db'.old_leases = r
      BY <3>2 DEF r
    <3>6. \A a : Mentioned(db', a) => Mentioned(db, a)
      BY <3>2, <3>5, <3>3 DEF Mentioned
    <3>7. ASSUME NEW a, Mentioned(db, a)
          PROVE  Mentioned(db', a) \/ a = head.addr
      <4>1. PICK i \in DOMAIN q : q[i].addr = a
        BY <3>7, <3>2 DEF Mentioned
      <4>2. CASE i = 1
        BY <3>2, <4>1, <4>2
      <4>3. CASE i # 1
        BY <3>4, <3>5, <4>1, <4>3 DEF Mentioned
      <4> QED
        BY <4>2, <4>3
    <3> QED
      BY <2>2, <3>6, <3>7
  <2> QED
    BY <2>1, <2>2
<1> HIDE DEF head
<1>3. \A a : Leased(db', a) <=> Leased(db, a)
  BY DEF Leased
<1>4. Believes(head, w)
  BY DEF head
<1>5. Remembered(script', db')
  <2> SUFFICES ASSUME NEW a \in Addrs, Fresh(script', a), ~Mentioned(db', a)
               PROVE  /\ ~Leased(db', a) => View(script', a) = Unheard
                      /\ \A l \in db'.leases :
                            l.addr = a /\ l.oldname = NoName /\ View(script', a).name # NoName
                            => l.name = View(script', a).name
    BY DEF Remembered
  <2>1. CASE a = head.addr
    BY <1>1, <1>2, <1>4, <2>1 DEF Believes
  <2>2. CASE a # head.addr
    <3>1. View(script', a) = View(script, a) /\ Fresh(script, a) /\ ~Mentioned(db, a)
      BY <1>2, <1>4, <2>2, OthersBelieved
    <3> QED
      BY <1>3, <3>1 DEF News, Remembered
  <2> QED
    BY <2>1, <2>2
<1>6. Announced(script', db')
  <2> SUFFICES ASSUME NEW l \in db.leases, ~Flagged(l)
               PROVE  /\ ~Mentioned(db', l.addr)
                      /\ l.oldname # NoName => l.name = NoName
                      /\ l.oldname = NoName /\ l.addr \in Addrs /\ Fresh(script', l.addr) =>
                            View(script', l.addr) = [present |-> TRUE, name |-> l.name]
    BY DEF Announced
  <2>1. ~Mentioned(db, l.addr)
    BY DEF News, Announced
  <2>2. l.addr # head.addr
    BY <1>1, <2>1
  <2>3. l.addr \in Addrs => /\ View(script', l.addr) = View(script, l.addr)
                            /\ Fresh(script', l.addr) <=> Fresh(script, l.addr)
    BY <1>4, <2>2, OthersBelieved
  <2> QED
    BY <1>2, <2>1, <2>3 DEF News, Announced
<1> QED
  BY <1>5, <1>6 DEF News

\* The loss of the name of a lease, or a lease as it is.
LEMMA LeaseNews ==
    ASSUME ServerInv, News(script, db), db.old_leases = <<>>,
           NEW l \in db.leases, NEW l2, Replaced(l, l2),
           l2.addr = l.addr, l2.name = l.name, l2.oldname = NoName,
           NEW w, Believes(l, w),
           w = [present |-> TRUE, name |-> l.name]
           \/ (w = [present |-> TRUE, name |-> NoName] /\ (Flagged(l2) \/ l.name = NoName))
    PROVE  News(script', db')
<1>1. \A a : ~Mentioned(db, a) /\ ~Mentioned(db', a)
  BY DEF Mentioned, Replaced
<1>2. db'.leases = (db.leases \ {l}) \cup {l2} /\ OneLeasePerAddr(db)
  BY DEF Replaced, ServerInv, DbOK
<1>3. \A a : Leased(db', a) <=> Leased(db, a)
  BY <1>2 DEF Leased
<1>4. \A k \in db'.leases : k = l2 \/ (k \in db.leases /\ k.addr # l.addr)
  BY <1>2 DEF OneLeasePerAddr
<1>5. w.name \in {l.name, NoName}
  OBVIOUS
<1>6. Remembered(script', db')
  <2> SUFFICES ASSUME NEW a \in Addrs, Fresh(script', a)
               PROVE  /\ ~Leased(db', a) => View(script', a) = Unheard
                      /\ \A k \in db'.leases :
                            k.addr = a /\ k.oldname = NoName /\ View(script', a).name # NoName
                            => k.name = View(script', a).name
    BY DEF Remembered
  <2>1. CASE a = l.addr
    <3>1. Leased(db', a) /\ View(script', a) = w
      BY <1>3, <2>1 DEF Leased, Believes
    <3> QED
      BY <1>4, <1>5, <2>1, <3>1
  <2>2. CASE a # l.addr
    <3>1. View(script', a) = View(script, a) /\ Fresh(script, a)
      BY <2>2, OthersBelieved
    <3> QED
      BY <1>1, <1>3, <1>4, <2>2, <3>1 DEF News, Remembered
  <2> QED
    BY <2>1, <2>2
<1>7. Announced(script', db')
  <2> SUFFICES ASSUME NEW k \in db'.leases, ~Flagged(k)
               PROVE  /\ k.oldname # NoName => k.name = NoName
                      /\ k.oldname = NoName /\ k.addr \in Addrs /\ Fresh(script', k.addr) =>
                            View(script', k.addr) = [present |-> TRUE, name |-> k.name]
    BY <1>1 DEF Announced
  <2>1. CASE k = l2
    BY <2>1 DEF Believes
  <2>2. CASE k \in db.leases /\ k.addr # l.addr
    <3>1. k.addr \in Addrs => /\ View(script', k.addr) = View(script, k.addr)
                              /\ Fresh(script', k.addr) <=> Fresh(script, k.addr)
      BY <2>2, OthersBelieved
    <3> QED
      BY <2>2, <3>1 DEF News, Announced
  <2> QED
    BY <1>4, <2>1, <2>2
<1> QED
  BY <1>6, <1>7 DEF News

\* The event gives the script no name that it believes elsewhere.
LEMMA BelievedUnique ==
    ASSUME ViewsUnique(script), NEW l, NEW w, Believes(l, w),
           w.name = NoName
           \/ \A a \in Addrs : Fresh(script, a) /\ a # l.addr => View(script, a).name # w.name
    PROVE  ViewsUnique(script')
<1> SUFFICES ASSUME NEW a \in Addrs, NEW b \in Addrs, Fresh(script', a), Fresh(script', b), a # b,
                    View(script', a).name # NoName
             PROVE  View(script', a).name # View(script', b).name
  BY DEF ViewsUnique
<1>1. CASE a # l.addr /\ b # l.addr
  BY <1>1, OthersBelieved DEF ViewsUnique
<1>2. CASE a = l.addr \/ b = l.addr
  BY <1>2 DEF Believes
<1> QED
  BY <1>1, <1>2

\* do_script_run.
LEMMA DoScriptRunScript ==
    ASSUME ServerInv, ServerInv', TableInv, ScriptInv, DoScriptRun
    PROVE  ScriptInv'
<1>1. /\ up /\ up' = up /\ LeaseScript /\ script.buf = {} /\ file' = file
      /\ script'.told = script.told /\ script'.missed = script.missed
      /\ NameOfRemoved \/ Removal \/ NameOfLease \/ NewsOfLease
  BY DoScriptRunQueues
<1>2. News(script, db) /\ ViewsUnique(script) /\ ToldUnique(script')
  BY <1>1 DEF ScriptInv, ToldUnique
<1>3. db.old_leases \in Seq(Lease) /\ db.leases \subseteq Lease
  BY DEF ServerInv, DbOK, Database
<1> DEFINE none == [present |-> TRUE, name |-> NoName]
           word(l) == [present |-> TRUE, name |-> l.name]
<1>4. /\ News(script', db') /\ ViewsUnique(script')
      /\ \E e : script'.buf = {e}
  <2>1. CASE NameOfRemoved
    <3>1. Believes(db.old_leases[1], none)
      <4> DEFINE head == db.old_leases[1]
      <4>1. Queued("old_hostname", head, head.oldname)
        BY <2>1 DEF NameOfRemoved
      <4> HIDE DEF head
      <4>2. Heard([action |-> "old_hostname", addr |-> head.addr, name |-> head.oldname]) = none
        BY HeardOf
      <4>3. Believes(head, none)
        BY <1>1, <4>1, <4>2, QueuedIsBelieved
      <4> QED
        BY <4>3 DEF head
    <3>2. none.name = NoName
      OBVIOUS
    <3> HIDE DEF none
    <3> QED
      BY <1>2, <1>3, <2>1, <3>1, <3>2, RemovalNews, BelievedUnique DEF NameOfRemoved, Queued
  <2>2. CASE Removal
    <3>1. Believes(db.old_leases[1], Unheard)
      <4> DEFINE head == db.old_leases[1]
      <4>1. Queued("del", head, head.name)
        BY <2>2 DEF Removal
      <4> HIDE DEF head
      <4>2. Heard([action |-> "del", addr |-> head.addr, name |-> head.name]) = Unheard
        BY HeardOf
      <4>3. Believes(head, Unheard)
        BY <1>1, <4>1, <4>2, QueuedIsBelieved
      <4> QED
        BY <4>3 DEF head
    <3>2. Unheard.name = NoName
      BY DEF Unheard
    <3> QED
      BY <1>2, <1>3, <2>2, <3>1, <3>2, RemovalNews, BelievedUnique DEF Removal, Queued
  <2>3. CASE NameOfLease
    <3> DEFINE silent(l) == [l EXCEPT !.oldname = NoName]
    <3>1. PICK l \in db.leases : /\ l.oldname # NoName /\ Queued("old_hostname", l, l.oldname)
                                 /\ Replaced(l, silent(l)) /\ db.old_leases = <<>>
      BY <2>3 DEF NameOfLease
    <3>2. /\ silent(l).addr = l.addr /\ silent(l).name = l.name /\ silent(l).oldname = NoName
          /\ silent(l).flags = l.flags
      BY <1>3 DEF Lease
    <3>3. Flagged(silent(l)) \/ l.name = NoName
      BY <1>2, <3>1, <3>2 DEF News, Announced, Flagged
    <3>4. Believes(l, none)
      BY <1>1, <3>1, QueuedIsBelieved, HeardOf
    <3> HIDE DEF silent
    <3>5. News(script', db')
      BY <1>2, <3>1, <3>2, <3>3, <3>4, LeaseNews
    <3>6. none.name = NoName
      OBVIOUS
    <3> HIDE DEF none
    <3> QED
      BY <1>2, <3>1, <3>4, <3>5, <3>6, BelievedUnique DEF Queued
  <2>4. CASE NewsOfLease
    <3> DEFINE known(l) == [l EXCEPT !.flags = @ \ {"NEW", "CHANGED"}]
    <3>1. PICK l \in db.leases : /\ Queued("add", l, l.name) \/ Queued("old", l, l.name)
                                 /\ Replaced(l, known(l)) /\ db.old_leases = <<>>
                                 /\ \A k \in db.leases : k.oldname = NoName
      BY <2>4 DEF NewsOfLease
    <3>2. known(l).addr = l.addr /\ known(l).name = l.name /\ known(l).oldname = NoName
      BY <1>3, <3>1 DEF Lease
    <3>3. Believes(l, word(l))
      <4>1. /\ Heard([action |-> "add", addr |-> l.addr, name |-> l.name]) = word(l)
            /\ Heard([action |-> "old", addr |-> l.addr, name |-> l.name]) = word(l)
        BY HeardOf
      <4> HIDE DEF word
      <4> QED
        BY <1>1, <3>1, <4>1, QueuedIsBelieved
    <3> HIDE DEF known
    <3>4. News(script', db')
      BY <1>2, <3>1, <3>2, <3>3, LeaseNews
    <3>5. ASSUME l.name # NoName, NEW a \in Addrs, Fresh(script, a), a # l.addr
          PROVE  View(script, a).name # l.name
      <4>1. CASE ~Leased(db, a)
        <5>1. View(script, a) = Unheard
          BY <1>2, <3>1, <3>5, <4>1 DEF News, Remembered, Mentioned
        <5> QED
          BY <3>5, <5>1 DEF Unheard
      <4>2. CASE Leased(db, a)
        <5>1. PICK k \in db.leases : k.addr = a
          BY <4>2 DEF Leased
        <5>2. View(script, a).name # NoName => k.name = View(script, a).name
          BY <1>2, <3>1, <3>5, <5>1 DEF News, Remembered, Mentioned
        <5>3. k.name # l.name
          BY <3>5, <5>1 DEF TableInv, GoodTable, OneLeasePerName
        <5> QED
          BY <3>5, <5>2, <5>3
      <4> QED
        BY <4>1, <4>2
    <3>6. word(l).name = l.name
      OBVIOUS
    <3> HIDE DEF word
    <3> QED
      BY <1>2, <3>1, <3>3, <3>4, <3>5, <3>6, BelievedUnique DEF Queued
  <2> QED
    BY <1>1, <2>1, <2>2, <2>3, <2>4
<1>5. \E e \in Event : script'.buf = {e}
  BY <1>4 DEF ServerInv, ServerTypeOK, Script
<1> QED
  BY <1>1, <1>2, <1>4, <1>5 DEF ScriptInv

\* SIGTERM: the script is told what it does not know yet.
LEMMA TerminateScript ==
    ASSUME ServerInv, TableInv, ScriptInv, Terminate
    PROVE  ScriptInv'
<1> DEFINE pending == {e.addr : e \in script.buf}
                      \cup {db.old_leases[i].addr : i \in DOMAIN db.old_leases}
                      \cup {l.addr : l \in {k \in db.leases :
                                k.oldname # NoName \/ k.flags \cap {"NEW", "CHANGED"} # {}}}
           unsaved == {l.addr : l \in {k \in db.leases : Entry(k) \notin file}}
           final(a) == IF ~Leased(db, a) THEN Unheard
                       ELSE [present |-> TRUE, name |-> (CHOOSE l \in db.leases : l.addr = a).name]
           told == [a \in Addrs |-> IF a \in pending THEN final(a) ELSE script.told[a]]
           missed == (script.missed \ pending) \cup unsaved
<1>1. /\ up /\ up' = FALSE /\ file' = file
      /\ script' = IF ~LeaseScript THEN script ELSE [buf |-> {}, missed |-> missed, told |-> told]
  BY DEF Terminate
<1>2. CASE ~LeaseScript
  BY <1>1, <1>2 DEF ScriptInv
<1>3. CASE LeaseScript
  <2>1. script'.buf = {} /\ script'.missed = missed /\ script'.told = told
    <3> HIDE DEF missed, told
    <3> QED
      BY <1>1, <1>3
  <2>2. News(script, db)
    BY <1>1, <1>3 DEF ScriptInv
  <2>3. ASSUME NEW a, a \notin pending
        PROVE  /\ ~Buffered(script, a) /\ ~Mentioned(db, a)
               /\ \A l \in db.leases : l.addr = a => l.oldname = NoName /\ ~Flagged(l)
    BY <2>3 DEF Buffered, Mentioned, Flagged
  <2>4. \A l \in db.leases : l.addr \notin unsaved => Entry(l) \in file
    OBVIOUS
  <2>5. \A a \in Addrs : told[a] = IF a \in pending THEN final(a) ELSE script.told[a]
    <3> HIDE DEF pending, final
    <3> QED
      OBVIOUS
  <2>6. \A a : a \notin missed => a \notin unsaved /\ (a \in pending \/ a \notin script.missed)
    OBVIOUS
  <2> HIDE DEF pending, unsaved, missed, told
  <2>7. ASSUME NEW a \in Addrs \ missed
        PROVE  /\ ~Leased(db, a) => told[a] = Unheard
               /\ \A l \in db.leases : l.addr = a => told[a] = [present |-> TRUE, name |-> l.name]
    <3>1. CASE a \in pending
      <4>1. \A l \in db.leases : l.addr = a => l = CHOOSE k \in db.leases : k.addr = a
        BY DEF ServerInv, DbOK, OneLeasePerAddr
      <4>2. told[a] = final(a)
        BY <2>5, <3>1
      <4> QED
        BY <4>1, <4>2 DEF Leased
    <3>2. CASE a \notin pending
      <4>1. told[a] = script.told[a] /\ View(script, a) = script.told[a] /\ Fresh(script, a)
        BY <2>3, <2>5, <2>6, <3>2 DEF View, Fresh
      <4>2. ~Leased(db, a) => View(script, a) = Unheard
        BY <2>2, <2>3, <3>2, <4>1 DEF News, Remembered
      <4>3. \A l \in db.leases : l.addr = a => View(script, a) = [present |-> TRUE, name |-> l.name]
        BY <2>2, <2>3, <3>2, <4>1 DEF News, Announced
      <4> HIDE DEF final
      <4> QED
        BY <4>1, <4>2, <4>3
    <3> QED
      BY <3>1, <3>2
  <2> HIDE DEF final
  <2>8. ASSUME NEW a \in Addrs \ missed, told[a].name # NoName
        PROVE  \E l \in db.leases : l.addr = a /\ l.name = told[a].name
    <3>1. Unheard.name = NoName
      BY DEF Unheard
    <3>2. PICK l \in db.leases : l.addr = a
      BY <2>7, <2>8, <3>1 DEF Leased
    <3>3. told[a] = [present |-> TRUE, name |-> l.name]
      BY <2>7, <3>2
    <3>4. told[a].name = l.name
      BY <3>3
    <3> QED
      BY <3>2, <3>4
  <2>9. ToldUnique(script')
    <3> SUFFICES ASSUME NEW a \in Addrs \ missed, NEW b \in Addrs \ missed, a # b,
                        told[a].name # NoName, told[a].name = told[b].name
                 PROVE  FALSE
      BY <2>1 DEF ToldUnique
    <3>1. PICK k \in db.leases : k.addr = a /\ k.name = told[a].name
      BY <2>8
    <3>2. PICK l \in db.leases : l.addr = b /\ l.name = told[b].name
      BY <2>8
    <3> QED
      BY <3>1, <3>2 DEF TableInv, GoodTable, OneLeasePerName
  <2>10. Left(script', file')
    <3> SUFFICES ASSUME NEW a \in Addrs \ missed
                 PROVE  /\ (\A e \in file : e.addr # a) => told[a] = Unheard
                        /\ told[a].name # NoName => \E e \in file : e.addr = a /\ e.name = told[a].name
      BY <1>1, <2>1 DEF Left
    <3>1. \A l \in db.leases : l.addr = a =>
             Entry(l) \in file /\ Entry(l).addr = a /\ Entry(l).name = l.name
      BY <2>4, <2>6 DEF Entry
    <3>2. (\A e \in file : e.addr # a) => told[a] = Unheard
      BY <2>7, <3>1 DEF Leased
    <3>3. told[a].name # NoName => \E e \in file : e.addr = a /\ e.name = told[a].name
      BY <2>8, <3>1
    <3> QED
      BY <3>2, <3>3
  <2>11. ViewsUnique(script')
    BY <2>1, <2>9, ViewOfNone DEF ViewsUnique, ToldUnique
  <2> QED
    BY <1>1, <1>3, <2>1, <2>9, <2>10, <2>11 DEF ScriptInv
<1> QED
  BY <1>2, <1>3

(***************************************************************************)
(* The invariant and the theorems.                                         *)
(***************************************************************************)

\* Every event that is no datagram.
LEMMA ServerNextScript ==
    ASSUME ServerInv, ServerInv', TableInv, ScriptInv, ServerNext
    PROVE  ScriptInv'
<1>1. CASE Tick
  BY <1>1, UnheardOfScript DEF Tick
<1> QED
  BY <1>1, AlarmEventScript, ReloadScript, RestartScript, DoScriptRunScript, HelperWriteScript,
     CrashScript, TerminateScript
  DEF ServerNext

\* Every step.
LEMMA StepScript == IInv /\ IInv' /\ TableInv /\ ScriptInv /\ [Next]_vars => ScriptInv'
<1> SUFFICES ASSUME IInv, IInv', TableInv, ScriptInv, [Next]_vars PROVE ScriptInv'
  OBVIOUS
<1>1. ServerInv /\ ServerInv'
  BY DEF IInv
<1>2. ASSUME NEW m \in ClientMsgs, Receive(m)
      PROVE  ScriptInv'
  <2>1. m \in RequestMsg /\ \E answering : DhcpPacket(m, answering)
    BY <1>2, AloneAssumption DEF Receive
  <2> QED
    BY <1>1, <2>1, DhcpPacketScript
<1>3. CASE Other(ServerNext)
  BY <1>1, <1>3, ServerNextScript DEF Other
<1>4. CASE Deliver \/ UNCHANGED vars
  BY <1>4, UnheardOfScript DEF Deliver, vars, server
<1> QED
  BY <1>2, <1>3, <1>4 DEF Next

\* The script has heard of nothing, and there is nothing.
LEMMA InitScript == Init => ScriptInv
<1> SUFFICES ASSUME Init PROVE ScriptInv
  OBVIOUS
<1> DEFINE told == [a \in Addrs |-> Unheard]
<1>1. /\ script = [buf |-> {}, told |-> told, missed |-> {}] /\ db = EmptyDb /\ up = TRUE
  BY DEF Init, ServerInit
<1>2. \A a \in Addrs : told[a] = Unheard
  OBVIOUS
<1> HIDE DEF told
<1>3. script.buf = {} /\ script.told = told
  BY <1>1
<1>4. \A a \in Addrs : script.told[a] = Unheard /\ View(script, a) = Unheard
  BY <1>2, <1>3, ViewOfNone
<1>5. Unheard.name = NoName
  BY DEF Unheard
<1>6. ViewsUnique(script) /\ ToldUnique(script)
  BY <1>4, <1>5 DEF ViewsUnique, ToldUnique
<1>7. db.leases = {}
  BY <1>1 DEF EmptyDb
<1>8. News(script, db)
  BY <1>4, <1>7 DEF News, Remembered, Announced
<1> QED
  BY <1>1, <1>3, <1>4, <1>6, <1>8 DEF ScriptInv

\* What the script believes, will hear, or was told before a death, agrees with the
\* table and the file in every reachable state.
THEOREM ScriptInvariance == Spec => []ScriptInv
  BY InitScript, StepScript, Invariance, TableInvariance, PTL DEF Spec

\* "make sure we announce the loss of a hostname before its new location"
\* (do_script_run): the script never believes that two addresses have one name.
THEOREM ScriptHearsNamesOnce == Spec => []ScriptNamesUnique
<1>1. ScriptInv => ScriptNamesUnique
  BY DEF ScriptInv, ToldUnique, ScriptNamesUnique
<1> QED
  BY <1>1, ScriptInvariance, PTL

\* When do_script_run has nothing more to say, the script knows every lease with
\* its name, and believes in no other, through crashes, restarts, failed writes
\* and broken pipes.
THEOREM ScriptIsUpToDate == Spec => []ScriptKnowsLeases
<1>1. ScriptInv => ScriptKnowsLeases
  <2> SUFFICES ASSUME ScriptInv, up, LeaseScript, script.buf = {}, ~ScriptWork(db),
                      NEW a \in Addrs \ script.missed
               PROVE  IF Leased(db, a)
                      THEN \E l \in db.leases :
                              l.addr = a /\ script.told[a] = [present |-> TRUE, name |-> l.name]
                      ELSE script.told[a] = Unheard
    BY DEF ScriptKnowsLeases
  <2>1. News(script, db)
    BY DEF ScriptInv
  <2>2. View(script, a) = script.told[a] /\ Fresh(script, a)
    BY ViewOfNone
  <2>3. ~Mentioned(db, a) /\ \A l \in db.leases : l.oldname = NoName /\ ~Flagged(l)
    BY DEF ScriptWork, Mentioned, Flagged
  <2>4. CASE Leased(db, a)
    BY <2>1, <2>2, <2>3, <2>4 DEF News, Announced, Leased
  <2>5. CASE ~Leased(db, a)
    BY <2>1, <2>2, <2>3, <2>5 DEF News, Remembered
  <2> QED
    BY <2>4, <2>5
<1> QED
  BY <1>1, ScriptInvariance, PTL
=============================================================================
