------------------------------ MODULE IpaSpace ------------------------------
(***************************************************************************)
(* What the stage 2 commands of runtime/rmi/rtt.c promise a realm about    *)
(* its IPA space, page by page, with no translation tables: memory given   *)
(* to a protected page is given to no other page; a page that had contents *)
(* loses them only by becoming DESTROYED, or EMPTY when the realm asked    *)
(* for it; and a DESTROYED page stays so.  RTT_CREATE and RTT_FOLD do not  *)
(* appear, since they are to change nothing that a realm can see.          *)
(***************************************************************************)
EXTENDS Integers

CONSTANTS Realms,       \* the realms
          Ipas,         \* the pages of a realm's IPA space
          Protected,    \* those in the protected half
          Granules,     \* the memory that can be given to realms
          Regions       \* the sets of pages that one table entry covers

VARIABLES page,    \* page[r][i], the state of page i of realm r
          sealed,  \* the realms whose initial contents are settled
          asked    \* the pages whose RIPAS change each realm waits for

vars == <<page, sealed, asked>>

Unassigned(s) == [hipas |-> "UNASSIGNED", ripas |-> s, memory |-> {}]
Destroyed     == [hipas |-> "DESTROYED", ripas |-> "EMPTY", memory |-> {}]
Assigned(s, g) == [hipas |-> "ASSIGNED", ripas |-> s, memory |-> {g}]
MappedNs      == [hipas |-> "VALID_NS", ripas |-> "EMPTY", memory |-> {}]

Nothing == [pages |-> {}, ripas |-> "EMPTY"]

Init ==
  /\ page   = [r \in Realms |-> [i \in Ipas |-> Unassigned("EMPTY")]]
  /\ sealed = {}
  /\ asked  = [r \in Realms |-> Nothing]

(* The pages in S of realm r change as F says. *)
Change(r, S, F(_)) ==
  page' = [page EXCEPT ![r] = [i \in Ipas |-> IF i \in S THEN F(page[r][i])
                                              ELSE page[r][i]]]

AllAre(r, S, h) == \A i \in S : page[r][i].hipas = h
Given(g) == \E r \in Realms, i \in Ipas : g \in page[r][i].memory

(* DATA_CREATE and DATA_CREATE_UNKNOWN *)
DataCreate(r, i, g) ==
  LET Give(p) == Assigned(p.ripas, g)
  IN  /\ i \in Protected /\ AllAre(r, {i}, "UNASSIGNED") /\ ~Given(g)
      /\ Change(r, {i}, Give)
      /\ UNCHANGED <<sealed, asked>>

(* DATA_DESTROY *)
DataDestroy(r, i) ==
  LET Take(p) == IF p.ripas = "RAM" THEN Destroyed ELSE Unassigned("EMPTY")
  IN  /\ AllAre(r, {i}, "ASSIGNED")
      /\ Change(r, {i}, Take)
      /\ UNCHANGED <<sealed, asked>>

(* RTT_DESTROY of a table whose pages have no memory *)
Destroy(r, S) ==
  LET Lose(p) == IF S \subseteq Protected THEN Destroyed ELSE Unassigned("EMPTY")
  IN  /\ \A i \in S : page[r][i].hipas \in {"UNASSIGNED", "DESTROYED"}
      /\ Change(r, S, Lose)
      /\ UNCHANGED <<sealed, asked>>

(* RTT_INIT_RIPAS, as long as the realm's initial contents are not         *)
(* settled; when the realm was activated meanwhile, they are with it.      *)
InitRipas(r, S) ==
  LET Populate(p) == Unassigned("RAM")
  IN  /\ r \notin sealed /\ S \subseteq Protected /\ AllAre(r, S, "UNASSIGNED")
      /\ Change(r, S, Populate)
      /\ sealed' \in {sealed, sealed \cup {r}}
      /\ UNCHANGED asked

Seal(r) ==
  /\ r \notin sealed /\ sealed' = sealed \cup {r}
  /\ UNCHANGED <<page, asked>>

(* RTT_SET_RIPAS makes the change where the realm asked for it, lowest     *)
(* pages first.  Memory that is there and EMPTY does not become RAM, and a *)
(* page with no memory that is RAM does not become EMPTY.                  *)
Takes(p, s) == <<p.hipas, s>> \in {<<"ASSIGNED", "EMPTY">>, <<"UNASSIGNED", "RAM">>}

SetRipas(r, S) ==
  LET s == asked[r].ripas
      Set(p) == IF Takes(p, s) THEN [p EXCEPT !.ripas = s] ELSE p
  IN  /\ S \subseteq asked[r].pages
      /\ \A i \in S, j \in asked[r].pages \ S : i < j
      /\ AllAre(r, S, "ASSIGNED") \/ AllAre(r, S, "UNASSIGNED")
      /\ Change(r, S, Set)
      /\ asked' = [asked EXCEPT ![r].pages = asked[r].pages \ S]
      /\ UNCHANGED sealed

(* The realm asks for a change, and is told how far it went. *)
Ask(r) ==
  /\ \E a, b \in Protected, s \in {"EMPTY", "RAM"} :
       asked' = [asked EXCEPT ![r] = [pages |-> a .. b, ripas |-> s]]
  /\ UNCHANGED <<page, sealed>>

Resume(r) ==
  /\ asked' = [asked EXCEPT ![r] = Nothing]
  /\ UNCHANGED <<page, sealed>>

(* RTT_MAP_UNPROTECTED and RTT_UNMAP_UNPROTECTED *)
Map(r, S) ==
  LET Valid(p) == MappedNs
  IN  /\ S \cap Protected = {} /\ AllAre(r, S, "UNASSIGNED")
      /\ Change(r, S, Valid)
      /\ UNCHANGED <<sealed, asked>>

Unmap(r, S) ==
  LET Invalid(p) == Unassigned("EMPTY")
  IN  /\ AllAre(r, S, "VALID_NS")
      /\ Change(r, S, Invalid)
      /\ UNCHANGED <<sealed, asked>>

Next ==
  \E r \in Realms :
    \/ Seal(r) \/ Ask(r) \/ Resume(r)
    \/ \E i \in Ipas : DataDestroy(r, i) \/ \E g \in Granules : DataCreate(r, i, g)
    \/ \E S \in Regions : Destroy(r, S) \/ InitRipas(r, S) \/ SetRipas(r, S)
                          \/ Map(r, S) \/ Unmap(r, S)

Spec == Init /\ [][Next]_vars

=============================================================================
