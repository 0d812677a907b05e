--------------------------------- MODULE AppDb ---------------------------------
(***************************************************************************)
(* nr.utils.ponyorm: application databases declare entities and bind them  *)
(* to a Pony database later, under a prefix.  Several applications may     *)
(* share a database; an application can be cloned.                         *)
(***************************************************************************)
EXTENDS Naturals, Sequences, SequencesExt, FiniteSets

CONSTANTS Apps,        \* applications, which are their own namespaces; a clone has the original's
          Names,       \* names of entities
          Dbs,         \* Pony databases
          Converters,
          None

VARIABLES entities,   \* what each application declared, in order: a name and the name of the
                      \* entity that it derives from
          ref,        \* the bound entity of each class: whose, None
          origin,     \* the application that each one is a clone of: itself, None before it is made
          bound,      \* the database of each application: bound_db
          members,    \* the names of its bound entities
          failed,     \* whether its binding was broken off
          db,         \* whose entity has each name in a Pony database, None
          tables,     \* the tables in it: the namespace and the name
          converters, \* those of each application
          installed,  \* those of a Pony database, each with its application
          result      \* what the last call came to

NoneIsNotMade == None \notin Apps \cup Dbs \cup Names

vars == <<entities, ref, origin, bound, members, failed, db, tables, converters, installed, result>>

Declared(a) == {entities[a][i].name : i \in DOMAIN entities[a]}
Of(a, n) == CHOOSE e \in ToSet(entities[a]) : e.name = n
Called(r) == result' = r

Init ==
  /\ entities = [a \in Apps |-> <<>>]
  /\ ref = [a \in Apps |-> [n \in Names |-> None]]
  /\ \E a \in Apps : origin = [b \in Apps |-> IF b = a THEN a ELSE None]
  /\ bound = [a \in Apps |-> None] /\ failed = [a \in Apps |-> FALSE]
  /\ members = [a \in Apps |-> {}]
  /\ db = [d \in Dbs |-> [n \in Names |-> None]] /\ tables = [d \in Dbs |-> {}]
  /\ converters = [a \in Apps |-> <<>>] /\ installed = [d \in Dbs |-> <<>>]
  /\ result = "none"

\* AppDatabase().
Make(a) ==
  /\ origin[a] = None
  /\ origin' = [origin EXCEPT ![a] = a]
  /\ Called("none")
  /\ UNCHANGED <<entities, ref, bound, members, failed, db, tables, converters, installed>>

\* class n(app.Entity), or of an entity that was declared before: registered by its metaclass.
Declare(a, n, base) ==
  /\ origin[a] # None /\ n \notin Declared(a)
  /\ base \in {None} \cup Declared(a)
  /\ entities' = [entities EXCEPT ![a] = Append(@, [name |-> n, base |-> base])]
  /\ Called("none")
  /\ UNCHANGED <<ref, origin, bound, members, failed, db, tables, converters, installed>>

\* clone(): the members of a class are copied, its bound entity among them.
Clone(a, b) ==
  /\ origin[a] # None /\ origin[b] = None
  /\ IF \E i \in DOMAIN entities[a] : entities[a][i].base # None
     THEN /\ Called("RuntimeError")
          /\ UNCHANGED <<entities, ref, origin>>
     ELSE /\ origin' = [origin EXCEPT ![b] = origin[a]]
          /\ entities' = [entities EXCEPT ![b] = entities[a]]
          /\ ref' = [ref EXCEPT ![b] = ref[a]]
          /\ Called("none")
  /\ UNCHANGED <<bound, members, failed, db, tables, converters, installed>>

\* bind_to(): each entity in turn.  Pony has one entity of a name: the second is an error that
\* leaves the rest unbound and the application bound.
Clash(a, d) == {i \in DOMAIN entities[a] : db[d][entities[a][i].name] # None}
BoundPart(a, d) ==
  {entities[a][i].name : i \in {i \in DOMAIN entities[a] : \A j \in Clash(a, d) : i < j}}
BindTo(a, d) ==
  /\ origin[a] # None
  /\ IF bound[a] # None
     THEN /\ Called("RuntimeError")
          /\ UNCHANGED <<ref, bound, members, failed, db, tables, installed>>
     ELSE /\ bound' = [bound EXCEPT ![a] = d]
          /\ members' = [members EXCEPT ![a] = BoundPart(a, d)]
          /\ db' = [db EXCEPT ![d] = [n \in Names |-> IF n \in BoundPart(a, d) THEN a ELSE @[n]]]
          /\ tables' = [tables EXCEPT ![d] = @ \cup {<<origin[a], n>> : n \in BoundPart(a, d)}]
          /\ ref' = [ref EXCEPT ![a] = [n \in Names |-> IF n \in BoundPart(a, d) THEN a ELSE @[n]]]
          /\ failed' = [failed EXCEPT ![a] = Clash(a, d) # {}]
          /\ installed' = IF Clash(a, d) # {} THEN installed
                          ELSE [installed EXCEPT ![d] = @ \o [i \in DOMAIN converters[a] |-> <<a, converters[a][i]>>]]
          /\ Called(IF Clash(a, d) = {} THEN "none" ELSE "ERDiagramError")
  /\ UNCHANGED <<entities, origin, converters>>

\* AppEntity.__new__: the bound entity of the class, or else of the class it derives from.
Resolved(a, n) ==
  LET r[m \in Declared(a)] ==
        IF ref[a][m] # None THEN <<ref[a][m], m>>
        ELSE IF Of(a, m).base = None THEN None ELSE r[Of(a, m).base]
  IN  r[n]
Instantiate(a, n) ==
  /\ origin[a] # None /\ n \in Declared(a)
  /\ Called(IF Resolved(a, n) = None THEN "RuntimeError" ELSE "instance")
  /\ UNCHANGED <<entities, ref, origin, bound, members, failed, db, tables, converters, installed>>

\* drop_table(): given a name, Pony is asked for a table without the prefix, and there is none.
DropTable(a, n, byName) ==
  /\ bound[a] # None /\ n \in Declared(a)
  /\ IF n \in members[a] /\ ~byName /\ <<origin[a], n>> \in tables[bound[a]]
     THEN /\ tables' = [tables EXCEPT ![bound[a]] = @ \ {<<origin[a], n>>}]
          /\ Called("none")
     ELSE /\ Called(IF n \in members[a] THEN "TableDoesNotExist"
                    ELSE IF byName THEN "KeyError" ELSE "ValueError")
          /\ UNCHANGED tables
  /\ UNCHANGED <<entities, ref, origin, bound, members, failed, db, converters, installed>>

\* drop_all_tables(), of a bound application.
DropAllTables(a) ==
  /\ bound[a] # None
  /\ tables' = [tables EXCEPT ![bound[a]] = @ \ {<<origin[a], n>> : n \in members[a]}]
  /\ Called("none")
  /\ UNCHANGED <<entities, ref, origin, bound, members, failed, db, converters, installed>>

\* register_converter(), each converter once.
RegisterConverter(a, c) ==
  /\ origin[a] # None /\ c \notin ToSet(converters[a])
  /\ converters' = [converters EXCEPT ![a] = Append(@, c)]
  /\ installed' = IF bound[a] = None THEN installed
                  ELSE [installed EXCEPT ![bound[a]] = Append(@, <<a, c>>)]
  /\ Called("none")
  /\ UNCHANGED <<entities, ref, origin, bound, members, failed, db, tables>>

Next ==
  \/ \E a \in Apps :
       \/ Make(a)
       \/ \E n \in Names : \/ \E base \in Names \cup {None} : Declare(a, n, base)
                           \/ Instantiate(a, n)
                           \/ \E byName \in BOOLEAN : DropTable(a, n, byName)
       \/ \E b \in Apps : Clone(a, b)
       \/ \E d \in Dbs : BindTo(a, d)
       \/ DropAllTables(a)
       \/ \E c \in Converters : RegisterConverter(a, c)

Spec == Init /\ [][Next]_vars

-------------------------------------------------------------------------------
\* The instances of an application's entity are of its own bound entity.  The exceptions: a
\* clone of a bound application makes instances of the original's until it is bound itself
\* (appdb.py:108), and a class that derives from a bound one and came too late, or after the
\* one at which the binding was broken off, makes instances of its parent's (appdb.py:80).
InstancesAreOwn ==
  \A a \in Apps : \A n \in Declared(a) : Resolved(a, n) # None =>
    LET owner == Resolved(a, n)[1] IN
    /\ owner = a => bound[a] # None /\ db[bound[a]][Resolved(a, n)[2]] = a
    /\ owner # a => origin[owner] = origin[a] /\ (bound[a] = None \/ n \notin members[a])
    /\ n \in members[a] => Resolved(a, n) = <<a, n>>

\* Each converter of a bound application is in its database, once, and nowhere else, unless
\* the binding was broken off (appdb.py:225).
InstalledOnce ==
  \A a \in Apps, d \in Dbs, c \in Converters :
    LET times == Cardinality({i \in DOMAIN installed[d] : installed[d][i] = <<a, c>>}) IN
    /\ times <= 1
    /\ times = 1 => bound[a] = d /\ c \in ToSet(converters[a])
    /\ bound[a] = d /\ ~failed[a] /\ c \in ToSet(converters[a]) => times = 1

-------------------------------------------------------------------------------
\* What the calls preserve, for the proofs.
Entity == [name : Names, base : Names \cup {None}]
TypeOK ==
  /\ entities \in [Apps -> Seq(Entity)]
  /\ ref \in [Apps -> [Names -> Apps \cup {None}]]
  /\ origin \in [Apps -> Apps \cup {None}] /\ bound \in [Apps -> Dbs \cup {None}]
  /\ members \in [Apps -> SUBSET Names] /\ failed \in [Apps -> BOOLEAN]
  /\ db \in [Dbs -> [Names -> Apps \cup {None}]] /\ tables \in [Dbs -> SUBSET (Apps \X Names)]
  /\ converters \in [Apps -> Seq(Converters)] /\ installed \in [Dbs -> Seq(Apps \X Converters)]

\* A class is declared once, and after the one that it derives from.
InOrder(s) ==
  \A i \in DOMAIN s :
    /\ \A j \in DOMAIN s : s[j].name = s[i].name => i = j
    /\ s[i].base # None => \E j \in DOMAIN s : j < i /\ s[j].name = s[i].base
BasesAreEarlier == \A a \in Apps : InOrder(entities[a])

\* The bound entity of a class is that of its application or of one it is a clone of.
RefsAreKin ==
  \A a \in Apps, n \in Names :
    /\ ref[a][n] # None => origin[ref[a][n]] = origin[a] /\ origin[a] # None
    /\ ref[a][n] = a => bound[a] # None /\ db[bound[a]][n] = a
MembersAreOwn == \A a \in Apps : \A n \in members[a] : ref[a][n] = a

\* A converter is registered once, and there where its application is bound.
RegisteredOnce ==
  \A a \in Apps : \A i, j \in DOMAIN converters[a] : converters[a][i] = converters[a][j] => i = j
InstalledApart ==
  \A d \in Dbs : \A i \in DOMAIN installed[d] :
    /\ \A j \in DOMAIN installed[d] : installed[d][i] = installed[d][j] => i = j
    /\ bound[installed[d][i][1]] = d
    /\ installed[d][i][2] \in ToSet(converters[installed[d][i][1]])
InstalledAll ==
  \A a \in Apps : bound[a] # None /\ ~failed[a] =>
    \A c \in ToSet(converters[a]) : <<a, c>> \in ToSet(installed[bound[a]])

IInv == /\ TypeOK /\ BasesAreEarlier /\ RefsAreKin /\ MembersAreOwn
        /\ RegisteredOnce /\ InstalledApart /\ InstalledAll
================================================================================
