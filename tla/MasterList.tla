---------------------------- MODULE MasterList ----------------------------
(***************************************************************************)
(* The list a master server keeps (Servers in mastersrv): which address    *)
(* belongs to which game server, and what each of those last told of       *)
(* itself.  A game server is known by its secret, what it told by its      *)
(* serial number.                                                          *)
(***************************************************************************)
EXTENDS Integers

EmptyList == [addresses |-> << >>, servers |-> << >>]

(* A serial that is newer than what is known has to come with its info. *)
NeedInfo(list, secret, serial) ==
  secret \in DOMAIN list.servers => serial > list.servers[secret].serial

(* Addresses are taken out, and servers that have none left. *)
Without(list, gone) ==
  LET Left(s) == list.servers[s].addresses
                   \ {a \in gone : list.addresses[a].secret = s}
  IN  [addresses |-> [a \in DOMAIN list.addresses \ gone |-> list.addresses[a]],
       servers |-> [s \in {t \in DOMAIN list.servers : Left(t) # {}} |->
                      [list.servers[s] EXCEPT !.addresses = Left(s)]]]

(* A slip: the server that had the address before keeps it. *)
Vacated_Not(list, addr, secret) == list

(* An address that another server had is taken from it. *)
Vacated(list, addr, secret) ==
  IF addr \in DOMAIN list.addresses /\ list.addresses[addr].secret # secret
    THEN Without(list, {addr}) ELSE list

Newer(known, serial) == IF serial > known THEN serial ELSE known

(* Servers::add, past NeedInfo.  It is never Obsolete: there is one kind    *)
(* of entry, and its time is taken under the lock of the list.             *)
Added(list, addr, secret, serial) ==
  LET old == Vacated(list, addr, secret)
  IN  [addresses |-> [a \in DOMAIN old.addresses \cup {addr} |->
                        IF a = addr THEN [secret |-> secret, age |-> 0]
                                    ELSE old.addresses[a]],
       servers |-> [s \in DOMAIN old.servers \cup {secret} |->
                      IF s # secret THEN old.servers[s]
                      ELSE IF s \in DOMAIN old.servers
                        THEN [addresses |-> old.servers[s].addresses \cup {addr},
                              serial |-> Newer(old.servers[s].serial, serial)]
                        ELSE [addresses |-> {addr}, serial |-> serial]]]

(* Servers::remove *)
Removed(list, addr, secret) ==
  IF addr \in DOMAIN list.addresses /\ list.addresses[addr].secret = secret
    THEN Without(list, {addr}) ELSE list

(* Servers::prune_before; gone are the addresses whose time is up. *)
Pruned(list, gone) == Without(list, gone)

Aged(list) ==
  [addresses |-> [a \in DOMAIN list.addresses |-> [list.addresses[a] EXCEPT !.age = @ + 1]],
   servers |-> list.servers]

(* The two halves of the list fit together; the code asserts, and unwraps, *)
(* what follows from it.                                                   *)
Consistent(list) ==
  /\ \A a \in DOMAIN list.addresses : list.addresses[a].secret \in DOMAIN list.servers
  /\ \A s \in DOMAIN list.servers :
       /\ list.servers[s].addresses # {}
       /\ list.servers[s].addresses =
            {a \in DOMAIN list.addresses : list.addresses[a].secret = s}
=============================================================================
