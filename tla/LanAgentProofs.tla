---------------------------- MODULE LanAgentProofs ----------------------------
(***************************************************************************)
(* The safety of the LAN agent for every request and any number of faults. *)
(* That a package is changed as a whole is inductive only with what the    *)
(* agent has in hand: IInv adds that it saves nothing but a full set of    *)
(* options, that what it has saved is staged or stored until it commits    *)
(* (somebody else may commit it first), that it turns to the DHCP range    *)
(* only when the address is stored and nothing of it is staged, and that   *)
(* nothing is said of a change before the services were restarted.         *)
(***************************************************************************)
EXTENDS LanAgent, TLAPS

(* Each place holds something for each package. *)
PlacesOK ==
  /\ delta = [p \in Packages |-> delta[p]]
  /\ file = [p \in Packages |-> file[p]]
  /\ running = [p \in Packages |-> running[p]]

Setting == pc \in {"set", "save", "commit"}

(* What the agent has in hand. *)
InHand ==
  /\ pc = "show" => package = "network"
  /\ ~ Setting => ctx = {}
  /\ pc = "save" => ctx = Options(package)
  /\ pc = "commit" => delta[package] \cup file[package] = Options(package)

(* The DHCP range comes after the address. *)
NetworkDone ==
  Setting /\ package = "dhcp" =>
    file["network"] = Options("network") /\ delta["network"] = {}

(* What is said, and when. *)
SaidInTime ==
  /\ pc = "show" => said = {}
  /\ Setting \/ pc \in {"restart_network", "restart_dnsmasq"} => said \subseteq {"listed"}
  /\ pc = "restart_dnsmasq" /\ result = 0 => running["network"] = Options("network")

(* The inductive invariant. *)
IInv ==
  /\ TypeOK /\ PlacesOK
  /\ AllOrNothing
  /\ AddressBeforeRange
  /\ RestartWhenComplete
  /\ ToldTheTruth
  /\ InHand /\ NetworkDone /\ SaidInTime

-----------------------------------------------------------------------------
LEMMA PackagesAre == Packages = {"network", "dhcp"}
BY DEF Packages, Order

(* What is asked for never changes, nor do the options of a package. *)
LEMMA OptionsStay ==
  ASSUME asked' = asked
  PROVE  /\ \A p : Options(p)' = Options(p)
         /\ New' = New
BY DEF Options, New

LEMMA SetNextType ==
  ASSUME TypeOK, SetNext
  PROVE  ctx' \subseteq Options(package)
BY DEF SetNext, TypeOK

(* A fault more is within the bound. *)
LEMMA FaultType ==
  ASSUME TypeOK, Fault
  PROVE  faults' \in 0..MaxFaults
BY AgentAssumption DEF TypeOK, Fault

-----------------------------------------------------------------------------
(***************************************************************************)
(* The parts of IInv that concern the places, when these do not change.    *)
(***************************************************************************)
LEMMA PlacesStay ==
  ASSUME IInv, asked' = asked, UNCHANGED <<delta, file, running>>
  PROVE  /\ PlacesOK' /\ AllOrNothing' /\ AddressBeforeRange'
         /\ \A p \in Packages : /\ delta'[p] \subseteq Options(p)'
                                /\ file'[p] \subseteq Options(p)'
                                /\ running'[p] \subseteq Options(p)'
<1>1. PlacesOK' /\ AddressBeforeRange'
  BY OptionsStay DEF IInv, PlacesOK, AddressBeforeRange
<1>2. AllOrNothing'
  BY OptionsStay DEF IInv, AllOrNothing
<1>3. \A p \in Packages : /\ delta'[p] \subseteq Options(p)'
                          /\ file'[p] \subseteq Options(p)'
                          /\ running'[p] \subseteq Options(p)'
  BY OptionsStay DEF IInv, TypeOK
<1> QED
  BY <1>1, <1>2, <1>3

LEMMA StartStep == ASSUME IInv, Start, asked' = asked PROVE IInv'
<1>1. TypeOK'
  BY PlacesStay, PackagesAre DEF Start, IInv, TypeOK, disk
<1>2. PlacesOK' /\ AllOrNothing' /\ AddressBeforeRange'
  BY PlacesStay DEF Start, disk
<1>3. RestartWhenComplete' /\ ToldTheTruth'
  BY DEF Start, RestartWhenComplete, ToldTheTruth
<1>4. InHand' /\ NetworkDone' /\ SaidInTime'
  BY DEF Start, InHand, NetworkDone, SaidInTime, Setting
<1> QED
  BY <1>1, <1>2, <1>3, <1>4 DEF IInv

LEMMA ShowStep == ASSUME IInv, Show, asked' = asked PROVE IInv'
<1>1. TypeOK'
  BY PlacesStay, FaultType, OptionsStay DEF Show, IInv, TypeOK, disk
<1>2. PlacesOK' /\ AllOrNothing' /\ AddressBeforeRange'
  BY PlacesStay DEF Show, disk
<1>3. RestartWhenComplete'
  BY DEF Show, RestartWhenComplete
<1>4. ToldTheTruth'
  BY OptionsStay DEF Show, IInv, ToldTheTruth, SaidInTime
<1>5. InHand' /\ SaidInTime'
  BY DEF Show, IInv, InHand, SaidInTime, Setting
<1>6. NetworkDone'
  BY DEF Show, IInv, InHand, NetworkDone
<1> QED
  BY <1>1, <1>2, <1>3, <1>4, <1>5, <1>6 DEF IInv

(* The end of a setter: what is left is staged or stored as a whole, and   *)
(* after a success all of it is stored.                                    *)
LEMMA AfterSetStep ==
  ASSUME IInv, asked' = asked, Setting, NEW ok \in BOOLEAN, AfterSet(ok),
         UNCHANGED <<running, lanTxt, said>>, faults' \in 0..MaxFaults,
         PlacesOK', AllOrNothing', AddressBeforeRange',
         \A p \in Packages : /\ delta'[p] \subseteq Options(p)
                            /\ file'[p] \subseteq Options(p),
         ok => delta'[package] = {} /\ file'[package] = Options(package),
         package = "dhcp" => /\ delta'["network"] = {}
                             /\ file'["network"] = Options("network")
  PROVE  IInv'
<1>1. TypeOK'
  <2>1. pc' \in {"set", "restart_network", "validate"} /\ package' \in Packages
    BY PackagesAre DEF AfterSet, IInv, TypeOK
  <2>2. ctx' = {} /\ result' \in {0, 1}
    BY DEF AfterSet, IInv, TypeOK
  <2> QED
    BY <2>1, <2>2, OptionsStay DEF IInv, TypeOK
<1>2. RestartWhenComplete'
  <2> SUFFICES ASSUME pc' = "restart_network"
               PROVE  file' = New' /\ delta' = Nothing
    BY DEF AfterSet, RestartWhenComplete
  <2>1. ok /\ package = "dhcp"
    BY PackagesAre DEF AfterSet, IInv, TypeOK
  <2>2. \A p \in Packages : delta'[p] = {} /\ file'[p] = Options(p)
    BY <2>1, PackagesAre
  <2> QED
    BY <2>2, OptionsStay DEF PlacesOK, New, Nothing
<1>3. ToldTheTruth'
  BY OptionsStay DEF IInv, ToldTheTruth
<1>4. InHand' /\ SaidInTime'
  BY DEF AfterSet, IInv, InHand, SaidInTime, Setting
<1>5. NetworkDone'
  BY OptionsStay DEF AfterSet, NetworkDone, Setting
<1> QED
  BY <1>1, <1>2, <1>3, <1>4, <1>5 DEF IInv

LEMMA SetOptionStep == ASSUME IInv, SetOption, asked' = asked PROVE IInv'
<1>1. pc = "set" /\ UNCHANGED <<delta, file, running, lanTxt, said>>
  BY DEF SetOption, disk
<1>2. CASE Fault /\ AfterSet(FALSE)
  BY <1>1, <1>2, PlacesStay, FaultType, OptionsStay, AfterSetStep
     DEF IInv, TypeOK, NetworkDone, Setting
<1>3. CASE /\ SetNext
           /\ pc' = IF ctx' = Options(package) THEN "save" ELSE "set"
           /\ UNCHANGED <<package, result, faults>>
  <2>1. ctx' \subseteq Options(package)'
    BY <1>3, SetNextType, OptionsStay DEF IInv
  <2>2. TypeOK'
    BY <1>1, <1>3, <2>1, PlacesStay DEF IInv, TypeOK
  <2>3. PlacesOK' /\ AllOrNothing' /\ AddressBeforeRange'
    BY <1>1, PlacesStay
  <2>4. RestartWhenComplete' /\ ToldTheTruth'
    BY <1>1, <1>3, OptionsStay DEF IInv, RestartWhenComplete, ToldTheTruth
  <2>5. InHand' /\ NetworkDone' /\ SaidInTime'
    BY <1>1, <1>3, OptionsStay DEF IInv, InHand, NetworkDone, SaidInTime, Setting
  <2> QED
    BY <2>2, <2>3, <2>4, <2>5 DEF IInv
<1> QED
  BY <1>2, <1>3 DEF SetOption

LEMMA SetNothingStep == ASSUME IInv, SetNothing, asked' = asked PROVE IInv'
<1>1. /\ pc = "set" /\ UNCHANGED <<delta, file, running, lanTxt, said, faults>>
      /\ Options(package) = {} /\ AfterSet(TRUE)
  BY DEF SetNothing, disk
<1>2. delta'[package] = {} /\ file'[package] = Options(package)
  BY <1>1 DEF IInv, TypeOK
<1> QED
  BY <1>1, <1>2, PlacesStay, OptionsStay, AfterSetStep
     DEF IInv, TypeOK, NetworkDone, Setting

LEMMA SaveStep == ASSUME IInv, Save, asked' = asked PROVE IInv'
<1>1. pc = "save" /\ UNCHANGED <<file, running, lanTxt, said>>
  BY DEF Save
<1>2. CASE Fault /\ AfterSet(FALSE) /\ UNCHANGED delta
  BY <1>1, <1>2, PlacesStay, FaultType, OptionsStay, AfterSetStep
     DEF IInv, TypeOK, NetworkDone, Setting
<1>3. CASE /\ delta' = [delta EXCEPT ![package] = @ \cup ctx]
           /\ pc' = "commit"
           /\ UNCHANGED <<package, ctx, result, faults>>
  <2>1. /\ package \in Packages /\ ctx = Options(package)
        /\ delta[package] \subseteq Options(package)
    BY <1>1 DEF IInv, TypeOK, InHand
  <2>2. /\ delta' = [p \in Packages |-> delta'[p]] /\ delta'[package] = Options(package)
        /\ \A p \in Packages : p # package => delta'[p] = delta[p]
    BY <1>3, <2>1 DEF IInv, PlacesOK
  <2>3. TypeOK'
    BY <1>1, <1>3, <2>1, <2>2, OptionsStay DEF IInv, TypeOK
  <2>4. PlacesOK' /\ AllOrNothing'
    BY <1>1, <2>1, <2>2, OptionsStay DEF IInv, PlacesOK, AllOrNothing
  <2>5. AddressBeforeRange'
    BY <1>1, <2>1, <2>2, PackagesAre, OptionsStay
       DEF IInv, AddressBeforeRange, NetworkDone, Setting
  <2>6. RestartWhenComplete' /\ ToldTheTruth'
    BY <1>1, <1>3, OptionsStay DEF IInv, RestartWhenComplete, ToldTheTruth
  <2>7. InHand'
    BY <1>1, <1>3, <2>1, <2>2, OptionsStay DEF IInv, TypeOK, InHand, Setting
  <2>8. NetworkDone' /\ SaidInTime'
    BY <1>1, <1>3, <2>1, <2>2, PackagesAre, OptionsStay
       DEF IInv, NetworkDone, SaidInTime, Setting
  <2> QED
    BY <2>3, <2>4, <2>5, <2>6, <2>7, <2>8 DEF IInv
<1> QED
  BY <1>2, <1>3 DEF Save

(* The deltas of a package are merged into its file. *)
LEMMA MergedPlaces ==
  ASSUME IInv, asked' = asked, NEW p \in Packages, UNCHANGED running,
         file' = [file EXCEPT ![p] = @ \cup delta[p]],
         delta' = [delta EXCEPT ![p] = {}]
  PROVE  /\ PlacesOK' /\ AllOrNothing'
         /\ delta'[p] = {} /\ file'[p] = delta[p] \cup file[p]
         /\ \A q \in Packages : q # p => delta'[q] = delta[q] /\ file'[q] = file[q]
         /\ \A q \in Packages : /\ delta'[q] \subseteq Options(q)
                                /\ file'[q] \subseteq Options(q)
<1>1. delta'[p] = {} /\ file'[p] = delta[p] \cup file[p]
  BY DEF IInv, PlacesOK
<1>2. \A q \in Packages : q # p => delta'[q] = delta[q] /\ file'[q] = file[q]
  BY DEF IInv, PlacesOK
<1>3. PlacesOK'
  BY DEF IInv, PlacesOK
<1>4. AllOrNothing'
  <2> SUFFICES ASSUME NEW q \in Packages
               PROVE  {delta'[q], file'[q], running'[q]} \subseteq {{}, Options(q)}
    BY OptionsStay DEF AllOrNothing
  <2>1. {delta[q], file[q], running[q]} \subseteq {{}, Options(q)}
    BY DEF IInv, AllOrNothing
  <2> QED
    BY <1>1, <1>2, <2>1
<1>5. \A q \in Packages : delta'[q] \subseteq Options(q) /\ file'[q] \subseteq Options(q)
  BY <1>1, <1>2 DEF IInv, TypeOK
<1> QED
  BY <1>1, <1>2, <1>3, <1>4, <1>5

(* Staged edits of a package are dropped. *)
LEMMA DroppedPlaces ==
  ASSUME IInv, asked' = asked, NEW p \in Packages, UNCHANGED <<file, running>>,
         delta' = [delta EXCEPT ![p] = {}]
  PROVE  /\ PlacesOK' /\ AllOrNothing' /\ AddressBeforeRange'
         /\ \A q \in Packages : /\ delta'[q] \subseteq Options(q)
                                /\ delta'[q] \subseteq delta[q]
                                /\ file'[q] \subseteq Options(q)
<1>1. delta'[p] = {} /\ \A q \in Packages : q # p => delta'[q] = delta[q]
  BY DEF IInv, PlacesOK
<1>2. PlacesOK'
  BY DEF IInv, PlacesOK
<1>3. AllOrNothing'
  <2> SUFFICES ASSUME NEW q \in Packages
               PROVE  {delta'[q], file'[q], running'[q]} \subseteq {{}, Options(q)}
    BY OptionsStay DEF AllOrNothing
  <2>1. {delta[q], file[q], running[q]} \subseteq {{}, Options(q)}
    BY DEF IInv, AllOrNothing
  <2> QED
    BY <1>1, <2>1
<1>4. \A q \in Packages : /\ delta'[q] \subseteq Options(q)
                         /\ delta'[q] \subseteq delta[q]
                         /\ file'[q] \subseteq Options(q)
  BY <1>1 DEF IInv, TypeOK
<1>5. AddressBeforeRange'
  BY <1>4, PackagesAre, OptionsStay DEF IInv, AddressBeforeRange
<1> QED
  BY <1>2, <1>3, <1>4, <1>5

LEMMA CommitStep == ASSUME IInv, Commit, asked' = asked PROVE IInv'
<1>1. /\ pc = "commit" /\ Setting /\ UNCHANGED <<running, lanTxt, said>>
      /\ package \in Packages
      /\ delta[package] \cup file[package] = Options(package)
      /\ faults \in 0..MaxFaults
  BY DEF Commit, IInv, TypeOK, InHand, Setting
<1>2. package = "dhcp" => file["network"] = Options("network") /\ delta["network"] = {}
  BY <1>1 DEF IInv, NetworkDone
<1>3. CASE /\ file' = [file EXCEPT ![package] = @ \cup delta[package]]
           /\ delta' = [delta EXCEPT ![package] = {}]
           /\ AfterSet(TRUE) /\ UNCHANGED faults
  <2>1. /\ PlacesOK' /\ AllOrNothing'
        /\ delta'[package] = {} /\ file'[package] = Options(package)
        /\ \A q \in Packages : q # package => delta'[q] = delta[q] /\ file'[q] = file[q]
        /\ \A q \in Packages : /\ delta'[q] \subseteq Options(q)
                               /\ file'[q] \subseteq Options(q)
    BY <1>1, <1>3, MergedPlaces
  <2>2. AddressBeforeRange'
    BY <1>1, <1>2, <2>1, PackagesAre, OptionsStay DEF IInv, AddressBeforeRange
  <2>3. package = "dhcp" => /\ delta'["network"] = {}
                            /\ file'["network"] = Options("network")
    BY <1>2, <2>1, PackagesAre
  <2> QED
    BY <1>1, <1>3, <2>1, <2>2, <2>3, AfterSetStep
<1>4. CASE /\ Fault /\ AfterSet(FALSE) /\ UNCHANGED file
           /\ UNCHANGED delta \/ delta' = [delta EXCEPT ![package] = {}]
  <2>1. faults' \in 0..MaxFaults
    BY <1>4, FaultType DEF IInv
  <2>2. CASE UNCHANGED delta
    BY <1>1, <1>2, <1>4, <2>1, <2>2, PlacesStay, OptionsStay, AfterSetStep
  <2>3. CASE delta' = [delta EXCEPT ![package] = {}]
    <3>1. /\ PlacesOK' /\ AllOrNothing' /\ AddressBeforeRange'
          /\ \A q \in Packages : /\ delta'[q] \subseteq Options(q)
                                 /\ delta'[q] \subseteq delta[q]
                                 /\ file'[q] \subseteq Options(q)
      BY <1>1, <1>4, <2>3, DroppedPlaces
    <3>2. package = "dhcp" => /\ delta'["network"] = {}
                              /\ file'["network"] = Options("network")
      BY <1>2, <1>4, <3>1, PackagesAre
    <3> QED
      BY <1>1, <1>4, <2>1, <3>1, <3>2, AfterSetStep
  <2> QED
    BY <1>4, <2>2, <2>3
<1> QED
  BY <1>3, <1>4 DEF Commit

(* A service works with the file of its package. *)
LEMMA RestartedPlaces ==
  ASSUME IInv, asked' = asked, NEW p \in Packages, UNCHANGED <<delta, file>>,
         Restart(p)
  PROVE  /\ PlacesOK' /\ AllOrNothing' /\ AddressBeforeRange'
         /\ running'[p] = file[p]
         /\ \A q \in Packages : /\ q # p => running'[q] = running[q]
                                /\ running'[q] \subseteq Options(q)
<1>1. running'[p] = file[p] /\ \A q \in Packages : q # p => running'[q] = running[q]
  BY DEF Restart, IInv, PlacesOK
<1>2. PlacesOK'
  BY DEF Restart, IInv, PlacesOK
<1>3. AllOrNothing'
  <2> SUFFICES ASSUME NEW q \in Packages
               PROVE  {delta'[q], file'[q], running'[q]} \subseteq {{}, Options(q)}
    BY OptionsStay DEF AllOrNothing
  <2>1. {delta[q], file[q], running[q]} \subseteq {{}, Options(q)}
    BY DEF IInv, AllOrNothing
  <2> QED
    BY <1>1, <2>1
<1>4. AddressBeforeRange'
  BY OptionsStay DEF IInv, AddressBeforeRange
<1>5. \A q \in Packages : running'[q] \subseteq Options(q)
  BY <1>1 DEF IInv, TypeOK
<1> QED
  BY <1>1, <1>2, <1>3, <1>4, <1>5

LEMMA RestartNetworkStep == ASSUME IInv, RestartNetwork, asked' = asked PROVE IInv'
<1>1. /\ pc = "restart_network" /\ pc' = "restart_dnsmasq" /\ said \subseteq {"listed"}
      /\ UNCHANGED <<package, ctx, delta, file, lanTxt, said>>
      /\ file = New /\ delta = Nothing /\ "network" \in Packages
  BY PackagesAre DEF RestartNetwork, disk, IInv, SaidInTime, RestartWhenComplete
<1>2. result' \in {0, 1} /\ faults' \in 0..MaxFaults
  BY FaultType DEF RestartNetwork, IInv, TypeOK
<1>3. Restart("network") \/ (UNCHANGED running /\ result' = 1)
  BY DEF RestartNetwork
<1>4. /\ PlacesOK' /\ AllOrNothing' /\ AddressBeforeRange'
      /\ \A q \in Packages : running'[q] \subseteq Options(q)
      /\ result' = 0 => running'["network"] = file["network"]
  <2>1. CASE Restart("network")
    BY <1>1, <2>1, RestartedPlaces
  <2>2. CASE UNCHANGED running /\ result' = 1
    BY <1>1, <2>2, PlacesStay, OptionsStay
  <2> QED
    BY <1>3, <2>1, <2>2
<1>5. TypeOK'
  BY <1>1, <1>2, <1>4, OptionsStay DEF IInv, TypeOK
<1>6. RestartWhenComplete' /\ ToldTheTruth'
  BY <1>1, OptionsStay DEF IInv, RestartWhenComplete, ToldTheTruth, Nothing
<1>7. InHand' /\ NetworkDone'
  BY <1>1 DEF IInv, InHand, NetworkDone, Setting
<1>8. SaidInTime'
  BY <1>1, <1>4, OptionsStay DEF SaidInTime, Setting, New
<1> QED
  BY <1>4, <1>5, <1>6, <1>7, <1>8 DEF IInv

LEMMA RestartDnsmasqStep == ASSUME IInv, RestartDnsmasq, asked' = asked PROVE IInv'
<1>1. /\ pc = "restart_dnsmasq" /\ pc' = "validate" /\ said \subseteq {"listed"}
      /\ UNCHANGED <<package, ctx, delta, file, lanTxt>>
      /\ file = New /\ Packages = {"network", "dhcp"}
      /\ result = 0 => running["network"] = Options("network")
  BY PackagesAre DEF RestartDnsmasq, disk, IInv, SaidInTime, RestartWhenComplete
<1>2. /\ result' \in {0, 1} /\ faults' \in 0..MaxFaults
      /\ said' = IF result' = 0 THEN said \cup {"applied"} ELSE said
  BY FaultType DEF RestartDnsmasq, IInv, TypeOK
<1>3. \/ Restart("dhcp") /\ result' = result
      \/ result' = 1 /\ (Restart("dhcp") \/ UNCHANGED running)
  BY DEF RestartDnsmasq
<1>4. /\ PlacesOK' /\ AllOrNothing' /\ AddressBeforeRange'
      /\ \A q \in Packages : running'[q] \subseteq Options(q)
      /\ result' = 0 => /\ running'["dhcp"] = file["dhcp"]
                        /\ running'["network"] = Options("network")
  <2>1. CASE Restart("dhcp")
    BY <1>1, <1>3, <2>1, RestartedPlaces
  <2>2. CASE UNCHANGED running /\ result' = 1
    BY <1>1, <2>2, PlacesStay, OptionsStay
  <2> QED
    BY <1>3, <2>1, <2>2
<1>5. TypeOK'
  BY <1>1, <1>2, <1>4, OptionsStay DEF IInv, TypeOK
<1>6. RestartWhenComplete'
  BY <1>1 DEF RestartWhenComplete
<1>7. ToldTheTruth'
  <2>1. result' = 0 => running' = New
    BY <1>1, <1>4 DEF PlacesOK, New
  <2> QED
    BY <1>1, <1>2, <2>1, OptionsStay DEF IInv, ToldTheTruth
<1>8. InHand' /\ NetworkDone' /\ SaidInTime'
  BY <1>1 DEF IInv, InHand, NetworkDone, SaidInTime, Setting
<1> QED
  BY <1>4, <1>5, <1>6, <1>7, <1>8 DEF IInv

(* Neither the places nor what the agent has in hand changes, and it is    *)
(* past the restarts.                                                      *)
LEMMA LastSteps ==
  ASSUME IInv, asked' = asked, pc' \in {"off", "leases"}, ctx' = {},
         UNCHANGED <<package, delta, file, running, result>>,
         lanTxt' \in {"old", "empty", "part", "listed"}, faults' \in 0..MaxFaults,
         \/ said' = said
         \/ /\ running["network"] = Options("network")
            /\ said' = said \cup {"valid"}
  PROVE  IInv'
<1>1. PlacesOK' /\ AllOrNothing' /\ AddressBeforeRange'
  BY PlacesStay
<1>2. TypeOK'
  <2>1. said' \subseteq {"listed", "applied", "valid"}
    BY DEF IInv, TypeOK
  <2> QED
    BY <2>1, PlacesStay, OptionsStay DEF IInv, TypeOK
<1>3. RestartWhenComplete' /\ ToldTheTruth'
  BY OptionsStay DEF IInv, RestartWhenComplete, ToldTheTruth
<1>4. InHand' /\ NetworkDone' /\ SaidInTime'
  BY DEF InHand, NetworkDone, SaidInTime, Setting
<1> QED
  BY <1>1, <1>2, <1>3, <1>4 DEF IInv

LEMMA RebootStep == ASSUME IInv, Reboot, asked' = asked PROVE IInv'
<1>1. /\ pc' = "off" /\ ctx' = {} /\ delta' = Nothing /\ running' = file
      /\ said' = {} /\ UNCHANGED <<package, file, result>>
      /\ lanTxt' \in {"old", "empty", "part", "listed"} /\ faults' \in 0..MaxFaults
  BY FaultType DEF Reboot, ListingCut, IInv, TypeOK
<1>2. /\ delta' = [p \in Packages |-> delta'[p]]
      /\ \A p \in Packages : delta'[p] = {}
  BY <1>1 DEF Nothing
<1>3. PlacesOK' /\ AllOrNothing'
  BY <1>1, <1>2, OptionsStay DEF IInv, PlacesOK, AllOrNothing
<1>4. AddressBeforeRange'
  BY <1>1, <1>2, PackagesAre, OptionsStay DEF IInv, AddressBeforeRange
<1>5. TypeOK'
  BY <1>1, <1>2, OptionsStay DEF IInv, TypeOK
<1>6. RestartWhenComplete' /\ ToldTheTruth'
  BY <1>1 DEF RestartWhenComplete, ToldTheTruth
<1>7. InHand' /\ NetworkDone' /\ SaidInTime'
  BY <1>1 DEF InHand, NetworkDone, SaidInTime, Setting
<1> QED
  BY <1>3, <1>4, <1>5, <1>6, <1>7 DEF IInv

LEMMA ForeignCommitStep == ASSUME IInv, ForeignCommit, asked' = asked PROVE IInv'
<1>1. PICK p \in Packages :
        /\ delta[p] # {}
        /\ file' = [file EXCEPT ![p] = @ \cup delta[p]]
        /\ delta' = [delta EXCEPT ![p] = {}]
        /\ UNCHANGED <<pc, package, ctx, running, result, lanTxt, said, faults>>
  BY DEF ForeignCommit
<1>2. /\ PlacesOK' /\ AllOrNothing'
      /\ delta'[p] = {} /\ file'[p] = delta[p] \cup file[p]
      /\ \A q \in Packages : q # p => delta'[q] = delta[q] /\ file'[q] = file[q]
      /\ \A q \in Packages : /\ delta'[q] \subseteq Options(q)
                             /\ file'[q] \subseteq Options(q)
  BY <1>1, MergedPlaces
<1>3. delta[p] \subseteq Options(p) /\ file[p] \subseteq Options(p)
  BY <1>1 DEF IInv, TypeOK
<1>4. AddressBeforeRange'
  BY <1>1, <1>2, <1>3, PackagesAre, OptionsStay DEF IInv, AddressBeforeRange
<1>5. TypeOK'
  BY <1>1, <1>2, OptionsStay DEF IInv, TypeOK
<1>6. RestartWhenComplete'
  <2>1. pc \notin {"restart_network", "restart_dnsmasq"}
    BY <1>1 DEF IInv, RestartWhenComplete, Nothing
  <2> QED
    BY <1>1, <2>1 DEF RestartWhenComplete
<1>7. ToldTheTruth'
  BY <1>1, OptionsStay DEF IInv, ToldTheTruth
<1>8. InHand'
  <2>1. delta'[package] \cup file'[package] = delta[package] \cup file[package]
    BY <1>1, <1>2 DEF IInv, TypeOK
  <2> QED
    BY <1>1, <2>1, OptionsStay DEF IInv, InHand, Setting
<1>9. NetworkDone'
  BY <1>1, <1>2, PackagesAre, OptionsStay DEF IInv, NetworkDone, Setting
<1>10. SaidInTime'
  BY <1>1, OptionsStay DEF IInv, SaidInTime, Setting
<1> QED
  BY <1>2, <1>4, <1>5, <1>6, <1>7, <1>8, <1>9, <1>10 DEF IInv

-----------------------------------------------------------------------------
LEMMA InitEstablishes == Init => IInv
<1> SUFFICES ASSUME Init PROVE IInv
  OBVIOUS
<1>1. /\ delta = Nothing /\ file = Nothing /\ running = Nothing
      /\ \A p \in Packages : Nothing[p] = {}
      /\ Nothing = [p \in Packages |-> Nothing[p]]
  BY DEF Init, Nothing
<1>2. TypeOK
  BY <1>1, PackagesAre, AgentAssumption DEF Init, TypeOK
<1>3. PlacesOK /\ AllOrNothing
  BY <1>1 DEF PlacesOK, AllOrNothing
<1>4. AddressBeforeRange /\ RestartWhenComplete /\ ToldTheTruth
  BY <1>1, PackagesAre DEF Init, AddressBeforeRange, RestartWhenComplete, ToldTheTruth
<1>5. InHand /\ NetworkDone /\ SaidInTime
  BY DEF Init, InHand, NetworkDone, SaidInTime, Setting
<1> QED
  BY <1>2, <1>3, <1>4, <1>5 DEF IInv

LEMMA StepPreserves == IInv /\ [Next]_vars => IInv'
<1> SUFFICES ASSUME IInv, [Next]_vars PROVE IInv'
  OBVIOUS
<1>1. CASE UNCHANGED vars
  <2>1. /\ UNCHANGED <<pc, package, ctx, delta, file, running, result, lanTxt, said,
                       faults>>
        /\ asked' = asked
    BY <1>1 DEF vars
  <2>2. PlacesOK' /\ AllOrNothing' /\ AddressBeforeRange'
    BY <2>1, PlacesStay
  <2>3. TypeOK' /\ RestartWhenComplete' /\ ToldTheTruth'
    BY <2>1, OptionsStay DEF IInv, TypeOK, RestartWhenComplete, ToldTheTruth, Nothing
  <2>4. InHand' /\ NetworkDone' /\ SaidInTime'
    BY <2>1, OptionsStay DEF IInv, InHand, NetworkDone, SaidInTime, Setting
  <2> QED
    BY <2>2, <2>3, <2>4 DEF IInv
<1>2. CASE Next
  <2>1. asked' = asked
    BY <1>2 DEF Next
  <2>2. CASE Validate
    <3>1. ctx = {} /\ faults' \in 0..MaxFaults
      BY <2>2, FaultType DEF Validate, IInv, TypeOK, InHand, Setting
    <3> QED
      BY <2>1, <2>2, <3>1, LastSteps DEF Validate, disk, IInv, TypeOK
  <2>3. CASE Leases
    <3>1. ctx = {} /\ faults \in 0..MaxFaults
      BY <2>3 DEF Leases, IInv, TypeOK, InHand, Setting
    <3> QED
      BY <2>1, <2>3, <3>1, LastSteps DEF Leases, disk, IInv, TypeOK
  <2>4. CASE Kill
    <3>1. faults' \in 0..MaxFaults /\ lanTxt' \in {"old", "empty", "part", "listed"}
      BY <2>4, FaultType DEF Kill, ListingCut, IInv, TypeOK
    <3> QED
      BY <2>1, <2>4, <3>1, LastSteps DEF Kill, disk
  <2> QED
    BY <1>2, <2>1, <2>2, <2>3, <2>4, StartStep, ShowStep, SetOptionStep,
       SetNothingStep, SaveStep, CommitStep, RestartNetworkStep,
       RestartDnsmasqStep, RebootStep, ForeignCommitStep DEF Next, Agent
<1> QED
  BY <1>1, <1>2

(* The inductive invariant holds of every behaviour of the LAN agent.      *)
THEOREM Invariance == Spec => []IInv
BY InitEstablishes, StepPreserves, PTL DEF Spec

(* Every variable of the agent keeps its type: a context never holds an    *)
(* option of another package (uci_handler.c:89-150 and 165-234).           *)
THEOREM TypeCorrect == Spec => []TypeOK
<1>1. IInv => TypeOK
  BY DEF IInv
<1> QED
  BY <1>1, Invariance, PTL

(* A package is changed as a whole or not at all, whatever is asked for,   *)
(* fails, or is killed (uci_handler.c:120-146 and 180-231).                *)
THEOREM ChangesAreWhole == Spec => []AllOrNothing
<1>1. IInv => AllOrNothing
  BY DEF IInv
<1> QED
  BY <1>1, Invariance, PTL

(* The range is not touched before the address is stored, and the services *)
(* are not restarted before both are (main_app.c:46-62).                   *)
THEOREM OrderOfSteps == Spec => []StepsInOrder
<1>1. IInv => StepsInOrder
  BY DEF IInv, StepsInOrder
<1> QED
  BY <1>1, Invariance, PTL

(* What a run tells its user of the change it made is so, as long as it    *)
(* runs and after it, until the next run or reboot, whatever failed in it  *)
(* and before it (main_app.c:62-70 and 81-85).                             *)
THEOREM UserIsToldTheTruth == Spec => []ToldTheTruth
<1>1. IInv => ToldTheTruth
  BY DEF IInv
<1> QED
  BY <1>1, Invariance, PTL
=============================================================================
