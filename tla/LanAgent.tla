------------------------------ MODULE LanAgent ------------------------------
(***************************************************************************)
(* The LAN agent of uselibuci: one run of main sets the address of the LAN *)
(* (package network), then its DHCP range (package dhcp), restarts the two *)
(* services, and checks the outcome.  Every call can fail, the process can *)
(* be killed and the router can reboot between any two steps; the agent is *)
(* then run again.                                                         *)
(*                                                                         *)
(* libuci is external: uci_set edits the context of the process, uci_save  *)
(* appends the edits to a delta file on a RAM disk, uci_commit merges all  *)
(* deltas of a package into its file on flash.  The values the agent sets  *)
(* are fixed in main, so a place that can hold an option is described by   *)
(* the options that have their NEW value there.                            *)
(***************************************************************************)
EXTENDS Naturals, Sequences

(* The options in the order the two setters set them. *)
Order ==
  [network |-> <<"ipaddr", "netmask">>,
   dhcp    |-> <<"ignore", "start", "limit", "leasetime">>]

Packages == DOMAIN Order

CONSTANTS
  Requests,  (* The DHCP options that set_dhcp_lan_config is asked to set:  *)
             (* arguments that are not NULL.  main asks for all four.       *)
  MaxFaults  (* Bound: failed calls, kills and reboots.                     *)

ASSUME AgentAssumption ==
  /\ \A R \in Requests : R \subseteq {Order["dhcp"][i] : i \in 1..4}
  /\ MaxFaults \in Nat

VARIABLES
  pc,       (* "off", "show", "set", "save", "commit", "restart_network",   *)
            (* "restart_dnsmasq", "validate" or "leases".                   *)
  package,  (* The package the agent is setting.                            *)
  ctx,      (* The options set in the process's uci context.                *)
  delta,    (* Per package: the options in its delta file.                  *)
  file,     (* Per package: the options in its file.                        *)
  running,  (* Per package: the options its service works with.             *)
  result,   (* main's final_result: 0 or -1, here 0 or 1.                   *)
  lanTxt,   (* lan.txt: "old", "empty", listed in "part" or "listed" by     *)
            (* this run.                                                    *)
  said,     (* What this run told its user.                                 *)
  asked,    (* The DHCP options asked for; it never changes.                *)
  faults    (* Faults so far.                                               *)

disk == <<delta, file>>
vars == <<pc, package, ctx, delta, file, running, result, lanTxt, said, asked,
          faults>>

Options(p) == IF p = "network" THEN {"ipaddr", "netmask"} ELSE asked

Nothing == [p \in Packages |-> {}]
New     == [p \in Packages |-> Options(p)]

Init ==
  /\ pc = "off"
  /\ package = "network"
  /\ ctx = {}
  /\ delta = Nothing
  /\ file = Nothing
  /\ running = Nothing
  /\ result = 0
  /\ lanTxt = "old"
  /\ said = {}
  /\ asked \in Requests
  /\ faults = 0

Fault == faults < MaxFaults /\ faults' = faults + 1

-----------------------------------------------------------------------------
(***************************************************************************)
(* main.                                                                   *)
(***************************************************************************)
Start ==
  /\ pc = "off"
  /\ pc' = "show"
  /\ package' = "network"
  /\ ctx' = {}
  /\ result' = 0
  /\ lanTxt' = "old"
  /\ said' = {}
  /\ UNCHANGED <<disk, running, faults>>

(* show_lan_config truncates lan.txt before it knows whether it has        *)
(* anything to write.  It does not look at what fprintf and fclose return: *)
(* a file that could not be written, or only in part, counts as a success. *)
(* main goes on whatever it returns.                                       *)
Show ==
  /\ pc = "show"
  /\ pc' = "set"
  /\ \/ lanTxt' = "listed" /\ said' = said \cup {"listed"} /\ UNCHANGED faults
     \/ lanTxt' \in {"empty", "part"} /\ said' = said \cup {"listed"} /\ Fault
     \/ lanTxt' \in {"old", "empty"} /\ UNCHANGED said /\ Fault
  /\ UNCHANGED <<package, ctx, disk, running, result>>

(* Mutant of AfterSet: the second step does not look at the first one. *)
AfterSetRegardless(ok) ==
  /\ ctx' = {}
  /\ IF package = "network"
     THEN pc' = "set" /\ package' = "dhcp" /\ UNCHANGED result
     ELSE /\ pc' = IF ok THEN "restart_network" ELSE "validate"
          /\ result' = IF ok THEN result ELSE 1
          /\ UNCHANGED package

(* Mutant of AfterSet: main tests final_result the wrong way round. *)
AfterSetInverted(ok) ==
  /\ ctx' = {}
  /\ result' = IF ok THEN result ELSE 1
  /\ IF ok /\ package = "network"
     THEN pc' = "set" /\ package' = "dhcp"
     ELSE /\ pc' = IF ok THEN "validate" ELSE "restart_network"
          /\ UNCHANGED package

(* The end of set_lan_ip_config or set_dhcp_lan_config: the context is     *)
(* freed, and main takes its next step if there was no error.              *)
AfterSet(ok) ==
  /\ ctx' = {}
  /\ result' = IF ok THEN result ELSE 1
  /\ IF ok /\ package = "network"
     THEN pc' = "set" /\ package' = "dhcp"
     ELSE /\ pc' = IF ok THEN "restart_network" ELSE "validate"
          /\ UNCHANGED package

(* The next of the options asked for goes into the context. *)
SetNext ==
  \E i \in DOMAIN Order[package] :
    /\ Order[package][i] \in Options(package) \ ctx
    /\ \A j \in 1..(i - 1) : Order[package][j] \notin Options(package) \ ctx
    /\ ctx' = ctx \cup {Order[package][i]}

(* Mutant of SetOption: an error goes on to save instead of to cleanup. *)
SetOptionGoesOn ==
  /\ pc = "set"
  /\ \/ /\ SetNext
        /\ pc' = IF ctx' = Options(package) THEN "save" ELSE "set"
        /\ UNCHANGED <<package, result, faults>>
     \/ Fault /\ pc' = "save" /\ UNCHANGED <<package, ctx, result>>
  /\ UNCHANGED <<disk, running, lanTxt, said>>

(* uci_lookup_ptr and uci_set for the next option; the allocation of the   *)
(* context counts with the first one.                                      *)
SetOption ==
  /\ pc = "set"
  /\ \/ /\ SetNext
        /\ pc' = IF ctx' = Options(package) THEN "save" ELSE "set"
        /\ UNCHANGED <<package, result, faults>>
     \/ Fault /\ AfterSet(FALSE)
  /\ UNCHANGED <<disk, running, lanTxt, said>>

(* No option was asked for: nothing is saved, and that is no error. *)
SetNothing ==
  /\ pc = "set" /\ Options(package) = {}
  /\ AfterSet(TRUE)
  /\ UNCHANGED <<disk, running, lanTxt, said, faults>>

Save ==
  /\ pc = "save"
  /\ \/ /\ delta' = [delta EXCEPT ![package] = @ \cup ctx]
        /\ pc' = "commit"
        /\ UNCHANGED <<package, ctx, result, faults>>
     \/ Fault /\ AfterSet(FALSE) /\ UNCHANGED delta
  /\ UNCHANGED <<file, running, lanTxt, said>>

(* A commit that fails leaves the file alone, and may leave the deltas.    *)
Commit ==
  /\ pc = "commit"
  /\ \/ /\ file' = [file EXCEPT ![package] = @ \cup delta[package]]
        /\ delta' = [delta EXCEPT ![package] = {}]
        /\ AfterSet(TRUE)
        /\ UNCHANGED faults
     \/ /\ Fault
        /\ \/ UNCHANGED delta
           \/ delta' = [delta EXCEPT ![package] = {}]
        /\ AfterSet(FALSE)
        /\ UNCHANGED file
  /\ UNCHANGED <<running, lanTxt, said>>

(* A restart that reports an error may or may not have taken effect. *)
Restart(p) == running' = [running EXCEPT ![p] = file[p]]

(* apply_network_changes: the network first ... *)
RestartNetwork ==
  /\ pc = "restart_network"
  /\ pc' = "restart_dnsmasq"
  /\ \/ Restart("network") /\ UNCHANGED <<result, faults>>
     \/ Fault /\ result' = 1 /\ (Restart("network") \/ UNCHANGED running)
  /\ UNCHANGED <<package, ctx, disk, lanTxt, said>>

(* Mutant of RestartDnsmasq: its status replaces that of the network. *)
RestartDnsmasqOverwrites ==
  /\ pc = "restart_dnsmasq"
  /\ pc' = "validate"
  /\ \/ Restart("dhcp") /\ result' = 0 /\ UNCHANGED faults
     \/ Fault /\ result' = 1 /\ (Restart("dhcp") \/ UNCHANGED running)
  /\ said' = IF result' = 0 THEN said \cup {"applied"} ELSE said
  /\ UNCHANGED <<package, ctx, disk, lanTxt>>

(* ... and dnsmasq whether the network came up or not. *)
RestartDnsmasq ==
  /\ pc = "restart_dnsmasq"
  /\ pc' = "validate"
  /\ \/ Restart("dhcp") /\ UNCHANGED <<result, faults>>
     \/ Fault /\ result' = 1 /\ (Restart("dhcp") \/ UNCHANGED running)
  /\ said' = IF result' = 0 THEN said \cup {"applied"} ELSE said
  /\ UNCHANGED <<package, ctx, disk, lanTxt>>

(* check_lan_ip_config_validity reads the address br-lan has now; ifconfig *)
(* may fail, or show an interface that is not up yet.                      *)
Validate ==
  /\ pc = "validate"
  /\ pc' = "leases"
  /\ \/ /\ running["network"] = Options("network")
        /\ said' = said \cup {"valid"}
        /\ UNCHANGED faults
     \/ running["network"] # Options("network") /\ UNCHANGED <<said, faults>>
     \/ Fault /\ UNCHANGED said
  /\ UNCHANGED <<package, ctx, disk, running, result, lanTxt>>

(* check_dhcp_leases_with_validation, the module LeasePoll, and the end of *)
(* the run.  main returns 0 in every case.                                 *)
Leases ==
  /\ pc = "leases"
  /\ pc' = "off"
  /\ UNCHANGED <<package, ctx, disk, running, result, lanTxt, said, faults>>

-----------------------------------------------------------------------------
(***************************************************************************)
(* What happens around the agent.                                          *)
(***************************************************************************)
(* The process ends while it may be writing lan.txt. *)
ListingCut == lanTxt' \in {lanTxt} \cup IF pc = "show" THEN {"empty", "part"} ELSE {}

(* The process dies: its context is gone, the files are as they are. *)
Kill ==
  /\ pc # "off"
  /\ Fault
  /\ pc' = "off"
  /\ ctx' = {}
  /\ ListingCut
  /\ UNCHANGED <<package, disk, running, result, said>>

(* The router restarts: the RAM disk is empty, and the services start with *)
(* the files on flash.                                                     *)
Reboot ==
  /\ Fault
  /\ pc' = "off"
  /\ ctx' = {}
  /\ delta' = Nothing
  /\ running' = file
  /\ said' = {}
  /\ ListingCut
  /\ UNCHANGED <<package, file, result>>

(* Another user of libuci commits what it finds in a delta file. *)
ForeignCommit ==
  \E p \in Packages :
    /\ delta[p] # {}
    /\ file' = [file EXCEPT ![p] = @ \cup delta[p]]
    /\ delta' = [delta EXCEPT ![p] = {}]
    /\ UNCHANGED <<pc, package, ctx, running, result, lanTxt, said, faults>>

Agent == Start \/ Show \/ SetOption \/ SetNothing \/ Save \/ Commit
         \/ RestartNetwork \/ RestartDnsmasq \/ Validate \/ Leases

Next == (Agent \/ Kill \/ Reboot \/ ForeignCommit) /\ UNCHANGED asked

Spec == Init /\ [][Next]_vars

(* The agent is run again and again, and each run is scheduled; the lease  *)
(* file is there, so that LeasePoll ends.                                  *)
FairSpec == Spec /\ WF_vars(Agent /\ UNCHANGED asked)

-----------------------------------------------------------------------------
TypeOK ==
  /\ pc \in {"off", "show", "set", "save", "commit", "restart_network",
             "restart_dnsmasq", "validate", "leases"}
  /\ package \in Packages
  /\ ctx \subseteq Options(package)
  /\ \A p \in Packages : /\ delta[p] \subseteq Options(p)
                         /\ file[p] \subseteq Options(p)
                         /\ running[p] \subseteq Options(p)
  /\ result \in {0, 1}
  /\ lanTxt \in {"old", "empty", "part", "listed"}
  /\ said \subseteq {"listed", "applied", "valid"}
  /\ asked \in Requests
  /\ faults \in 0..MaxFaults

(* A package is changed as a whole or not at all: no failure, kill or      *)
(* reboot leaves the new address with the old netmask, or half a DHCP      *)
(* range, on disk or in a service (uci_handler.c:120-146 and 180-231).     *)
AllOrNothing ==
  \A p \in Packages : {delta[p], file[p], running[p]} \subseteq {{}, Options(p)}

(* The DHCP range of the new network is never stored, nor staged, while    *)
(* the LAN still has its old address on disk (main_app.c:46-56).           *)
AddressBeforeRange ==
  delta["dhcp"] \cup file["dhcp"] # {} => file["network"] = Options("network")

(* The services are restarted only when both packages are complete on      *)
(* disk and nothing is left staged (main_app.c:58-62).                     *)
RestartWhenComplete ==
  pc \in {"restart_network", "restart_dnsmasq"} => file = New /\ delta = Nothing

(* The address, then the range, then the services (main_app.c:46-62). *)
StepsInOrder == AddressBeforeRange /\ RestartWhenComplete

(* What the user is told of a change is so: "Ap dung thay doi cau hinh     *)
(* thanh cong" is said only when both services run with the new values,    *)
(* and "hop le" only when the network does (main_app.c:62-70 and 81-85).   *)
ToldTheTruth ==
  /\ "applied" \in said => running = New
  /\ "valid" \in said => running["network"] = Options("network")

(* "Da ghi cau hinh LAN ra %s thanh cong" (main_app.c:22) is not: nobody   *)
(* looks whether lan.txt was written (uci_handler.c:66-93).                *)
ListedIsListed == pc # "off" /\ "listed" \in said => lanTxt = "listed"

(* Running the agent again repairs what failed runs left: when no more     *)
(* faults come, the new configuration is in use for good.                  *)
RerunRepairs == <>[](running = New)
=============================================================================
