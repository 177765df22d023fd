----------------------------- MODULE CloudInit ------------------------------
(***************************************************************************)
(* What the machine reconciler does to the bootstrap data of a machine     *)
(* before it sends them to WX-ONE as user data: cloudInitYAMLToJSON and    *)
(* addPersistentLoAddressToCloudInit (internal/controller/                 *)
(* wxonemachine_controller.go).                                            *)
(*                                                                         *)
(* A document is known by its header line, by what is under it and, if     *)
(* that is a mapping, by the two lists the reconciler looks at.            *)
(***************************************************************************)
EXTENDS Naturals, Sequences

Bodies ==
    {"none",      \* there is no line (after the header)
     "null",      \* nothing but blank lines and comments
     "text",      \* something that is no YAML, as in a multi-part document
     "list",      \* a YAML list, or a scalar
     "mapping"}   \* what cloud-init calls cloud-config

(* An entry of a list is its name and, if it holds one, an address; what   *)
(* is not a list is written as a list that no document has.                *)
NotAList == <<<<"not a list", 0>>>>

Names == {"not a list",
          "kubeadm.yaml", "kubeadm",  \* in the bootstrap data
          "configure-lo.sh", "configure-lo.service", "daemon-reload",
          "enable configure-lo", "start configure-lo"}

Entries == Names \X Nat

Documents == [header : BOOLEAN, body : Bodies, write_files : Seq(Entries),
              runcmd : Seq(Entries)]

(* An absent list and an empty one come out the same. *)
Document(header, body, files, commands) ==
    [header |-> header, body |-> body, write_files |-> files,
     runcmd |-> commands]

Failed == [ok |-> FALSE]

Result(doc) == [ok |-> TRUE, doc |-> doc]

(* The header line goes, the rest is YAML and is written as JSON; an empty *)
(* document is null.                                                       *)
cloudInitYAMLToJSON(d) ==
    IF d.body = "text" \/ (d.header /\ d.body = "none")
      THEN Failed
      ELSE Result([d EXCEPT !.header = FALSE,
                            !.body = IF @ = "none" THEN "null" ELSE @])

LoopbackFiles(addr) ==
    <<<<"configure-lo.sh", addr>>, <<"configure-lo.service", 0>>>>

LoopbackCommands ==
    <<<<"daemon-reload", 0>>, <<"enable configure-lo", 0>>,
      <<"start configure-lo", 0>>>>

(* mutant: the files of the bootstrap data are overwritten *)
OverwrittenBy(list, entries) == entries

Extended(list, entries) ==
    IF list = NotAList THEN entries ELSE list \o entries

(* A list or a scalar cannot be unmarshalled to a map; the map of null is  *)
(* nil, and the assignment to it panics.                                   *)
addPersistentLoAddressToCloudInit(d, addr) ==
    LET j == cloudInitYAMLToJSON(d)
    IN  IF ~j.ok \/ j.doc.body # "mapping"
          THEN Failed
          ELSE Result([j.doc EXCEPT
                         !.write_files = Extended(@, LoopbackFiles(addr)),
                         !.runcmd = Extended(@, LoopbackCommands)])

(* reconcileNormal: only the machines of the control plane get the address *)
UserData(d, controlPlane, addr) ==
    IF ~controlPlane THEN cloudInitYAMLToJSON(d)
    ELSE LET u == addPersistentLoAddressToCloudInit(d, addr)
         IN  IF u.ok THEN cloudInitYAMLToJSON(u.doc) ELSE Failed
=============================================================================
