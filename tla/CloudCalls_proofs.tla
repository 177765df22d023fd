------------------------- MODULE CloudCalls_proofs --------------------------
(***************************************************************************)
(* Theorems about CloudCalls, for every bound, quota and setting of the    *)
(* webhooks; those that need the webhooks say so.                          *)
(***************************************************************************)
EXTENDS CloudCalls, CloudInit_proofs, Counting, TLAPS

Handlers == {<<>>, ClusterCalls, ClusterDeletes, MachineCalls, MachineDeletes}

(* The handlers can be told apart. *)
LEMMA HandlersDiffer ==
    /\ <<>> \notin {ClusterCalls, ClusterDeletes, MachineCalls,
                    MachineDeletes}
    /\ ClusterCalls \notin {ClusterDeletes, MachineCalls, MachineDeletes}
    /\ ClusterDeletes \notin {MachineCalls, MachineDeletes}
    /\ MachineCalls # MachineDeletes
  BY DEF ClusterCalls, ClusterDeletes, MachineCalls, MachineDeletes

-----------------------------------------------------------------------------
(* Which calls are due, and what is then known *)

(* In reconcileNormal of a cluster a call is due once all that is asked for *)
(* before it is known: the project, then the network, the address, the key. *)
LEMMA DueInCluster ==
    ASSUME calls = ClusterCalls
    PROVE  \A op : DueNext(op) =>
             \/ op = "getDefaultProject" /\ ids.project = None
             \/ /\ op = "createNetwork"
                /\ ids.project # None /\ ids.subnet = None
             \/ /\ op = "createFloatingIP"
                /\ ids.project # None /\ ids.subnet # None
                /\ ids.floatingIP = None
             \/ /\ op = "createKey"
                /\ ids.project # None /\ ids.subnet # None
                /\ ids.floatingIP # None /\ ids.sshKey = None
<1>1. /\ DOMAIN calls = 1..4 /\ calls[1] = "getDefaultProject"
      /\ calls[2] = "createNetwork" /\ calls[3] = "createFloatingIP"
      /\ calls[4] = "createKey"
  BY DEF ClusterCalls
<1>2. /\ Due["getDefaultProject"] <=> ids.project = None
      /\ Due["createNetwork"] <=> ids.subnet = None
      /\ Due["createFloatingIP"] <=> ids.floatingIP = None
      /\ Due["createKey"] <=> ids.sshKey = None
  BY DEF Due
<1> HIDE DEF Due
<1>3. ASSUME NEW op, DueNext(op)
      PROVE  \E i \in 1..4 : /\ calls[i] = op /\ Due[op]
                             /\ \A j \in 1..(i - 1) : ~Due[calls[j]]
  BY <1>1, <1>3 DEF DueNext
<1>4. ASSUME NEW op, DueNext(op)
      PROVE  \/ op = "getDefaultProject" /\ Due["getDefaultProject"]
             \/ /\ op = "createNetwork" /\ Due["createNetwork"]
                /\ ~Due["getDefaultProject"]
             \/ /\ op = "createFloatingIP" /\ Due["createFloatingIP"]
                /\ ~Due["getDefaultProject"] /\ ~Due["createNetwork"]
             \/ /\ op = "createKey" /\ Due["createKey"]
                /\ ~Due["getDefaultProject"] /\ ~Due["createNetwork"]
                /\ ~Due["createFloatingIP"]
  BY <1>1, <1>3, <1>4
<1> QED
  BY <1>2, <1>4

(* In reconcileDelete of a cluster a deletion is due as long as its id is   *)
(* known.                                                                   *)
LEMMA DueInClusterDeletes ==
    ASSUME calls = ClusterDeletes
    PROVE  \A op : DueNext(op) =>
             \/ op = "deleteNetwork" /\ ids.subnet # None
             \/ op = "deleteFloatingIP" /\ ids.floatingIP # None
             \/ op = "deleteKey" /\ ids.sshKey # None
<1>1. /\ DOMAIN calls = 1..3 /\ calls[1] = "deleteNetwork"
      /\ calls[2] = "deleteFloatingIP" /\ calls[3] = "deleteKey"
  BY DEF ClusterDeletes
<1>2. /\ Due["deleteNetwork"] <=> ids.subnet # None
      /\ Due["deleteFloatingIP"] <=> ids.floatingIP # None
      /\ Due["deleteKey"] <=> ids.sshKey # None
  BY DEF Due
<1> HIDE DEF Due
<1>3. ASSUME NEW op, DueNext(op)
      PROVE  \E i \in 1..3 : calls[i] = op /\ Due[op]
  BY <1>1, <1>3 DEF DueNext
<1> QED
  BY <1>1, <1>2, <1>3

(* In reconcileNormal of a machine nothing is due before the cluster is     *)
(* ready, an instance is created once its image and flavor are known, and   *)
(* its address is routed once it exists.                                    *)
LEMMA DueInMachine ==
    ASSUME calls = MachineCalls
    PROVE  \A op : DueNext(op) =>
             /\ "cluster" \in ready
             /\ \/ op = "getFlavorByName"
                \/ op = "getImageList"
                \/ /\ op = "createInstance" /\ ids.instance = None
                   /\ ids.image # None /\ ids.flavor # None
                \/ /\ op = "createFloatingGroup" /\ controlPlane
                   /\ ids.instance # None /\ ids.route = None
                \/ op = "getInstance" /\ ids.instance # None
<1>1. /\ DOMAIN calls = 1..5 /\ calls[1] = "getFlavorByName"
      /\ calls[2] = "getImageList" /\ calls[3] = "createInstance"
      /\ calls[4] = "createFloatingGroup" /\ calls[5] = "getInstance"
  BY DEF MachineCalls
<1>2. /\ Due["createInstance"] <=> /\ ids.instance = None
                                   /\ ids.image # None /\ ids.flavor # None
      /\ Due["createFloatingGroup"] <=> /\ controlPlane
                                        /\ ids.instance # None
                                        /\ ids.route = None
      /\ Due["getInstance"] => ids.instance # None
  BY DEF Due
<1> HIDE DEF Due
<1>3. ASSUME NEW op, DueNext(op)
      PROVE  \E i \in 1..5 : calls[i] = op /\ Due[op]
  BY <1>1, <1>3 DEF DueNext
<1> QED
  BY <1>1, <1>2, <1>3 DEF DueNext, Gate

(* In reconcileDelete of a machine the route of a control plane goes before *)
(* the instance does.                                                       *)
LEMMA DueInMachineDeletes ==
    ASSUME calls = MachineDeletes
    PROVE  \A op : DueNext(op) =>
             \/ /\ op = "deleteFloatingGroup"
                /\ controlPlane /\ ids.route # None
             \/ /\ op = "deleteInstance"
                /\ ids.instance # None /\ (controlPlane => ids.route = None)
<1>1. /\ DOMAIN calls = 1..2 /\ calls[1] = "deleteFloatingGroup"
      /\ calls[2] = "deleteInstance"
  BY DEF MachineDeletes
<1>2. /\ Due["deleteFloatingGroup"] <=> controlPlane /\ ids.route # None
      /\ Due["deleteInstance"] <=> /\ ids.instance # None
                                   /\ controlPlane => ids.route = None
  BY DEF Due
<1> HIDE DEF Due
<1>3. ASSUME NEW op, DueNext(op)
      PROVE  \E i \in 1..2 : calls[i] = op /\ Due[op]
  BY <1>1, <1>3 DEF DueNext
<1> QED
  BY <1>1, <1>2, <1>3

(* Outside a pass nothing is due.                                           *)
LEMMA DueInNone == calls = <<>> => \A op : ~DueNext(op)
  BY DEF DueNext

(* A cluster with nothing left to do has its key, which comes last; a       *)
(* machine with nothing left to delete has no instance.                     *)
LEMMA NothingToDo ==
    /\ calls = ClusterCalls /\ NothingDue => ids.sshKey # None
    /\ calls = MachineDeletes /\ NothingDue => ids.instance = None
<1>1. ASSUME calls = ClusterCalls, NothingDue PROVE ids.sshKey # None
  <2>1. 4 \in DOMAIN calls /\ calls[4] = "createKey"
    BY <1>1 DEF ClusterCalls
  <2>2. Due["createKey"] <=> ids.sshKey = None
    BY DEF Due
  <2> QED
    BY <1>1, <2>1, <2>2 DEF NothingDue
<1>2. ASSUME calls = MachineDeletes, NothingDue
      PROVE  ids.instance = None
  <2>1. /\ 1 \in DOMAIN calls /\ calls[1] = "deleteFloatingGroup"
        /\ 2 \in DOMAIN calls /\ calls[2] = "deleteInstance"
    BY <1>2 DEF MachineDeletes
  <2>2. /\ Due["deleteFloatingGroup"] <=> controlPlane /\ ids.route # None
        /\ Due["deleteInstance"] <=> /\ ids.instance # None
                                     /\ controlPlane => ids.route = None
    BY DEF Due
  <2>3. ~Due["deleteFloatingGroup"] /\ ~Due["deleteInstance"]
    BY <1>2, <2>1 DEF NothingDue
  <2> QED
    BY <2>2, <2>3
<1> QED
  BY <1>1, <1>2

-----------------------------------------------------------------------------
(* Where a call is due *)

(* A call that is due belongs to the handler that makes it.                *)
LEMMA DueWhere ==
    ASSUME calls \in Handlers
    PROVE  /\ DueNext("getDefaultProject") =>
                calls = ClusterCalls /\ ids.project = None
           /\ DueNext("createNetwork") =>
                /\ calls = ClusterCalls /\ ids.project # None
                /\ ids.subnet = None
           /\ DueNext("createFloatingIP") =>
                /\ calls = ClusterCalls /\ ids.project # None
                /\ ids.subnet # None /\ ids.floatingIP = None
           /\ DueNext("createKey") =>
                /\ calls = ClusterCalls /\ ids.project # None
                /\ ids.subnet # None /\ ids.floatingIP # None
                /\ ids.sshKey = None
           /\ DueNext("getFlavorByName") =>
                calls = MachineCalls /\ "cluster" \in ready
           /\ DueNext("getImageList") =>
                calls = MachineCalls /\ "cluster" \in ready
           /\ DueNext("createInstance") =>
                /\ calls = MachineCalls /\ "cluster" \in ready
                /\ ids.instance = None /\ ids.image # None
                /\ ids.flavor # None
           /\ DueNext("createFloatingGroup") =>
                /\ calls = MachineCalls /\ "cluster" \in ready
                /\ controlPlane /\ ids.instance # None /\ ids.route = None
           /\ DueNext("getInstance") =>
                /\ calls = MachineCalls /\ "cluster" \in ready
                /\ ids.instance # None
           /\ DueNext("deleteNetwork") =>
                calls = ClusterDeletes /\ ids.subnet # None
           /\ DueNext("deleteFloatingIP") =>
                calls = ClusterDeletes /\ ids.floatingIP # None
           /\ DueNext("deleteKey") =>
                calls = ClusterDeletes /\ ids.sshKey # None
           /\ DueNext("deleteFloatingGroup") =>
                calls = MachineDeletes /\ controlPlane /\ ids.route # None
           /\ DueNext("deleteInstance") =>
                /\ calls = MachineDeletes /\ ids.instance # None
                /\ controlPlane => ids.route = None
<1>1. CASE calls = <<>>
  BY <1>1, DueInNone
<1>2. CASE calls = ClusterCalls
  BY <1>2, DueInCluster
<1>3. CASE calls = ClusterDeletes
  BY <1>3, DueInClusterDeletes
<1>4. CASE calls = MachineCalls
  BY <1>4, DueInMachine
<1>5. CASE calls = MachineDeletes
  BY <1>5, DueInMachineDeletes
<1> QED
  BY <1>1, <1>2, <1>3, <1>4, <1>5 DEF Handlers

-----------------------------------------------------------------------------
(* What a pass leaves behind it *)

(* The part of the state that a pass works on, and its type.               *)
PassType ==
    /\ queued \subseteq Reconciled /\ spec \in Specs
    /\ ids \in [Fields -> Nat] /\ copy \in [ClusterFields -> Nat]
    /\ calls \in Handlers
    /\ session \in {"none", "nil", "anonymous", "usable"}

(* A pass that has not read the WXOneCluster knows nothing of it, and what   *)
(* is recorded of it is a part of what is recorded.                         *)
LEMMA NothingType ==
    /\ Nothing \in [ClusterFields -> Nat] /\ ClusterFields \subseteq Fields
    /\ \A known \in [Fields -> Nat] :
         [f \in ClusterFields |-> known[f]] \in [ClusterFields -> Nat]
  BY DEF Nothing, ClusterFields, Fields, None

(* The handler tells which object a pass works on.                          *)
LEMMA WorkerFacts ==
    /\ Worker \in Reconciled
    /\ calls \in {ClusterCalls, ClusterDeletes} => Worker = "cluster"
    /\ calls \in {MachineCalls, MachineDeletes} => Worker = "machine"
  BY HandlersDiffer DEF Worker, Reconciled

(* Either the pass ends, or it goes on with what it has recorded.          *)
LEMMA EndFacts ==
    ASSUME NEW known, EndWith(known)
    PROVE  /\ calls' = <<>> /\ session' = "none" /\ copy' = Nothing
           /\ ids' = known /\ spec' = spec
           /\ queued' = queued \cup {Worker}
  BY DEF EndWith, EndPass

(* What is recorded is in the status and queues the object again; the spec  *)
(* changes only as the webhooks allow.                                      *)
LEMMA RecordFacts ==
    ASSUME NEW known, NEW s, Record(known, s)
    PROVE  /\ ids' = known /\ queued' = queued \cup {Worker}
           /\ \/ calls' = calls /\ session' = session /\ copy' = copy
              \/ calls' = <<>> /\ session' = "none" /\ copy' = Nothing
           /\ \/ /\ Admits(Worker, spec[Worker], s)
                 /\ spec' = [spec EXCEPT ![Worker] = s]
              \/ spec' = spec
  BY DEF Record, EndPass, pass

(* A pass that ends leaves a status and a queue of the right types.         *)
LEMMA EndType ==
    ASSUME PassType, NEW known \in [Fields -> Nat], EndWith(known)
    PROVE  PassType'
<1> USE DEF PassType
<1>1. <<>> \in Handlers
  BY DEF Handlers
<1> QED
  BY <1>1, EndFacts, WorkerFacts, NothingType

(* What is left of the status when a pass fails is a status.                *)
LEMMA PersistentType ==
    ids \in [Fields -> Nat] => Persistent \in [Fields -> Nat]
  BY DEF Persistent, Fields, None

(* A pass that fails leaves a state of the right type.                      *)
LEMMA AbortType == PassType /\ Abort => PassType'
  BY EndType, PersistentType DEF Abort, PassType

(* A pass that records a status and a spec of the right types leaves a      *)
(* state of the right type.                                                 *)
LEMMA RecordType ==
    ASSUME PassType, NEW known \in [Fields -> Nat], NEW s,
           [spec EXCEPT ![Worker] = s] \in Specs, Record(known, s)
    PROVE  PassType'
<1>1. <<>> \in Handlers
  BY DEF Handlers
<1> QED
  BY <1>1, RecordFacts, WorkerFacts, NothingType DEF PassType

(* What is found in an answer is recorded, or the pass ends.               *)
LEMMA ReceiveType ==
    ASSUME PassType, NEW found, NEW whole, NEW known, NEW s,
           found # <<>> => known \in [Fields -> Nat],
           found # <<>> => [spec EXCEPT ![Worker] = s] \in Specs,
           Receive(found, whole, known, s)
    PROVE  PassType' /\ (bad' = bad \/ Spend)
<1>1. CASE found = <<>>
  BY <1>1, AbortType DEF Receive
<1>2. CASE found # <<>>
  <2>1. Record(known, s)
    BY <1>2 DEF Receive
  <2>2. PassType'
    BY <1>2, <2>1, RecordType
  <2> QED
    BY <2>2 DEF Receive
<1> QED
  BY <1>1, <1>2

-----------------------------------------------------------------------------
(* Everything keeps its shape *)

(* What is given, the objects and the resources, and their types.          *)
StateType ==
    /\ controlPlane \in BOOLEAN /\ catalogue \in Seq(Images \cup {""})
    /\ data \in Documents /\ secret \in {"complete", "partial"}
    /\ life \in [Reconciled -> {"wanted", "present", "deleting", "gone"}]
    /\ ready \subseteq Reconciled /\ template \in Specs
    /\ seen \in [ClusterFields -> Nat]
    /\ cloud \subseteq Resources
    /\ next \in Nat \ {0} /\ \A r \in cloud : r.id \in 1..(next - 1)
    /\ bad \in 0..MaxBad /\ edits \in 0..MaxEdits

(* TypeOK is what a pass changes and what it does not, in this state and in *)
(* the next.                                                                *)
LEMMA TypeParts ==
    /\ TypeOK <=> PassType /\ StateType
    /\ TypeOK' <=> PassType' /\ StateType'
  BY DEF TypeOK, PassType, StateType, Handlers

(* A spent disturbance is one within the bound.                             *)
LEMMA SpendType == MaxBad \in Nat /\ bad \in 0..MaxBad /\ Spend
                     => bad' \in 0..MaxBad
  BY DEF Spend

(* The documents, the specs and the situations have the types they should. *)
LEMMA EmptyDocument == Document(FALSE, "none", <<>>, <<>>) \in Documents
<1>1. <<>> \in Seq(Entries)
  BY EmptySeq
<1> QED
  BY <1>1 DEF Document, Documents, Bodies

(* Every situation has a catalogue, a document, a secret and a spec of the  *)
(* right types, and no document of a user holds an address.                 *)
LEMMA SituationType ==
    ASSUME NEW s \in Situations
    PROVE  /\ s.catalogue \in Seq(Images \cup {""}) /\ s.data \in Documents
           /\ s.secret \in {"complete", "partial"}
           /\ s.project \in Projects /\ s.subnets \in Nat
           /\ Unaddressed(AsList(s.data.write_files))
<1> DEFINE file == <<<<"kubeadm.yaml", 0>>>>
           command == <<<<"kubeadm", 0>>>>
           Listed == {<<"old">>, <<"", "image">>, <<"image", "", "image">>}
           Data == {Document(TRUE, "none", <<>>, <<>>),
                    Document(FALSE, "null", <<>>, <<>>),
                    Document(FALSE, "list", <<>>, <<>>),
                    Document(FALSE, "text", <<>>, <<>>),
                    Document(TRUE, "mapping", <<>>, NotAList)}
<1>1. /\ "old" \in Images \cup {""} /\ "image" \in Images \cup {""}
      /\ "" \in Images \cup {""}
  BY DEF Images
<1>2. /\ Listed \subseteq Seq(Images \cup {""})
      /\ <<"old", "image", "image">> \in Seq(Images \cup {""})
  BY <1>1
<1>3. /\ <<>> \in Seq(Entries) /\ NotAList \in Seq(Entries)
      /\ Unaddressed(AsList(<<>>)) /\ Unaddressed(AsList(NotAList))
  BY EmptySeq, NotAListType DEF Unaddressed, AsList
<1>4. /\ Files(<<"kubeadm.yaml">>) \in Seq(Entries)
      /\ Files(<<"kubeadm">>) \in Seq(Entries)
      /\ Unaddressed(AsList(Files(<<"kubeadm.yaml">>)))
  <2>1. /\ <<"kubeadm.yaml", 0>> \in Entries /\ <<"kubeadm", 0>> \in Entries
    BY EntryType DEF Names
  <2>2. Files(<<"kubeadm.yaml">>) = file /\ Files(<<"kubeadm">>) = command
    BY DEF Files
  <2>3. /\ file \in Seq(Entries) /\ command \in Seq(Entries)
        /\ Len(file) = 1 /\ file[1] = <<"kubeadm.yaml", 0>>
    BY <2>1, ShortSequences, Zenon
  <2>4. file[1][2] = 0
    BY <2>3
  <2> HIDE DEF file, command
  <2>5. Unaddressed(file)
    BY <2>3, <2>4 DEF Unaddressed
  <2>6. Unaddressed(<<>>)
    BY DEF Unaddressed
  <2> QED
    BY <2>2, <2>3, <2>5, <2>6 DEF AsList
<1>5. CloudConfig \in Documents
      /\ Unaddressed(AsList(CloudConfig.write_files))
  BY <1>4 DEF CloudConfig, Document, Documents, Bodies
<1>6. \A d \in Data : /\ d \in Documents
                      /\ Unaddressed(AsList(d.write_files))
  <2>1. \A h \in BOOLEAN, b \in Bodies, f \in Seq(Entries) :
          /\ Document(h, b, <<>>, f) \in Documents
          /\ Document(h, b, <<>>, f).write_files = <<>>
    BY <1>3 DEF Document, Documents
  <2>2. {"none", "null", "list", "text", "mapping"} \subseteq Bodies
    BY DEF Bodies
  <2>3. \A d \in Data : d \in Documents /\ d.write_files = <<>>
    BY <1>3, <2>1, <2>2
  <2> QED
    BY <1>3, <2>3
<1> HIDE DEF Listed, Data
<1>7. \/ /\ s.catalogue = <<"old", "image", "image">>
         /\ s.data = CloudConfig /\ s.secret \in {"complete", "partial"}
         /\ s.project \in {"default", "other"} /\ s.subnets \in {0, 2}
      \/ /\ s.catalogue \in Listed /\ s.data = CloudConfig
         /\ s.secret = "complete" /\ s.project = "default" /\ s.subnets = 2
      \/ /\ s.catalogue = <<"old", "image", "image">> /\ s.data \in Data
         /\ s.secret = "complete" /\ s.project = "default" /\ s.subnets = 2
  <2>1. CASE s \in {Expected, [Expected EXCEPT !.project = "other"],
                    [Expected EXCEPT !.subnets = 0],
                    [Expected EXCEPT !.secret = "partial"]}
    BY <2>1 DEF Expected
  <2>2. CASE s \in {[Expected EXCEPT !.catalogue = c] : c \in Listed}
    BY <2>2 DEF Expected
  <2>3. CASE s \in {[Expected EXCEPT !.data = d] : d \in Data}
    BY <2>3 DEF Expected
  <2> QED
    BY <2>1, <2>2, <2>3, Zenon DEF Situations, Listed, Data
<1>8. s.catalogue \in Seq(Images \cup {""})
  BY <1>2, <1>7
<1>9. s.data \in Documents /\ Unaddressed(AsList(s.data.write_files))
  BY <1>5, <1>6, <1>7
<1>10. /\ s.secret \in {"complete", "partial"}
       /\ s.project \in Projects /\ s.subnets \in Nat
  BY <1>7 DEF Projects
<1> QED
  BY <1>8, <1>9, <1>10

(* The first states have the right types.                                   *)
LEMMA InitType == Init => TypeOK
<1> SUFFICES ASSUME Init PROVE TypeOK
  OBVIOUS
<1>1. PICK s \in Situations :
        /\ controlPlane \in BOOLEAN
        /\ catalogue = s.catalogue /\ data = s.data /\ secret = s.secret
        /\ template = [cluster |-> [project |-> s.project,
                                    subnets |-> s.subnets, endpoint |-> None],
                       machine |-> [image |-> "image", providerID |-> None]]
  BY Zenon DEF Init
<1>2. template \in Specs
  BY <1>1, SituationType DEF Specs, Projects, Images, None
<1>3. PassType
  BY <1>2, NothingType DEF Init, PassType, Handlers, Reconciled, Fields, None
<1>4. StateType
  <2>1. /\ life \in [Reconciled ->
                       {"wanted", "present", "deleting", "gone"}]
        /\ ready \subseteq Reconciled
        /\ cloud \subseteq Resources
        /\ next \in Nat \ {0} /\ \A r \in cloud : r.id \in 1..(next - 1)
        /\ bad \in 0..MaxBad /\ edits \in 0..MaxEdits
        /\ seen \in [ClusterFields -> Nat]
    BY BoundsAssumption, NothingType DEF Init
  <2> QED
    BY <1>1, <1>2, <2>1, SituationType DEF StateType
<1> QED
  BY <1>3, <1>4, TypeParts

(* What is edited keeps its shape.                                         *)
LEMMA EditType ==
    ASSUME NEW sp \in Specs, NEW o \in Reconciled, NEW new \in Edits(o, sp[o])
    PROVE  [sp EXCEPT ![o] = new] \in Specs
<1>1. Elsewhere \in Nat /\ "other" \in Projects /\ "old" \in Images
  BY DEF Elsewhere, Projects, Images
<1>2. CASE o = "cluster"
  <2>1. new \in [project : Projects, subnets : Nat, endpoint : Nat]
    BY <1>1, <1>2 DEF Edits, Specs
  <2> QED
    BY <1>2, <2>1 DEF Specs
<1>3. CASE o = "machine"
  <2>1. new \in [image : Images, providerID : Nat]
    BY <1>1, <1>3 DEF Edits, Specs
  <2> QED
    BY <1>3, <2>1 DEF Specs
<1> QED
  BY <1>2, <1>3 DEF Reconciled

(* What is new has the next id and the shape of the others.                *)
LEMMA NewType ==
    ASSUME TypeOK, NEW kind \in Kinds
    PROVE  /\ New(kind) \in Resources
           /\ New(kind).id = next /\ New(kind).kind = kind
           /\ New(kind).project = Sent("project")
<1>1. Sent("project") \in Nat
  BY DEF TypeOK, Fields, ClusterFields, Sent
<1> QED
  BY <1>1, EmptyDocument DEF TypeOK, New, Resources, None

(* A new resource has the next id and leaves the cloud well typed.          *)
LEMMA MakeType ==
    ASSUME TypeOK, NEW r \in Resources, r.id = next, Make(r)
    PROVE  /\ cloud' \subseteq Resources /\ next' \in Nat \ {0}
           /\ \A x \in cloud' : x.id \in 1..(next' - 1)
<1>1. next \in Nat \ {0} /\ cloud \subseteq Resources
      /\ \A x \in cloud : x.id \in 1..(next - 1)
  BY DEF TypeOK
<1>2. cloud' = cloud \cup {r} /\ next' = next + 1
  BY DEF Make
<1> QED
  BY <1>1, <1>2

(* A field is filled in with what the answer has.                          *)
LEMMA KnownType ==
    ASSUME TypeOK, NEW f \in Fields, NEW n \in Nat
    PROVE  [ids EXCEPT ![f] = n] \in [Fields -> Nat]
  BY DEF TypeOK

(* A spec that is written back as it was has its type.                      *)
LEMMA SameSpec ==
    ASSUME TypeOK
    PROVE  /\ [spec EXCEPT !["cluster"] = spec.cluster] \in Specs
           /\ [spec EXCEPT !["machine"] = spec.machine] \in Specs
  BY DEF TypeOK, Specs

(* No step takes the state out of its type.                                *)
LEMMA UserType ==
    ASSUME TypeOK, NEW o \in Reconciled,
           Create(o) \/ EditTemplate(o) \/ Edit(o) \/ Delete(o)
             \/ CompleteSecret \/ Boot \/ Deliver
    PROVE  TypeOK'
<1> USE DEF PassType, StateType
<1>0. PassType /\ StateType /\ MaxEdits \in Nat
  BY TypeParts, BoundsAssumption
<1>1. CASE Create(o)
  <2>1. [spec EXCEPT ![o] = template[o]] \in Specs
    BY <1>0 DEF Specs, Reconciled
  <2> QED
    BY <1>0, <1>1, <2>1, TypeParts DEF Create, aside, given, pass
<1>2. CASE EditTemplate(o)
  <2>1. template' \in Specs
    <3>1. PICK new \in Edits(o, template[o]) :
            template' = [template EXCEPT ![o] = new]
      BY <1>2 DEF EditTemplate
    <3>2. template \in Specs
      BY <1>0
    <3> QED
      BY <3>1, <3>2, EditType, Zenon
  <2>2. edits' \in 0..MaxEdits
    <3>1. edits < MaxEdits /\ edits' = edits + 1
      BY <1>2 DEF EditTemplate
    <3>2. edits \in 0..MaxEdits /\ MaxEdits \in Nat
      BY <1>0
    <3> HIDE DEF PassType, StateType
    <3> QED
      BY <3>1, <3>2
  <2> QED
    BY <1>0, <1>2, <2>1, <2>2, TypeParts DEF EditTemplate, aside, given, pass
<1>3. CASE Edit(o)
  <2>1. spec' \in Specs
    <3>1. PICK new \in Edits(o, spec[o]) : spec' = [spec EXCEPT ![o] = new]
      BY <1>3 DEF Edit
    <3>2. spec \in Specs
      BY <1>0
    <3> QED
      BY <3>1, <3>2, EditType, Zenon
  <2>2. edits' \in 0..MaxEdits
    <3>1. edits < MaxEdits /\ edits' = edits + 1
      BY <1>3 DEF Edit
    <3>2. edits \in 0..MaxEdits /\ MaxEdits \in Nat
      BY <1>0
    <3> HIDE DEF PassType, StateType
    <3> QED
      BY <3>1, <3>2
  <2> QED
    BY <1>0, <1>3, <2>1, <2>2, TypeParts DEF Edit, aside, given, pass
<1>4. CASE Delete(o)
  BY <1>0, <1>4, TypeParts DEF Delete, aside, given, pass
<1>5. CASE CompleteSecret
  BY <1>0, <1>5, TypeParts DEF CompleteSecret, aside, given, pass, objects
<1>6. CASE Boot
  <2>1. PICK v \in cloud :
          cloud' = (cloud \ {v}) \cup {[v EXCEPT !.running = TRUE]}
    BY <1>6 DEF Boot
  <2>2. /\ [v EXCEPT !.running = TRUE] \in Resources
        /\ [v EXCEPT !.running = TRUE].id = v.id
    BY <1>0 DEF Resources
  <2> QED
    BY <1>0, <1>6, <2>1, <2>2, TypeParts DEF Boot, aside, given, pass, objects
<1>7. CASE Deliver
  <2>1. seen' \in [ClusterFields -> Nat]
    BY <1>0, <1>7, PersistentType, NothingType DEF Deliver
  <2>2. queued' \subseteq Reconciled
    BY <1>0, <1>7 DEF Deliver, Reconciled
  <2> QED
    BY <1>0, <1>7, <2>1, <2>2, TypeParts DEF Deliver, given, pass, objects
<1> QED
  BY <1>1, <1>2, <1>3, <1>4, <1>5, <1>6, <1>7

(* What begins, ends or interrupts a pass keeps the types.                  *)
LEMMA PassStepType ==
    ASSUME TypeOK, \A p \in queued : life[p] # "wanted",
           NEW o \in Reconciled,
           \/ Start(o) \/ NewWXOneClients \/ LoginFails \/ CallFails
           \/ DataUnusable \/ Wait \/ FinishCluster \/ FinishDelete
    PROVE  TypeOK'
<1> USE DEF PassType, StateType
<1>0. /\ PassType /\ StateType /\ MaxBad \in Nat /\ <<>> \in Handlers
      /\ Nothing \in [ClusterFields -> Nat]
  BY TypeParts, BoundsAssumption, NothingType DEF Handlers
<1>1. CASE Start(o)
  <2>1. life[o] \in {"present", "deleting", "gone"}
    BY <1>0, <1>1 DEF Start
  <2>2. calls' \in Handlers
    BY <1>1, <2>1 DEF Start, CallsOf, Handlers, Reconciled
  <2> QED
    BY <1>0, <1>1, <2>2, TypeParts DEF Start, aside, given, objects
<1>2. CASE NewWXOneClients
  <2>1. /\ bad' \in 0..MaxBad
        /\ session' \in {"none", "nil", "anonymous", "usable"}
    BY <1>0, <1>2, SpendType DEF NewWXOneClients, meResponse
  <2> QED
    BY <1>0, <1>2, <2>1, TypeParts
       DEF NewWXOneClients, aside, given, pass, objects
<1>3. CASE LoginFails
  BY <1>0, <1>3, TypeParts, SpendType, AbortType DEF LoginFails, aside, given
<1>4. CASE CallFails
  <2>1. bad' \in 0..MaxBad
    BY <1>0, <1>4, SpendType DEF CallFails
  <2> QED
    BY <1>0, <1>4, <2>1, TypeParts, AbortType DEF CallFails, aside, given
<1>5. CASE DataUnusable
  BY <1>0, <1>5, TypeParts, AbortType DEF DataUnusable, aside, given
<1>6. CASE Wait
  BY <1>0, <1>6, TypeParts DEF Wait, EndPass, aside, given, objects
<1>7. CASE FinishCluster
  <2>1. [spec EXCEPT !.cluster = [spec.cluster EXCEPT
                                    !.endpoint = ids.floatingIP]] \in Specs
    BY <1>0 DEF Specs, Fields
  <2>2. /\ spec' \in Specs /\ ready' \subseteq Reconciled
        /\ queued' \subseteq Reconciled
    BY <1>0, <1>7, <2>1 DEF FinishCluster, Reconciled
  <2> QED
    BY <1>0, <1>7, <2>2, TypeParts
       DEF FinishCluster, EndPass, aside, given
<1>8. CASE FinishDelete
  <2>1. life' \in [Reconciled -> {"wanted", "present", "deleting", "gone"}]
    BY <1>0, <1>8 DEF FinishDelete
  <2> QED
    BY <1>0, <1>8, <2>1, TypeParts
       DEF FinishDelete, EndPass, aside, given
<1> QED
  BY <1>1, <1>2, <1>3, <1>4, <1>5, <1>6, <1>7, <1>8

(* The calls of reconcileNormal of a cluster keep the types.                *)
LEMMA ClusterCallType ==
    ASSUME TypeOK,
           \/ getDefaultProject \/ createNetwork \/ createFloatingIP
           \/ createKey
    PROVE  TypeOK'
<1>0. PassType /\ StateType /\ MaxBad \in Nat /\ calls \in Handlers
  BY TypeParts, BoundsAssumption DEF PassType
<1>1. next \in Nat /\ bad \in 0..MaxBad /\ spec.cluster.subnets \in Nat
  BY DEF TypeOK, Specs
<1>2. CASE getDefaultProject
  <2>1. PICK found \in getDefaultProjectResponse :
          IF found = <<>> THEN Spend /\ Abort
          ELSE /\ ids' = [ids EXCEPT !.project = Head(found)]
               /\ UNCHANGED <<queued, pass, spec, bad>>
    BY <1>2 DEF getDefaultProject
  <2>2. UNCHANGED <<aside, template, life, ready, cloud, next, edits>>
    BY <1>2 DEF getDefaultProject
  <2>3. PassType' /\ (bad' = bad \/ Spend)
    <3>1. CASE found = <<>>
      BY <1>0, <2>1, <3>1, AbortType
    <3>2. CASE found # <<>>
      <4>1. Head(found) = 1
        BY <3>2 DEF getDefaultProjectResponse, Optional, DefaultProject
      <4>2. [ids EXCEPT !.project = 1] \in [Fields -> Nat]
        BY KnownType DEF Fields
      <4> QED
        BY <1>0, <2>1, <3>2, <4>1, <4>2 DEF PassType, pass
    <3> QED
      BY <3>1, <3>2
  <2>4. bad' \in 0..MaxBad
    BY <1>0, <1>1, <2>3, SpendType
  <2>5. StateType'
    BY <1>0, <2>2, <2>4 DEF StateType, aside, given
  <2> QED
    BY <2>3, <2>5, TypeParts
<1>3. CASE createNetwork
  <2> DEFINE n == spec.cluster.subnets
             r == [New("network") EXCEPT !.subnets = n]
             known(found) == [ids EXCEPT !.network = next,
                                         !.subnet = Head(found)]
  <2>1. Make(r) /\ UNCHANGED <<aside, template, life, ready, edits>>
    BY <1>3 DEF createNetwork
  <2>2. PICK found \in createNetworkResponse(n) :
          Receive(found, Subnets(n), known(found), spec.cluster)
    BY <1>3 DEF createNetwork
  <2>3. New("network") \in Resources /\ New("network").id = next
    BY NewType DEF Kinds
  <2>4. r \in Resources /\ r.id = next
    BY <1>1, <2>3 DEF Resources
  <2>5. found # <<>> => Head(found) = next
    BY <1>1 DEF createNetworkResponse, Subnets
  <2>6. found # <<>> => known(found) \in [Fields -> Nat]
    BY <1>0, <1>1, <2>5 DEF Fields, PassType
  <2>7. [spec EXCEPT ![Worker] = spec.cluster] \in Specs
    BY <1>0, <1>3, DueWhere, WorkerFacts, SameSpec DEF createNetwork, Ask
  <2> HIDE DEF n, r, known
  <2>8. PassType' /\ (bad' = bad \/ Spend)
    BY <1>0, <2>2, <2>6, <2>7, ReceiveType
  <2>9. bad' \in 0..MaxBad
    BY <1>0, <1>1, <2>8, SpendType
  <2>10. StateType'
    BY <1>0, <2>1, <2>4, <2>9, MakeType DEF StateType, aside, given
  <2> QED
    BY <2>8, <2>10, TypeParts
<1>4. ASSUME NEW kind \in Kinds, NEW f \in Fields, Make(New(kind)),
             NEW found \in Optional(next),
             Receive(found, <<next>>, [ids EXCEPT ![f] = Head(found)],
                     spec.cluster),
             calls = ClusterCalls,
             UNCHANGED <<aside, template, life, ready, edits>>
      PROVE  TypeOK'
  <2>1. found # <<>> => Head(found) = next
    BY DEF Optional
  <2>2. found # <<>> => [ids EXCEPT ![f] = Head(found)] \in [Fields -> Nat]
    BY <1>1, <2>1, KnownType
  <2>3. [spec EXCEPT ![Worker] = spec.cluster] \in Specs
    BY <1>4, WorkerFacts, SameSpec
  <2>4. PassType' /\ (bad' = bad \/ Spend)
    BY <1>0, <1>4, <2>2, <2>3, ReceiveType
  <2>5. bad' \in 0..MaxBad
    BY <1>0, <1>1, <2>4, SpendType
  <2>6. /\ cloud' \subseteq Resources /\ next' \in Nat \ {0}
        /\ \A x \in cloud' : x.id \in 1..(next' - 1)
    BY <1>4, NewType, MakeType
  <2>7. StateType'
    BY <1>0, <1>4, <2>5, <2>6 DEF StateType, aside, given
  <2> QED
    BY <2>4, <2>7, TypeParts
<1>5. CASE createFloatingIP
  <2>1. calls = ClusterCalls
    BY <1>0, <1>5, DueWhere DEF createFloatingIP, Ask
  <2> QED
    BY <1>4, <1>5, <2>1
       DEF createFloatingIP, createFloatingIPResponse, Kinds, Fields
<1>6. CASE createKey
  <2>1. calls = ClusterCalls
    BY <1>0, <1>6, DueWhere DEF createKey, Ask
  <2> QED
    BY <1>4, <1>6, <2>1 DEF createKey, createKeyResponse, Kinds, Fields
<1> QED
  BY <1>2, <1>3, <1>5, <1>6

(* A list of images, whole or empty, is indexed by numbers.                 *)
LEMMA CatalogueFacts ==
    ASSUME NEW S, NEW s \in Seq(S)
    PROVE  \A list \in {s, <<>>} : /\ DOMAIN list \subseteq Nat
                                   /\ list = s \/ DOMAIN list = {}
<1>1. DOMAIN s = 1..Len(s) /\ Len(s) \in Nat
  BY LenProperties
<1>2. DOMAIN s \subseteq Nat
  BY <1>1
<1>3. <<>> \in Seq(S) /\ Len(<<>>) = 0
  BY EmptySeq
<1>4. DOMAIN <<>> = {}
  BY <1>3
<1> QED
  BY <1>2, <1>4, Zenon

(* What is recorded of a list of images is one of the name in the spec.    *)
LEMMA ImageFacts ==
    ASSUME catalogue \in Seq(Images \cup {""}), getImageList
    PROVE  \E last \in Nat :
             /\ \/ last = None
                \/ /\ last \in DOMAIN catalogue
                   /\ catalogue[last] = spec.machine.image
             /\ bad' = bad \/ Spend
             /\ \/ Record([ids EXCEPT !.image = last], spec.machine)
                \/ EndWith([ids EXCEPT !.image = last])
<1> DEFINE named(list) == {i \in DOMAIN list : \A j \in 1..i : list[j] # ""}
           matches(list) == {i \in named(list) : list[i] = spec.machine.image}
<1>1. PICK list \in {catalogue, <<>>} :
        /\ IF list = catalogue THEN UNCHANGED bad ELSE Spend
        /\ \E last \in matches(list) \cup {None} :
             /\ \A i \in matches(list) : i <= last
             /\ IF last # None /\ named(list) = DOMAIN list
                  THEN Record([ids EXCEPT !.image = last], spec.machine)
                  ELSE EndWith([ids EXCEPT !.image = last])
  BY Zenon DEF getImageList, getImageListResponse
<1>2. PICK last \in matches(list) \cup {None} :
        \/ Record([ids EXCEPT !.image = last], spec.machine)
        \/ EndWith([ids EXCEPT !.image = last])
  BY <1>1, Zenon
<1>3. /\ DOMAIN list \subseteq Nat
      /\ list = catalogue \/ DOMAIN list = {}
  BY CatalogueFacts
<1>4. last # None => last \in DOMAIN list /\ list[last] = spec.machine.image
  OBVIOUS
<1>5. \/ last = None
      \/ last \in DOMAIN catalogue /\ catalogue[last] = spec.machine.image
  BY <1>3, <1>4
<1>6. last \in Nat
  <2>1. None \in Nat
    BY DEF None
  <2> HIDE DEF named, matches
  <2> QED
    BY <1>3, <1>4, <2>1, Zenon
<1> HIDE DEF named, matches
<1> QED
  BY <1>1, <1>2, <1>5, <1>6

(* The calls of reconcileNormal of a machine keep the types.                *)
LEMMA MachineCallType ==
    ASSUME TypeOK,
           \/ getFlavorByName \/ getImageList \/ createInstance
           \/ createFloatingGroup \/ getInstance
    PROVE  TypeOK'
<1>0. PassType /\ StateType /\ MaxBad \in Nat /\ calls \in Handlers
  BY TypeParts, BoundsAssumption DEF PassType
<1>1. next \in Nat /\ bad \in 0..MaxBad /\ spec.machine.image \in Images
  BY DEF TypeOK, Specs
<1>2. CASE getFlavorByName
  <2>1. PICK found \in Optional(1) :
          Receive(found, <<1>>, [ids EXCEPT !.flavor = Head(found)],
                  spec.machine)
    BY <1>2 DEF getFlavorByName, getFlavorByNameResponse
  <2>2. found # <<>> => Head(found) = 1
    BY DEF Optional
  <2>3. found # <<>> => [ids EXCEPT !.flavor = Head(found)] \in [Fields -> Nat]
    BY <2>2, KnownType DEF Fields
  <2>4. [spec EXCEPT ![Worker] = spec.machine] \in Specs
    BY <1>0, <1>2, DueWhere, WorkerFacts, SameSpec DEF getFlavorByName, Ask
  <2>5. PassType' /\ (bad' = bad \/ Spend)
    BY <1>0, <2>1, <2>3, <2>4, ReceiveType
  <2>6. bad' \in 0..MaxBad
    BY <1>0, <1>1, <2>5, SpendType
  <2>7. StateType'
    BY <1>0, <1>2, <2>6 DEF StateType, aside, given, getFlavorByName
  <2> QED
    BY <2>5, <2>7, TypeParts
<1>3. CASE getImageList
  <2>1. PICK last \in Nat :
          /\ bad' = bad \/ Spend
          /\ \/ Record([ids EXCEPT !.image = last], spec.machine)
             \/ EndWith([ids EXCEPT !.image = last])
    BY <1>0, <1>3, ImageFacts, Zenon DEF StateType
  <2>3. [ids EXCEPT !.image = last] \in [Fields -> Nat]
    BY KnownType DEF Fields
  <2>4. [spec EXCEPT ![Worker] = spec.machine] \in Specs
    BY <1>0, <1>3, DueWhere, WorkerFacts, SameSpec DEF getImageList, Ask
  <2>5. PassType'
    BY <1>0, <2>1, <2>3, <2>4, RecordType, EndType
  <2>6. bad' \in 0..MaxBad
    BY <1>0, <1>1, <2>1, SpendType
  <2>7. StateType'
    BY <1>0, <1>3, <2>6 DEF StateType, aside, given, getImageList
  <2> QED
    BY <2>5, <2>7, TypeParts
<1>4. ASSUME NEW r \in Resources, r.id = next, Make(r),
             NEW f \in Fields, NEW found \in Optional(next), NEW s,
             found # <<>> => [spec EXCEPT ![Worker] = s] \in Specs,
             Receive(found, <<next>>, [ids EXCEPT ![f] = Head(found)], s),
             UNCHANGED <<aside, template, life, ready, edits>>
      PROVE  TypeOK'
  <2>1. found # <<>> => Head(found) = next
    BY DEF Optional
  <2>2. found # <<>> => [ids EXCEPT ![f] = Head(found)] \in [Fields -> Nat]
    BY <1>1, <2>1, KnownType
  <2>3. PassType' /\ (bad' = bad \/ Spend)
    BY <1>0, <1>4, <2>2, ReceiveType
  <2>4. bad' \in 0..MaxBad
    BY <1>0, <1>1, <2>3, SpendType
  <2>5. /\ cloud' \subseteq Resources /\ next' \in Nat \ {0}
        /\ \A x \in cloud' : x.id \in 1..(next' - 1)
    BY <1>4, MakeType
  <2>6. StateType'
    BY <1>0, <1>4, <2>4, <2>5 DEF StateType, aside, given
  <2> QED
    BY <2>3, <2>6, TypeParts
<1>5. CASE createInstance
  <2> DEFINE r == [New("instance") EXCEPT !.image = ids.image,
                                          !.data = Bootstrap.doc]
             s(found) == [spec.machine EXCEPT !.providerID = Head(found)]
  <2>1. PICK found \in Optional(next) :
          Receive(found, <<next>>, [ids EXCEPT !.instance = Head(found)],
                  s(found))
    BY <1>5 DEF createInstance, createInstanceResponse
  <2>2. Make(r) /\ UNCHANGED <<aside, template, life, ready, edits>>
    BY <1>5 DEF createInstance
  <2>3. Bootstrap.doc \in Documents /\ ids.image \in Nat
    <3>1. /\ data \in Documents /\ controlPlane \in BOOLEAN
          /\ copy.floatingIP \in Nat /\ ids.image \in Nat
      BY <1>0 DEF PassType, StateType, Fields, ClusterFields
    <3>2. Bootstrap.ok
      BY <1>5 DEF createInstance, Sendable
    <3> QED
      BY <3>1, <3>2, UserDataType DEF Bootstrap
  <2>4. r \in Resources /\ r.id = next
    <3>1. New("instance") \in Resources /\ New("instance").id = next
      BY NewType DEF Kinds
    <3> QED
      BY <2>3, <3>1 DEF Resources
  <2>5. found # <<>> => [spec EXCEPT ![Worker] = s(found)] \in Specs
    <3>1. found # <<>> => Head(found) = next
      BY DEF Optional
    <3>2. Worker = "machine"
      BY <1>0, <1>5, DueWhere, WorkerFacts DEF createInstance, Ask
    <3> QED
      BY <1>0, <1>1, <3>1, <3>2 DEF PassType, Specs
  <2> HIDE DEF r, s
  <2> QED
    BY <1>4, <2>1, <2>2, <2>4, <2>5 DEF Fields
<1>6. CASE createFloatingGroup
  <2>1. [spec EXCEPT ![Worker] = spec.machine] \in Specs
    BY <1>0, <1>6, DueWhere, WorkerFacts, SameSpec
       DEF createFloatingGroup, Ask
  <2>2. New("route") \in Resources /\ New("route").id = next
    BY NewType DEF Kinds
  <2> QED
    BY <1>4, <1>6, <2>1, <2>2
       DEF createFloatingGroup, createFloatingGroupResponse, Fields
<1>7. CASE getInstance
  <2>1. /\ bad' = bad \/ Spend
        /\ ready' \in {ready, ready \cup {"machine"}}
        /\ queued' \subseteq queued \cup {"machine"}
    BY <1>7 DEF getInstance
  <2>2. bad' \in 0..MaxBad
    BY <1>0, <1>1, <2>1, SpendType
  <2>3. PassType'
    BY <1>0, <1>7, <2>1, NothingType
       DEF PassType, getInstance, EndPass, Handlers, Reconciled
  <2>4. StateType'
    BY <1>0, <1>7, <2>1, <2>2
       DEF StateType, aside, given, getInstance, Reconciled
  <2> QED
    BY <2>3, <2>4, TypeParts
<1> QED
  BY <1>2, <1>3, <1>5, <1>6, <1>7

(* A deletion keeps the types.                                              *)
LEMMA EraseType ==
    ASSUME TypeOK, NEW op, NEW kind, NEW fields, Erase(op, kind, fields)
    PROVE  TypeOK'
<1>0. PassType /\ StateType /\ MaxBad \in Nat
  BY TypeParts, BoundsAssumption
<1> DEFINE known == [f \in Fields |-> IF f \in fields THEN None ELSE ids[f]]
<1>1. PICK found \in deleteResponse :
        /\ IF found = "done" THEN UNCHANGED bad ELSE Spend
        /\ cloud' \subseteq cloud
        /\ Abort \/ EndWith(known) \/ Record(known, spec[Worker])
  BY DEF Erase
<1>2. UNCHANGED <<aside, template, life, ready, next, edits>>
  BY DEF Erase
<1>3. known \in [Fields -> Nat]
  BY <1>0 DEF PassType, None
<1>4. [spec EXCEPT ![Worker] = spec[Worker]] \in Specs
  BY <1>0, WorkerFacts, SameSpec DEF Reconciled
<1> HIDE DEF known
<1>5. PassType'
  BY <1>0, <1>1, <1>3, <1>4, AbortType, EndType, RecordType
<1>6. bad' \in 0..MaxBad
  BY <1>0, <1>1, SpendType DEF StateType
<1>7. StateType'
  BY <1>0, <1>1, <1>2, <1>6 DEF StateType, aside, given
<1> QED
  BY <1>5, <1>7, TypeParts

-----------------------------------------------------------------------------
(* The inductive invariant *)

(* A pass is made for an object that exists, and for as long as the machine *)
(* does, its cluster is not deleted.                                       *)
LifeInv ==
    /\ \A o \in queued : life[o] # "wanted"
    /\ calls = ClusterCalls => life.cluster \in {"present", "deleting"}
    /\ calls = ClusterDeletes => life.cluster = "deleting"
    /\ calls = MachineCalls => life.machine \in {"present", "deleting"}
    /\ calls = MachineDeletes => life.machine = "deleting"
    /\ life.machine \in {"present", "deleting"} => life.cluster = "present"

(* In which order ids become known, and how long they are kept: those of   *)
(* the cluster until it is deleted, whatever becomes of its machine.  The  *)
(* project is recorded with the network or not at all.                     *)
IdsInv ==
    /\ ids.project \in {None, DefaultProject}
    /\ ids.network # None <=> ids.subnet # None
    /\ \A f \in {"network", "floatingIP", "sshKey"} :
         ids[f] # None => ids.project # None
    /\ calls # ClusterCalls /\ life.cluster \in {"wanted", "present"} =>
         (ids.network = None => ids.project = None)
    /\ calls = ClusterCalls \/ life.cluster \in {"wanted", "present"} =>
         /\ ids.floatingIP # None => ids.subnet # None
         /\ ids.sshKey # None => ids.floatingIP # None
    /\ life.cluster \in {"wanted", "present"} /\ "cluster" \in ready =>
         ids.sshKey # None
    /\ ids.instance # None =>
         "cluster" \in ready /\ life.machine \in {"present", "deleting"}
    /\ ids.route # None => controlPlane /\ ids.instance # None

(* A copy of what the WXOneCluster recorded lags behind, but what it has is *)
(* still so, and it has the ids in the order they were recorded.           *)
Behind(c) ==
    /\ \A f \in ClusterFields : c[f] \in {None, ids[f]}
    /\ c.sshKey # None => c.floatingIP # None
    /\ c.floatingIP # None => c.subnet # None
    /\ c.subnet # None <=> c.project # None

(* The informer and the machine's pass have such copies, for as long as     *)
(* there can be a machine.  Whoever has an instance has once read the key   *)
(* of the cluster, and will not read an older copy.                        *)
SeenInv ==
    /\ life.cluster \in {"wanted", "present"} => Behind(seen)
    /\ calls \in {MachineCalls, MachineDeletes} =>
         /\ Behind(copy)
         /\ copy.sshKey # None => seen.sshKey # None
         /\ ids.instance # None => copy.sshKey # None
    /\ ids.instance # None => seen.sshKey # None

(* The first invariant *)
CallsInv == TypeOK /\ LifeInv /\ IdsInv /\ SeenInv

(* A pass that goes on or ends keeps what holds of the two objects, ...    *)
LEMMA LifeKept ==
    ASSUME TypeOK, LifeInv, calls # <<>>, UNCHANGED life,
           calls' \in {calls, <<>>}, queued' \subseteq queued \cup {Worker}
    PROVE  LifeInv'
<1>1. life[Worker] # "wanted"
  BY WorkerFacts DEF TypeOK, LifeInv
<1> QED
  BY <1>1, HandlersDiffer DEF LifeInv

(* ... and so does what it forgets if it ends with an error.               *)
LEMMA AbortKept ==
    ASSUME CallsInv, calls # <<>>, Abort,
           UNCHANGED <<life, ready, controlPlane>>
    PROVE  LifeInv' /\ IdsInv'
<1> USE DEF CallsInv
<1>1. /\ calls' = <<>> /\ ids' = Persistent
      /\ queued' = queued \cup {Worker}
  BY EndFacts DEF Abort
<1>2. LifeInv'
  BY <1>1, LifeKept
<1>3. ids \in [Fields -> Nat]
  BY DEF TypeOK
<1>4. CASE calls = ClusterCalls /\ ids.network = None
  <2>1. ids' = [ids EXCEPT !.project = None]
    BY <1>1, <1>4 DEF Persistent
  <2>2. /\ ids'.project = None
        /\ \A f \in Fields \ {"project"} : ids'[f] = ids[f]
    BY <1>3, <2>1 DEF Fields
  <2>3. ids.floatingIP = None /\ ids.sshKey = None /\ ids.network = None
    BY <1>4 DEF IdsInv
  <2>4. IdsInv'
    BY <1>1, <2>2, <2>3, HandlersDiffer DEF IdsInv, Fields
  <2> QED
    BY <1>2, <2>4
<1>5. CASE ~(calls = ClusterCalls /\ ids.network = None)
  <2>1. ids' = ids
    BY <1>1, <1>5 DEF Persistent
  <2>2. life.cluster \in {"wanted", "present"} =>
          (ids.network = None => ids.project = None)
    BY <1>5 DEF IdsInv
  <2>3. IdsInv'
    BY <1>1, <2>1, <2>2, HandlersDiffer DEF IdsInv
  <2> QED
    BY <1>2, <2>3
<1> QED
  BY <1>4, <1>5

(* An answer of which nothing is recorded keeps the invariant; for one     *)
(* that is, only the ids are left to look at.                              *)
LEMMA ReceiveKept ==
    ASSUME CallsInv, calls # <<>>, NEW found, NEW whole, NEW known, NEW s,
           Receive(found, whole, known, s),
           UNCHANGED <<life, ready, controlPlane>>
    PROVE  /\ LifeInv'
           /\ \/ IdsInv'
              \/ found # <<>> /\ ids' = known /\ calls' \in {calls, <<>>}
<1>1. CASE found = <<>>
  BY <1>1, AbortKept DEF Receive
<1>2. CASE found # <<>>
  <2>1. /\ ids' = known /\ queued' = queued \cup {Worker}
        /\ calls' \in {calls, <<>>}
    BY <1>2, RecordFacts DEF Receive
  <2>2. LifeInv'
    BY <2>1, LifeKept DEF CallsInv
  <2> QED
    BY <1>2, <2>1, <2>2
<1> QED
  BY <1>1, <1>2

(* What Cluster API and the user do *)
LEMMA UserKept ==
    ASSUME CallsInv, NEW o \in Reconciled,
           \/ Create(o) \/ EditTemplate(o) \/ Edit(o) \/ Delete(o)
           \/ CompleteSecret \/ Boot \/ Deliver
    PROVE  LifeInv' /\ IdsInv'
<1> USE DEF CallsInv
<1>0. life \in [Reconciled -> {"wanted", "present", "deleting", "gone"}]
  BY DEF TypeOK
<1>1. CASE Create(o)
  <2>1. /\ life[o] = "wanted" /\ life' = [life EXCEPT ![o] = "present"]
        /\ o = "machine" => life.cluster = "present"
        /\ queued' = queued \cup {o}
        /\ UNCHANGED <<calls, ids, ready, controlPlane>>
    BY <1>1 DEF Create, Reconciled, aside, given, pass
  <2>2. CASE o = "cluster"
    <3>1. /\ life.cluster = "wanted" /\ life'.cluster = "present"
          /\ life'.machine = life.machine
      BY <1>0, <2>1, <2>2 DEF Reconciled
    <3> QED
      BY <2>1, <2>2, <3>1, <1>0 DEF LifeInv, IdsInv, Reconciled, TypeOK
  <2>3. CASE o = "machine"
    <3>1. /\ life.machine = "wanted" /\ life'.machine = "present"
          /\ life'.cluster = life.cluster
      BY <1>0, <2>1, <2>3 DEF Reconciled
    <3> QED
      BY <2>1, <2>3, <3>1, <1>0 DEF LifeInv, IdsInv, Reconciled, TypeOK
  <2> QED
    BY <2>2, <2>3 DEF Reconciled
<1>2. CASE EditTemplate(o)
  BY <1>2 DEF EditTemplate, LifeInv, IdsInv, aside, given, pass
<1>3. CASE Edit(o)
  BY <1>3 DEF Edit, LifeInv, IdsInv, aside, given, pass
<1>4. CASE Delete(o)
  <2>1. /\ life[o] = "present" /\ life' = [life EXCEPT ![o] = "deleting"]
        /\ o = "cluster" => life.machine \in {"wanted", "gone"}
        /\ queued' = queued \cup {o}
        /\ UNCHANGED <<calls, ids, ready, controlPlane>>
    BY <1>4 DEF Delete, Reconciled, aside, given, pass
  <2>2. CASE o = "cluster"
    <3>1. /\ life.cluster = "present" /\ life'.cluster = "deleting"
          /\ life'.machine = life.machine
      BY <1>0, <2>1, <2>2 DEF Reconciled
    <3> QED
      BY <2>1, <2>2, <3>1, <1>0 DEF LifeInv, IdsInv, Reconciled, TypeOK
  <2>3. CASE o = "machine"
    <3>1. /\ life.machine = "present" /\ life'.machine = "deleting"
          /\ life'.cluster = life.cluster
      BY <1>0, <2>1, <2>3 DEF Reconciled
    <3> QED
      BY <2>1, <2>3, <3>1, <1>0 DEF LifeInv, IdsInv, Reconciled, TypeOK
  <2> QED
    BY <2>2, <2>3 DEF Reconciled
<1>5. CASE CompleteSecret
  BY <1>5 DEF CompleteSecret, LifeInv, IdsInv, aside, given, pass, objects
<1>6. CASE Boot
  BY <1>6 DEF Boot, LifeInv, IdsInv, aside, given, pass, objects
<1>7. CASE Deliver
  <2>1. /\ life.machine # "wanted" /\ queued' = queued \cup {"machine"}
        /\ UNCHANGED <<life, ready, ids, calls, controlPlane>>
    BY <1>7 DEF Deliver, given, pass, objects
  <2> QED
    BY <2>1 DEF LifeInv, IdsInv
<1> QED
  BY <1>1, <1>2, <1>3, <1>4, <1>5, <1>6, <1>7

(* A pass begins, waits, ends or fails. *)
LEMMA PassKept ==
    ASSUME CallsInv, NEW o \in Reconciled,
           \/ Start(o) \/ NewWXOneClients \/ LoginFails \/ CallFails
           \/ DataUnusable \/ Wait \/ FinishCluster \/ FinishDelete
           \/ getInstance
    PROVE  LifeInv' /\ IdsInv'
<1> USE DEF CallsInv
<1>0. /\ life \in [Reconciled -> {"wanted", "present", "deleting", "gone"}]
      /\ calls \in Handlers /\ queued \subseteq Reconciled
  BY DEF TypeOK, Handlers
<1>1. CASE Start(o)
  <2>1. /\ calls = <<>> /\ o \in queued /\ queued' = queued \ {o}
        /\ calls' = IF life[o] = "gone" THEN <<>> ELSE CallsOf[o][life[o]]
        /\ UNCHANGED <<life, ready, ids, controlPlane>>
    BY <1>1 DEF Start, aside, given, objects
  <2>2. life[o] \in {"present", "deleting", "gone"}
    BY <1>0, <2>1 DEF LifeInv
  <2>3. \/ calls' = <<>>
        \/ calls' = ClusterCalls /\ life.cluster = "present"
        \/ calls' = ClusterDeletes /\ life.cluster = "deleting"
        \/ calls' = MachineCalls /\ life.machine = "present"
        \/ calls' = MachineDeletes /\ life.machine = "deleting"
    BY <2>1, <2>2 DEF CallsOf, Reconciled
  <2>4. LifeInv'
    BY <2>1, <2>3, HandlersDiffer DEF LifeInv
  <2>5. IdsInv'
    BY <2>1, <2>3, HandlersDiffer DEF IdsInv
  <2> QED
    BY <2>4, <2>5
<1>2. CASE NewWXOneClients
  BY <1>2 DEF NewWXOneClients, LifeInv, IdsInv, aside, given, pass, objects
<1>3. CASE LoginFails
  BY <1>3, AbortKept DEF LoginFails, aside, given
<1>4. CASE CallFails
  <2>1. calls # <<>>
    BY <1>4, DueInNone DEF CallFails
  <2> QED
    BY <1>4, <2>1, AbortKept DEF CallFails, aside, given
<1>5. CASE DataUnusable
  <2>1. calls # <<>>
    BY <1>5, DueInNone DEF DataUnusable
  <2> QED
    BY <1>5, <2>1, AbortKept DEF DataUnusable, aside, given
<1>6. CASE Wait
  <2>1. calls = MachineCalls /\ calls' = <<>>
    BY <1>6 DEF Wait, Gate, EndPass
  <2>2. UNCHANGED <<life, ready, ids, queued, controlPlane>>
    BY <1>6 DEF Wait, aside, given, objects
  <2>3. LifeInv'
    BY <2>1, <2>2, HandlersDiffer DEF LifeInv
  <2> QED
    BY <2>1, <2>2, <2>3, HandlersDiffer DEF IdsInv
<1>7. CASE FinishCluster
  <2>1. /\ calls = ClusterCalls /\ NothingDue /\ calls' = <<>>
        /\ ready' = ready \cup {"cluster"}
        /\ UNCHANGED <<life, ids, controlPlane>>
        /\ \A q \in queued' : \/ q \in queued \/ q = "cluster"
                              \/ life[q] # "wanted"
    BY <1>7 DEF FinishCluster, EndPass, aside, given
  <2>2. ids.sshKey # None
    BY <2>1, NothingToDo
  <2>3. LifeInv'
    BY <2>1, HandlersDiffer DEF LifeInv
  <2> QED
    BY <2>1, <2>2, <2>3, HandlersDiffer DEF IdsInv
<1>8. CASE FinishDelete
  <2>1. /\ calls \in {ClusterDeletes, MachineDeletes} /\ NothingDue
        /\ life' = [life EXCEPT ![Worker] = "gone"] /\ calls' = <<>>
        /\ UNCHANGED <<ready, ids, queued, controlPlane>>
    BY <1>8 DEF FinishDelete, EndPass, aside, given
  <2>2. CASE calls = ClusterDeletes
    <3>1. /\ life.cluster = "deleting" /\ life'.cluster = "gone"
          /\ life'.machine = life.machine
      BY <1>0, <2>1, <2>2, WorkerFacts DEF LifeInv, Reconciled
    <3>2. \A q \in queued : life'[q] # "wanted"
      BY <1>0, <2>1, <3>1 DEF LifeInv, Reconciled
    <3> QED
      BY <2>1, <2>2, <3>1, <3>2, HandlersDiffer DEF LifeInv, IdsInv
  <2>3. CASE calls = MachineDeletes
    <3>1. /\ life.machine = "deleting" /\ life'.machine = "gone"
          /\ life'.cluster = life.cluster
      BY <1>0, <2>1, <2>3, WorkerFacts DEF LifeInv, Reconciled
    <3>2. \A q \in queued : life'[q] # "wanted"
      BY <1>0, <2>1, <3>1 DEF LifeInv, Reconciled
    <3>3. ids.instance = None
      BY <2>1, <2>3, NothingToDo
    <3> QED
      BY <2>1, <2>3, <3>1, <3>2, <3>3, HandlersDiffer DEF LifeInv, IdsInv
  <2> QED
    BY <2>1, <2>2, <2>3
<1>9. CASE getInstance
  <2>1. /\ calls = MachineCalls /\ calls' = <<>>
        /\ ready \subseteq ready' /\ ready' \subseteq ready \cup {"machine"}
        /\ queued' \subseteq queued \cup {"machine"}
        /\ UNCHANGED <<life, ids, controlPlane>>
    BY <1>0, <1>9, DueWhere DEF getInstance, Ask, EndPass, aside, given
  <2>2. LifeInv'
    BY <2>1, HandlersDiffer DEF LifeInv
  <2>3. IdsInv'
    BY <2>1, HandlersDiffer DEF IdsInv
  <2> QED
    BY <2>2, <2>3
<1> QED
  BY <1>1, <1>2, <1>3, <1>4, <1>5, <1>6, <1>7, <1>8, <1>9

(* What a cluster's calls record comes after what it needs. *)
LEMMA ClusterCallKept ==
    ASSUME CallsInv,
           \/ getDefaultProject \/ createNetwork \/ createFloatingIP
           \/ createKey
    PROVE  LifeInv' /\ IdsInv'
<1> USE DEF CallsInv
<1>0. /\ calls \in Handlers /\ ids \in [Fields -> Nat]
      /\ next \in Nat \ {0} /\ spec.cluster.subnets \in Nat
  BY DEF TypeOK, Handlers, Specs
<1>1. CASE getDefaultProject
  <2>1. /\ calls = ClusterCalls /\ ids.project = None
        /\ UNCHANGED <<life, ready, controlPlane>>
    BY <1>0, <1>1, DueWhere DEF getDefaultProject, Ask, aside, given
  <2>2. PICK found \in getDefaultProjectResponse :
          IF found = <<>> THEN Spend /\ Abort
          ELSE /\ ids' = [ids EXCEPT !.project = Head(found)]
               /\ UNCHANGED <<queued, calls>>
    BY <1>1 DEF getDefaultProject, pass
  <2>3. CASE found = <<>>
    BY <2>1, <2>2, <2>3, AbortKept, HandlersDiffer
  <2>4. CASE found # <<>>
    <3>1. Head(found) = DefaultProject
      BY <2>4 DEF getDefaultProjectResponse, Optional
    <3>2. /\ ids'.project = DefaultProject /\ DefaultProject # None
          /\ \A f \in Fields \ {"project"} : ids'[f] = ids[f]
          /\ UNCHANGED <<queued, calls>>
      BY <1>0, <2>2, <2>4, <3>1 DEF Fields, DefaultProject, None
    <3>3. LifeInv'
      BY <2>1, <3>2 DEF LifeInv
    <3> QED
      BY <2>1, <3>2, <3>3 DEF IdsInv, Fields
  <2> QED
    BY <2>3, <2>4
<1>2. CASE createNetwork
  <2> DEFINE n == spec.cluster.subnets
             known(found) == [ids EXCEPT !.network = next,
                                         !.subnet = Head(found)]
  <2>1. /\ calls = ClusterCalls /\ ids.project # None
        /\ UNCHANGED <<life, ready, controlPlane>>
    BY <1>0, <1>2, DueWhere DEF createNetwork, Ask, aside, given
  <2>2. PICK found \in createNetworkResponse(n) :
          Receive(found, Subnets(n), known(found), spec.cluster)
    BY <1>2 DEF createNetwork
  <2>3. found # <<>> => Head(found) = next
    BY <1>0 DEF createNetworkResponse, Subnets
  <2>4. /\ LifeInv'
        /\ \/ IdsInv'
           \/ found # <<>> /\ ids' = known(found) /\ calls' \in {calls, <<>>}
    BY <2>1, <2>2, ReceiveKept, HandlersDiffer
  <2>5. CASE /\ found # <<>> /\ ids' = known(found)
             /\ calls' \in {calls, <<>>}
    <3>1. /\ ids'.network = next /\ ids'.subnet = next /\ next # None
          /\ \A f \in Fields \ {"network", "subnet"} : ids'[f] = ids[f]
      BY <1>0, <2>3, <2>5 DEF Fields, None
    <3> QED
      BY <2>1, <2>4, <2>5, <3>1 DEF IdsInv, Fields
  <2> QED
    BY <2>4, <2>5
<1>3. CASE createFloatingIP
  <2>1. /\ calls = ClusterCalls /\ ids.project # None /\ ids.subnet # None
        /\ UNCHANGED <<life, ready, controlPlane>>
    BY <1>0, <1>3, DueWhere DEF createFloatingIP, Ask, aside, given
  <2>2. PICK found \in Optional(next) :
          Receive(found, <<next>>, [ids EXCEPT !.floatingIP = Head(found)],
                  spec.cluster)
    BY <1>3 DEF createFloatingIP, createFloatingIPResponse
  <2>3. found # <<>> => Head(found) = next
    BY DEF Optional
  <2>4. /\ LifeInv'
        /\ \/ IdsInv'
           \/ /\ found # <<>> /\ calls' \in {calls, <<>>}
              /\ ids' = [ids EXCEPT !.floatingIP = Head(found)]
    BY <2>1, <2>2, ReceiveKept, HandlersDiffer
  <2>5. CASE /\ found # <<>> /\ calls' \in {calls, <<>>}
             /\ ids' = [ids EXCEPT !.floatingIP = Head(found)]
    <3>1. /\ ids'.floatingIP = next /\ next # None
          /\ \A f \in Fields \ {"floatingIP"} : ids'[f] = ids[f]
      BY <1>0, <2>3, <2>5 DEF Fields, None
    <3> QED
      BY <2>1, <2>4, <2>5, <3>1 DEF IdsInv, Fields
  <2> QED
    BY <2>4, <2>5
<1>4. CASE createKey
  <2>1. /\ calls = ClusterCalls /\ ids.project # None
        /\ ids.floatingIP # None
        /\ UNCHANGED <<life, ready, controlPlane>>
    BY <1>0, <1>4, DueWhere DEF createKey, Ask, aside, given
  <2>2. PICK found \in Optional(next) :
          Receive(found, <<next>>, [ids EXCEPT !.sshKey = Head(found)],
                  spec.cluster)
    BY <1>4 DEF createKey, createKeyResponse
  <2>3. found # <<>> => Head(found) = next
    BY DEF Optional
  <2>4. /\ LifeInv'
        /\ \/ IdsInv'
           \/ /\ found # <<>> /\ calls' \in {calls, <<>>}
              /\ ids' = [ids EXCEPT !.sshKey = Head(found)]
    BY <2>1, <2>2, ReceiveKept, HandlersDiffer
  <2>5. CASE /\ found # <<>> /\ calls' \in {calls, <<>>}
             /\ ids' = [ids EXCEPT !.sshKey = Head(found)]
    <3>1. /\ ids'.sshKey = next /\ next # None
          /\ \A f \in Fields \ {"sshKey"} : ids'[f] = ids[f]
      BY <1>0, <2>3, <2>5 DEF Fields, None
    <3> QED
      BY <2>1, <2>4, <2>5, <3>1 DEF IdsInv, Fields
  <2> QED
    BY <2>4, <2>5
<1> QED
  BY <1>1, <1>2, <1>3, <1>4

(* Nor is there a route without an instance, or an instance for a machine  *)
(* that does not exist.                                                    *)
LEMMA MachineCallKept ==
    ASSUME CallsInv,
           \/ getFlavorByName \/ getImageList \/ createInstance
           \/ createFloatingGroup
    PROVE  LifeInv' /\ IdsInv'
<1> USE DEF CallsInv
<1>0. /\ calls \in Handlers /\ ids \in [Fields -> Nat]
      /\ next \in Nat \ {0}
  BY DEF TypeOK, Handlers
<1>1. ASSUME UNCHANGED <<life, ready, controlPlane>>, calls = MachineCalls,
             LifeInv', calls' \in {calls, <<>>},
             \A f \in Fields \ {"flavor", "image"} : ids'[f] = ids[f]
      PROVE  IdsInv'
  BY <1>1, HandlersDiffer DEF IdsInv, Fields
<1>2. CASE getFlavorByName
  <2>1. calls = MachineCalls /\ UNCHANGED <<life, ready, controlPlane>>
    BY <1>0, <1>2, DueWhere DEF getFlavorByName, Ask, aside, given
  <2>2. PICK found \in Optional(1) :
          Receive(found, <<1>>, [ids EXCEPT !.flavor = Head(found)],
                  spec.machine)
    BY <1>2 DEF getFlavorByName, getFlavorByNameResponse
  <2>3. /\ LifeInv'
        /\ \/ IdsInv'
           \/ /\ found # <<>> /\ calls' \in {calls, <<>>}
              /\ ids' = [ids EXCEPT !.flavor = Head(found)]
    BY <2>1, <2>2, ReceiveKept, HandlersDiffer
  <2>4. ids' = [ids EXCEPT !.flavor = Head(found)] =>
          \A f \in Fields \ {"flavor", "image"} : ids'[f] = ids[f]
    BY <1>0
  <2> QED
    BY <1>1, <2>1, <2>3, <2>4
<1>3. CASE getImageList
  <2>1. calls = MachineCalls /\ UNCHANGED <<life, ready, controlPlane>>
    BY <1>0, <1>3, DueWhere DEF getImageList, Ask, aside, given
  <2>2. PICK last \in Nat :
          \/ Record([ids EXCEPT !.image = last], spec.machine)
          \/ EndWith([ids EXCEPT !.image = last])
    BY <1>3, ImageFacts DEF TypeOK
  <2>3. /\ ids' = [ids EXCEPT !.image = last] /\ calls' \in {calls, <<>>}
        /\ queued' = queued \cup {Worker}
    BY <2>2, RecordFacts, EndFacts
  <2>4. LifeInv'
    BY <2>1, <2>3, LifeKept, HandlersDiffer
  <2>5. \A f \in Fields \ {"flavor", "image"} : ids'[f] = ids[f]
    BY <1>0, <2>3
  <2> QED
    BY <1>1, <2>1, <2>3, <2>4, <2>5
<1>4. CASE createInstance
  <2> DEFINE s(found) == [spec.machine EXCEPT !.providerID = Head(found)]
  <2>1. /\ calls = MachineCalls /\ "cluster" \in ready
        /\ UNCHANGED <<life, ready, controlPlane>>
    BY <1>0, <1>4, DueWhere DEF createInstance, Ask, aside, given
  <2>2. PICK found \in Optional(next) :
          Receive(found, <<next>>, [ids EXCEPT !.instance = Head(found)],
                  s(found))
    BY <1>4 DEF createInstance, createInstanceResponse
  <2> HIDE DEF s
  <2>3. /\ LifeInv'
        /\ \/ IdsInv'
           \/ /\ found # <<>> /\ calls' \in {calls, <<>>}
              /\ ids' = [ids EXCEPT !.instance = Head(found)]
    BY <2>1, <2>2, ReceiveKept, HandlersDiffer
  <2>4. found # <<>> => Head(found) = next
    BY DEF Optional
  <2>5. CASE /\ found # <<>> /\ calls' \in {calls, <<>>}
             /\ ids' = [ids EXCEPT !.instance = Head(found)]
    <3>1. /\ ids'.instance = next /\ next # None
          /\ \A f \in Fields \ {"instance"} : ids'[f] = ids[f]
      BY <1>0, <2>4, <2>5 DEF Fields, None
    <3>2. life.machine \in {"present", "deleting"}
      BY <2>1 DEF LifeInv
    <3> QED
      BY <2>1, <2>3, <2>5, <3>1, <3>2, HandlersDiffer DEF IdsInv, Fields
  <2> QED
    BY <2>3, <2>5
<1>5. CASE createFloatingGroup
  <2>1. /\ calls = MachineCalls /\ controlPlane /\ ids.instance # None
        /\ UNCHANGED <<life, ready, controlPlane>>
    BY <1>0, <1>5, DueWhere DEF createFloatingGroup, Ask, aside, given
  <2>2. PICK found \in Optional(next) :
          Receive(found, <<next>>, [ids EXCEPT !.route = Head(found)],
                  spec.machine)
    BY <1>5 DEF createFloatingGroup, createFloatingGroupResponse
  <2>3. /\ LifeInv'
        /\ \/ IdsInv'
           \/ /\ found # <<>> /\ calls' \in {calls, <<>>}
              /\ ids' = [ids EXCEPT !.route = Head(found)]
    BY <2>1, <2>2, ReceiveKept, HandlersDiffer
  <2>4. CASE /\ found # <<>> /\ calls' \in {calls, <<>>}
             /\ ids' = [ids EXCEPT !.route = Head(found)]
    <3>1. \A f \in Fields \ {"route"} : ids'[f] = ids[f]
      BY <1>0, <2>4
    <3> QED
      BY <2>1, <2>3, <2>4, <3>1, HandlersDiffer DEF IdsInv, Fields
  <2> QED
    BY <2>3, <2>4
<1> QED
  BY <1>2, <1>3, <1>4, <1>5

(* What a deletion takes away is not needed any more.                      *)
LEMMA EraseFacts ==
    ASSUME CallsInv, NEW op, NEW kind, NEW fields, Erase(op, kind, fields),
           calls # <<>>
    PROVE  /\ LifeInv' /\ UNCHANGED <<life, ready, controlPlane>>
           /\ \/ IdsInv'
              \/ /\ calls' \in {calls, <<>>}
                 /\ ids' = [f \in Fields |-> IF f \in fields THEN None
                                                             ELSE ids[f]]
<1> USE DEF CallsInv
<1> DEFINE known == [f \in Fields |-> IF f \in fields THEN None ELSE ids[f]]
<1>1. Abort \/ EndWith(known) \/ Record(known, spec[Worker])
  BY DEF Erase
<1>2. UNCHANGED <<life, ready, controlPlane>>
  BY DEF Erase, aside, given
<1> HIDE DEF known
<1>3. CASE Abort
  BY <1>2, <1>3, AbortKept
<1>4. CASE EndWith(known) \/ Record(known, spec[Worker])
  <2>1. /\ ids' = known /\ calls' \in {calls, <<>>}
        /\ queued' = queued \cup {Worker}
    BY <1>4, RecordFacts, EndFacts
  <2> QED
    BY <1>2, <2>1, LifeKept DEF known
<1> QED
  BY <1>1, <1>3, <1>4

(* A deletion erases from the status the id it deleted, so what holds of    *)
(* the ids that are known still holds.                                      *)
LEMMA EraseKept ==
    ASSUME CallsInv,
           \/ deleteNetwork \/ deleteFloatingIP \/ deleteKey
           \/ deleteFloatingGroup \/ deleteInstance
    PROVE  LifeInv' /\ IdsInv'
<1> USE DEF CallsInv
<1>0. calls \in Handlers /\ ids \in [Fields -> Nat]
  BY DEF TypeOK, Handlers
<1>1. ASSUME calls = ClusterDeletes, NEW op, NEW kind,
             NEW fields \in {{"network", "subnet"}, {"floatingIP"},
                             {"sshKey"}},
             Erase(op, kind, fields)
      PROVE  LifeInv' /\ IdsInv'
  <2>1. /\ LifeInv' /\ UNCHANGED <<life, ready, controlPlane>>
        /\ \/ IdsInv'
           \/ /\ calls' \in {calls, <<>>}
              /\ ids' = [f \in Fields |-> IF f \in fields THEN None
                                                          ELSE ids[f]]
    BY <1>1, EraseFacts, HandlersDiffer
  <2>2. CASE /\ calls' \in {calls, <<>>}
             /\ ids' = [f \in Fields |-> IF f \in fields THEN None
                                                         ELSE ids[f]]
    <3>1. life.cluster = "deleting"
      BY <1>1 DEF LifeInv
    <3>2. /\ \A f \in Fields : ids'[f] \in {None, ids[f]}
          /\ \A f \in {"project", "instance", "route"} : ids'[f] = ids[f]
          /\ ids'.network = None <=> ids'.subnet = None
      BY <1>0, <1>1, <2>2 DEF IdsInv, Fields
    <3> QED
      BY <1>1, <2>1, <2>2, <3>1, <3>2, HandlersDiffer DEF IdsInv, Fields
  <2> QED
    BY <2>1, <2>2
<1>2. CASE deleteNetwork
  <2>1. calls = ClusterDeletes
    BY <1>0, <1>2, DueWhere DEF deleteNetwork, Erase, Ask
  <2> QED
    BY <1>1, <1>2, <2>1 DEF deleteNetwork
<1>3. CASE deleteFloatingIP
  <2>1. calls = ClusterDeletes
    BY <1>0, <1>3, DueWhere DEF deleteFloatingIP, Erase, Ask
  <2> QED
    BY <1>1, <1>3, <2>1 DEF deleteFloatingIP
<1>4. CASE deleteKey
  <2>1. calls = ClusterDeletes
    BY <1>0, <1>4, DueWhere DEF deleteKey, Erase, Ask
  <2> QED
    BY <1>1, <1>4, <2>1 DEF deleteKey
<1>5. CASE deleteFloatingGroup
  <2>1. calls = MachineDeletes
    BY <1>0, <1>5, DueWhere DEF deleteFloatingGroup, Erase, Ask
  <2>2. /\ LifeInv' /\ UNCHANGED <<life, ready, controlPlane>>
        /\ \/ IdsInv'
           \/ /\ calls' \in {calls, <<>>}
              /\ ids' = [f \in Fields |-> IF f \in {"route"} THEN None
                                                             ELSE ids[f]]
    BY <1>5, <2>1, EraseFacts, HandlersDiffer DEF deleteFloatingGroup
  <2>3. CASE /\ calls' \in {calls, <<>>}
             /\ ids' = [f \in Fields |-> IF f \in {"route"} THEN None
                                                            ELSE ids[f]]
    <3>1. /\ ids'.route = None
          /\ \A f \in Fields \ {"route"} : ids'[f] = ids[f]
      BY <2>3 DEF Fields
    <3> QED
      BY <2>1, <2>2, <2>3, <3>1, HandlersDiffer DEF IdsInv, Fields
  <2> QED
    BY <2>2, <2>3
<1>6. CASE deleteInstance
  <2>1. calls = MachineDeletes /\ (controlPlane => ids.route = None)
    BY <1>0, <1>6, DueWhere DEF deleteInstance, Erase, Ask
  <2>2. /\ LifeInv' /\ UNCHANGED <<life, ready, controlPlane>>
        /\ \/ IdsInv'
           \/ /\ calls' \in {calls, <<>>}
              /\ ids' = [f \in Fields |-> IF f \in {"instance"} THEN None
                                                                ELSE ids[f]]
    BY <1>6, <2>1, EraseFacts, HandlersDiffer DEF deleteInstance
  <2>3. CASE /\ calls' \in {calls, <<>>}
             /\ ids' = [f \in Fields |-> IF f \in {"instance"} THEN None
                                                               ELSE ids[f]]
    <3>1. /\ ids'.instance = None
          /\ \A f \in Fields \ {"instance"} : ids'[f] = ids[f]
      BY <2>3 DEF Fields
    <3>2. ids.route = None
      BY <2>1 DEF IdsInv
    <3> QED
      BY <2>1, <2>2, <2>3, <3>1, <3>2, HandlersDiffer DEF IdsInv, Fields
  <2> QED
    BY <2>2, <2>3
<1> QED
  BY <1>2, <1>3, <1>4, <1>5, <1>6

(* Nothing exists and nothing is known at first.                            *)
LEMMA InitInv == Init => CallsInv
<1> SUFFICES ASSUME Init PROVE CallsInv
  OBVIOUS
<1>1. LifeInv /\ IdsInv
  BY HandlersDiffer
     DEF Init, LifeInv, IdsInv, Reconciled, Fields, None, DefaultProject
<1>2. SeenInv
  BY HandlersDiffer
     DEF Init, SeenInv, Behind, Nothing, ClusterFields, Fields, None
<1> QED
  BY <1>1, <1>2, InitType DEF CallsInv

-----------------------------------------------------------------------------
(* What is read of the WXOneCluster *)

(* A pass that ends has no copy any more, and one that goes on has the same *)
(* one.                                                                     *)
Holds == calls' = <<>> \/ (calls' = calls /\ copy' = copy)

(* The cluster's ids are only found out, as long as it is not deleted, and   *)
(* the project is forgotten only if nothing else is known.                  *)
FoundOut ==
    \A f \in ClusterFields :
      \/ ids'[f] = ids[f] \/ ids[f] = None
      \/ f = "project" /\ ids.network = None /\ ids'[f] = None

(* What is read stays valid over such a step, also for an instance that is  *)
(* created by one who knows the key.                                        *)
LEMMA SeenKept ==
    ASSUME CallsInv, LifeInv', IdsInv', Holds, seen' = seen,
           life'.cluster \in {"wanted", "present"} =>
             life.cluster \in {"wanted", "present"},
           life.cluster \in {"wanted", "present"} => FoundOut,
           \/ ids'.instance \in {None, ids.instance}
           \/ /\ calls \in {MachineCalls, MachineDeletes}
              /\ copy.sshKey # None
    PROVE  SeenInv'
<1>0. /\ ids.project \in {None, DefaultProject}
      /\ ids.network # None <=> ids.subnet # None
      /\ "project" \in ClusterFields /\ "subnet" \in ClusterFields
  BY DEF CallsInv, IdsInv, ClusterFields
<1>1. ASSUME NEW c, Behind(c), FoundOut
      PROVE  /\ \A f \in ClusterFields : c[f] \in {None, ids'[f]}
             /\ c.sshKey # None => c.floatingIP # None
             /\ c.floatingIP # None => c.subnet # None
             /\ c.subnet # None <=> c.project # None
  <2>1. ASSUME NEW f \in ClusterFields PROVE c[f] \in {None, ids'[f]}
    <3>1. CASE ids'[f] = ids[f] \/ ids[f] = None
      BY <1>1, <3>1 DEF Behind
    <3>2. CASE f = "project" /\ ids.network = None
      BY <1>0, <1>1, <3>2 DEF Behind
    <3> QED
      BY <1>1, <3>1, <3>2 DEF FoundOut
  <2> QED
    BY <1>1, <2>1 DEF Behind
<1>2. life'.cluster \in {"wanted", "present"} => Behind(seen)'
  BY <1>1 DEF CallsInv, SeenInv, Behind
<1>3. ids'.instance # None => seen'.sshKey # None
  BY DEF CallsInv, SeenInv
<1>4. ASSUME calls' \in {MachineCalls, MachineDeletes}
      PROVE  /\ Behind(copy)' /\ (copy'.sshKey # None => seen'.sshKey # None)
             /\ ids'.instance # None => copy'.sshKey # None
  <2>1. calls' = calls /\ copy' = copy
    BY <1>4, HandlersDiffer DEF Holds
  <2>2. life.cluster \in {"wanted", "present"}
    BY <1>4, <2>1 DEF CallsInv, LifeInv
  <2>3. Behind(copy)'
    BY <1>1, <1>4, <2>1, <2>2 DEF CallsInv, SeenInv, Behind
  <2> QED
    BY <1>4, <2>1, <2>3 DEF CallsInv, SeenInv
<1> QED
  BY <1>2, <1>3, <1>4 DEF SeenInv

(* A pass that fails finds out nothing, and one for a cluster may forget    *)
(* its project.                                                             *)
LEMMA AbortHolds ==
    ASSUME CallsInv, Abort
    PROVE  Holds /\ FoundOut /\ ids'.instance = ids.instance
<1>1. calls' = <<>> /\ ids' = Persistent
  BY EndFacts DEF Abort
<1>2. ids \in [Fields -> Nat] /\ ClusterFields \subseteq Fields
  BY NothingType DEF CallsInv, TypeOK
<1>3. CASE ids' = ids
  BY <1>1, <1>3 DEF Holds, FoundOut
<1>4. CASE ids.network = None /\ ids' = [ids EXCEPT !.project = None]
  <2>1. /\ ids'.project = None
        /\ \A f \in Fields \ {"project"} : ids'[f] = ids[f]
    BY <1>2, <1>4 DEF Fields
  <2> QED
    BY <1>1, <1>2, <1>4, <2>1 DEF Holds, FoundOut, Fields
<1> QED
  BY <1>1, <1>3, <1>4 DEF Persistent

(* A pass that finds out what it did not know                               *)
LEMMA ReceiveHolds ==
    ASSUME CallsInv, NEW found, NEW whole, NEW known, NEW s,
           Receive(found, whole, known, s)
    PROVE  /\ Holds
           /\ \/ ids' = known
              \/ FoundOut /\ ids'.instance = ids.instance
  BY AbortHolds, RecordFacts DEF Receive, Holds

(* Delivering, what the informer gets is what is recorded.                  *)
LEMMA SeenDeliver ==
    ASSUME CallsInv, Deliver
    PROVE  SeenInv'
<1>1. /\ life.machine \in {"present", "deleting"}
      /\ seen' = [f \in ClusterFields |-> Persistent[f]]
      /\ UNCHANGED <<life, ready, ids, calls, copy>>
  BY DEF Deliver, pass, objects
<1>2. life.cluster = "present"
  BY <1>1 DEF CallsInv, LifeInv
<1>3. \A f \in ClusterFields : seen'[f] = Persistent[f]
  BY <1>1
<1>4. /\ ids \in [Fields -> Nat]
      /\ {"project", "subnet", "floatingIP", "sshKey"} = ClusterFields
      /\ ClusterFields \subseteq Fields
  BY NothingType DEF CallsInv, TypeOK, ClusterFields
<1>5. /\ seen'.project \in {None, ids.project}
      /\ ids.network = None => seen'.project = None
      /\ ids.network # None => seen'.project = ids.project
      /\ \A f \in ClusterFields \ {"project"} : seen'[f] = ids[f]
  <2>1. CASE calls = ClusterCalls /\ ids.network = None
    <3>1. Persistent = [ids EXCEPT !.project = None]
      BY <2>1 DEF Persistent
    <3>2. /\ Persistent.project = None
          /\ \A f \in ClusterFields \ {"project"} : Persistent[f] = ids[f]
      BY <1>4, <3>1 DEF Fields
    <3> QED
      BY <1>3, <1>4, <2>1, <3>2
  <2>2. CASE ~(calls = ClusterCalls /\ ids.network = None)
    <3>1. Persistent = ids
      BY <2>2 DEF Persistent
    <3>2. ids.network = None => ids.project = None
      BY <1>2, <2>2 DEF CallsInv, IdsInv
    <3> QED
      BY <1>3, <1>4, <3>1, <3>2
  <2> QED
    BY <2>1, <2>2
<1>6. /\ seen'.subnet = ids.subnet /\ seen'.floatingIP = ids.floatingIP
      /\ seen'.sshKey = ids.sshKey
  BY <1>4, <1>5
<1>7. /\ ids.sshKey # None => ids.floatingIP # None
      /\ ids.floatingIP # None => ids.subnet # None
      /\ ids.network # None <=> ids.subnet # None
      /\ ids.network # None => ids.project # None
      /\ ids.instance # None => ids.sshKey # None
  BY <1>2 DEF CallsInv, IdsInv
<1>8. Behind(seen)'
  <2>1. \A f \in ClusterFields : seen'[f] \in {None, ids'[f]}
    BY <1>1, <1>4, <1>5
  <2> QED
    BY <1>5, <1>6, <1>7, <2>1 DEF Behind
<1>9. calls \in {MachineCalls, MachineDeletes} =>
        copy.sshKey \in {None, ids.sshKey}
  BY <1>4 DEF CallsInv, SeenInv, Behind
<1> QED
  BY <1>1, <1>6, <1>7, <1>8, <1>9 DEF CallsInv, SeenInv, Behind

(* A machine's pass starts from what the informer has.                      *)
LEMMA SeenStart ==
    ASSUME CallsInv, NEW o \in Reconciled, Start(o)
    PROVE  SeenInv'
<1>1. /\ calls = <<>> /\ o \in queued
      /\ calls' = IF life[o] = "gone" THEN <<>> ELSE CallsOf[o][life[o]]
      /\ copy' = IF o = "machine" /\ life[o] # "gone" THEN seen ELSE Nothing
      /\ UNCHANGED <<life, ready, ids, seen>>
  BY DEF Start, aside, objects
<1>2. life[o] \in {"present", "deleting", "gone"}
  BY <1>1 DEF CallsInv, LifeInv, TypeOK
<1>3. ASSUME calls' \in {MachineCalls, MachineDeletes}
      PROVE  /\ Behind(copy)' /\ (copy'.sshKey # None => seen'.sshKey # None)
             /\ ids'.instance # None => copy'.sshKey # None
  <2>1. o = "machine" /\ life[o] \in {"present", "deleting"}
    BY <1>1, <1>2, <1>3, HandlersDiffer DEF CallsOf, Reconciled
  <2>2. life.cluster = "present"
    BY <2>1 DEF CallsInv, LifeInv
  <2>3. copy' = seen /\ seen' = seen
    BY <1>1, <2>1
  <2> QED
    BY <1>1, <2>2, <2>3 DEF CallsInv, SeenInv, Behind
<1> QED
  BY <1>1, <1>3 DEF CallsInv, SeenInv, Behind

(* What Cluster API and the user do changes nothing that is recorded or     *)
(* read.                                                                    *)
LEMMA SeenUser ==
    ASSUME CallsInv, LifeInv', IdsInv', NEW o \in Reconciled,
           \/ Create(o) \/ EditTemplate(o) \/ Edit(o) \/ Delete(o)
           \/ CompleteSecret \/ Boot
    PROVE  SeenInv'
<1>1. UNCHANGED <<seen, calls, copy, ids>>
  BY DEF Create, EditTemplate, Edit, Delete, CompleteSecret, Boot, aside, pass
<1>2. life'.cluster \in {"wanted", "present"} =>
        life.cluster \in {"wanted", "present"}
  <2>1. life \in [Reconciled -> {"wanted", "present", "deleting", "gone"}]
    BY DEF CallsInv, TypeOK
  <2>2. \/ life' = life \/ life' = [life EXCEPT ![o] = "deleting"]
        \/ life[o] = "wanted" /\ life' = [life EXCEPT ![o] = "present"]
    BY DEF Create, EditTemplate, Edit, Delete, CompleteSecret, Boot, objects
  <2> QED
    BY <2>1, <2>2 DEF Reconciled
<1> QED
  BY <1>1, <1>2, SeenKept DEF Holds, FoundOut

(* Between the calls a pass finds out nothing.                              *)
LEMMA SeenPass ==
    ASSUME CallsInv, LifeInv', IdsInv',
           \/ NewWXOneClients \/ LoginFails \/ CallFails \/ DataUnusable
           \/ Wait \/ FinishCluster \/ FinishDelete \/ getInstance
    PROVE  SeenInv'
<1>1. seen' = seen
  BY DEF NewWXOneClients, LoginFails, CallFails, DataUnusable, Wait,
         FinishCluster, FinishDelete, getInstance, aside
<1>2. CASE LoginFails \/ CallFails \/ DataUnusable
  <2>1. Abort /\ life' = life
    BY <1>2 DEF LoginFails, CallFails, DataUnusable
  <2> QED
    BY <1>1, <2>1, AbortHolds, SeenKept
<1>3. CASE NewWXOneClients \/ Wait \/ FinishCluster \/ getInstance
  <2>1. UNCHANGED <<life, ids>> /\ Holds
    BY <1>3 DEF NewWXOneClients, Wait, FinishCluster, getInstance, EndPass,
                Holds, objects
  <2> QED
    BY <1>1, <2>1, SeenKept DEF FoundOut
<1>4. CASE FinishDelete
  <2>1. ids' = ids /\ Holds /\ life' = [life EXCEPT ![Worker] = "gone"]
    BY <1>4 DEF FinishDelete, EndPass, Holds
  <2>2. life'.cluster \in {"gone", life.cluster}
    <3>1. life \in [Reconciled -> {"wanted", "present", "deleting", "gone"}]
      BY DEF CallsInv, TypeOK
    <3> QED
      BY <2>1, <3>1 DEF Reconciled
  <2> QED
    BY <1>1, <2>1, <2>2, SeenKept DEF FoundOut
<1> QED
  BY <1>2, <1>3, <1>4

(* A pass for a cluster finds out one id after the other.                   *)
LEMMA SeenCluster ==
    ASSUME CallsInv, LifeInv', IdsInv',
           \/ getDefaultProject \/ createNetwork \/ createFloatingIP
           \/ createKey
    PROVE  SeenInv'
<1>0. /\ calls \in Handlers /\ ids \in [Fields -> Nat]
      /\ ClusterFields \subseteq Fields
  BY NothingType DEF CallsInv, TypeOK, Handlers
<1>1. UNCHANGED <<seen, life>>
  BY DEF getDefaultProject, createNetwork, createFloatingIP, createKey, aside
<1>2. ASSUME Holds, FoundOut /\ ids'.instance = ids.instance PROVE SeenInv'
  BY <1>1, <1>2, SeenKept
<1>3. ASSUME NEW f \in ClusterFields, NEW n, ids[f] = None,
             ids' = [ids EXCEPT ![f] = n]
      PROVE  FoundOut /\ ids'.instance = ids.instance
  <2>1. \A g \in Fields \ {f} : ids'[g] = ids[g]
    BY <1>0, <1>3
  <2> QED
    BY <1>0, <1>3, <2>1 DEF FoundOut, ClusterFields, Fields
<1>4. CASE getDefaultProject
  <2>1. ids.project = None
    BY <1>0, <1>4, DueWhere DEF getDefaultProject, Ask
  <2>2. PICK found :
          \/ Abort
          \/ ids' = [ids EXCEPT !.project = Head(found)] /\ UNCHANGED pass
    BY <1>4 DEF getDefaultProject
  <2>3. CASE Abort
    BY <1>2, <2>3, AbortHolds
  <2>4. CASE ids' = [ids EXCEPT !.project = Head(found)] /\ UNCHANGED pass
    <3>1. Holds
      BY <2>4 DEF Holds, pass
    <3>2. "project" \in ClusterFields
      BY DEF ClusterFields
    <3> QED
      BY <1>2, <1>3, <2>1, <2>4, <3>1, <3>2
  <2> QED
    BY <2>2, <2>3, <2>4
<1>5. CASE createNetwork
  <2>1. ids.subnet = None
    BY <1>0, <1>5, DueWhere DEF createNetwork, Ask
  <2> DEFINE known(found) == [ids EXCEPT !.network = next,
                                         !.subnet = Head(found)]
  <2>2. PICK found \in createNetworkResponse(spec.cluster.subnets) :
          Receive(found, Subnets(spec.cluster.subnets), known(found),
                  spec.cluster)
    BY <1>5 DEF createNetwork
  <2>3. ids' = known(found) =>
          \A f \in Fields \ {"network", "subnet"} : ids'[f] = ids[f]
    BY <1>0
  <2> HIDE DEF known
  <2>4. /\ Holds
        /\ \/ ids' = known(found)
           \/ FoundOut /\ ids'.instance = ids.instance
    BY <2>2, ReceiveHolds
  <2>5. ids' = known(found) => FoundOut /\ ids'.instance = ids.instance
    BY <2>1, <2>3 DEF FoundOut, ClusterFields, Fields
  <2> QED
    BY <1>2, <2>4, <2>5
<1>6. CASE createFloatingIP
  <2>1. ids.floatingIP = None /\ "floatingIP" \in ClusterFields
    BY <1>0, <1>6, DueWhere DEF createFloatingIP, Ask, ClusterFields
  <2>2. PICK found \in Optional(next) :
          Receive(found, <<next>>, [ids EXCEPT !.floatingIP = Head(found)],
                  spec.cluster)
    BY <1>6 DEF createFloatingIP, createFloatingIPResponse
  <2> QED
    BY <1>2, <1>3, <2>1, <2>2, ReceiveHolds
<1>7. CASE createKey
  <2>1. ids.sshKey = None /\ "sshKey" \in ClusterFields
    BY <1>0, <1>7, DueWhere DEF createKey, Ask, ClusterFields
  <2>2. PICK found \in Optional(next) :
          Receive(found, <<next>>, [ids EXCEPT !.sshKey = Head(found)],
                  spec.cluster)
    BY <1>7 DEF createKey, createKeyResponse
  <2> QED
    BY <1>2, <1>3, <2>1, <2>2, ReceiveHolds
<1> QED
  BY <1>4, <1>5, <1>6, <1>7

(* Who creates an instance has read the key of the cluster.                 *)
LEMMA KeyIsRead ==
    ASSUME CallsInv, DueNext("createInstance"), Complete("createInstance")
    PROVE  /\ calls = MachineCalls /\ copy.sshKey # None
           /\ copy.floatingIP # None /\ copy.floatingIP = ids.floatingIP
<1>1. calls = MachineCalls
  BY DueWhere DEF CallsInv, TypeOK, Handlers
<1>2. Sent("sshKey") # None
  <2>1. /\ "createInstance" \in DOMAIN CreateInputs
        /\ "sshKey" \in CreateInputs["createInstance"]
    BY DEF CreateInputs
  <2> QED
    BY <2>1 DEF Complete, Inputs
<1>3. copy.sshKey # None
  BY <1>1, <1>2, WorkerFacts DEF Sent, ClusterFields
<1>4. Behind(copy) /\ "floatingIP" \in ClusterFields
  BY <1>1 DEF CallsInv, SeenInv, ClusterFields
<1> QED
  BY <1>1, <1>3, <1>4 DEF Behind

(* A pass for a machine finds out nothing about the cluster.                *)
LEMMA SeenMachine ==
    ASSUME CallsInv, LifeInv', IdsInv',
           \/ getFlavorByName \/ getImageList \/ createInstance
           \/ createFloatingGroup
    PROVE  SeenInv'
<1>0. /\ ids \in [Fields -> Nat]
      /\ {"flavor", "image", "instance", "route"} \subseteq Fields
      /\ ClusterFields \subseteq
           Fields \ {"flavor", "image", "instance", "route"}
  BY DEF CallsInv, TypeOK, ClusterFields, Fields
<1>1. UNCHANGED <<seen, life>>
  BY DEF getFlavorByName, getImageList, createInstance, createFloatingGroup,
         aside
<1>2. ASSUME NEW f \in {"flavor", "image", "instance", "route"}, NEW n,
             ids' = [ids EXCEPT ![f] = n]
      PROVE  FoundOut /\ (f # "instance" => ids'.instance = ids.instance)
  <2>1. \A g \in Fields \ {f} : ids'[g] = ids[g]
    BY <1>0, <1>2
  <2> QED
    BY <1>0, <1>2, <2>1 DEF FoundOut
<1>3. CASE getFlavorByName
  <2>1. PICK found \in Optional(1) :
          Receive(found, <<1>>, [ids EXCEPT !.flavor = Head(found)],
                  spec.machine)
    BY <1>3 DEF getFlavorByName, getFlavorByNameResponse
  <2>2. Holds /\ FoundOut /\ ids'.instance = ids.instance
    BY <1>2, <2>1, ReceiveHolds
  <2> QED
    BY <1>1, <2>2, SeenKept
<1>4. CASE getImageList
  <2>1. PICK last \in Nat :
          \/ Record([ids EXCEPT !.image = last], spec.machine)
          \/ EndWith([ids EXCEPT !.image = last])
    BY <1>4, ImageFacts DEF CallsInv, TypeOK
  <2>2. Holds /\ ids' = [ids EXCEPT !.image = last]
    BY <2>1, RecordFacts, EndFacts DEF Holds
  <2> QED
    BY <1>1, <1>2, <2>2, SeenKept
<1>5. CASE createInstance
  <2> DEFINE s(found) == [spec.machine EXCEPT !.providerID = Head(found)]
  <2>1. PICK found \in Optional(next) :
          Receive(found, <<next>>, [ids EXCEPT !.instance = Head(found)],
                  s(found))
    BY <1>5 DEF createInstance, createInstanceResponse
  <2> HIDE DEF s
  <2>2. Holds /\ FoundOut
    BY <1>2, <2>1, ReceiveHolds
  <2>3. calls = MachineCalls /\ copy.sshKey # None
    BY <1>5, KeyIsRead DEF createInstance, Ask
  <2> QED
    BY <1>1, <2>2, <2>3, SeenKept
<1>6. CASE createFloatingGroup
  <2>1. PICK found \in Optional(next) :
          Receive(found, <<next>>, [ids EXCEPT !.route = Head(found)],
                  spec.machine)
    BY <1>6 DEF createFloatingGroup, createFloatingGroupResponse
  <2>2. Holds /\ FoundOut /\ ids'.instance = ids.instance
    BY <1>2, <2>1, ReceiveHolds
  <2> QED
    BY <1>1, <2>2, SeenKept
<1> QED
  BY <1>3, <1>4, <1>5, <1>6

(* The deletions of a cluster leave nobody behind who reads it, and those   *)
(* of a machine leave what is recorded of its cluster.                      *)
LEMMA SeenErase ==
    ASSUME CallsInv, LifeInv', IdsInv',
           \/ deleteNetwork \/ deleteFloatingIP \/ deleteKey
           \/ deleteFloatingGroup \/ deleteInstance
    PROVE  SeenInv'
<1>0. calls \in Handlers /\ ClusterFields \subseteq Fields
  BY NothingType DEF CallsInv, TypeOK, Handlers
<1>1. ASSUME NEW op, NEW kind, NEW fields, Erase(op, kind, fields),
             \/ life.cluster \notin {"wanted", "present"}
             \/ \A f \in ClusterFields : f \notin fields
      PROVE  SeenInv'
  <2> DEFINE known == [f \in Fields |-> IF f \in fields THEN None ELSE ids[f]]
  <2>1. /\ UNCHANGED <<seen, life>>
        /\ Abort \/ EndWith(known) \/ Record(known, spec[Worker])
    BY <1>1 DEF Erase, aside
  <2>2. /\ \A f \in ClusterFields : f \notin fields => known[f] = ids[f]
        /\ known.instance \in {None, ids.instance}
    BY <1>0 DEF Fields
  <2> HIDE DEF known
  <2>3. CASE Abort
    BY <2>1, <2>3, AbortHolds, SeenKept
  <2>4. CASE EndWith(known) \/ Record(known, spec[Worker])
    <3>1. Holds /\ ids' = known
      BY <2>4, RecordFacts, EndFacts DEF Holds
    <3>2. life.cluster \in {"wanted", "present"} => FoundOut
      BY <1>1, <2>2, <3>1 DEF FoundOut
    <3> QED
      BY <2>1, <2>2, <3>1, <3>2, SeenKept
  <2> QED
    BY <2>1, <2>3, <2>4
<1>2. CASE deleteNetwork \/ deleteFloatingIP \/ deleteKey
  <2>1. calls = ClusterDeletes
    BY <1>0, <1>2, DueWhere
       DEF deleteNetwork, deleteFloatingIP, deleteKey, Erase, Ask
  <2>2. life.cluster = "deleting"
    BY <2>1 DEF CallsInv, LifeInv
  <2> QED
    BY <1>1, <1>2, <2>2 DEF deleteNetwork, deleteFloatingIP, deleteKey
<1>3. CASE deleteFloatingGroup \/ deleteInstance
  <2>1. "route" \notin ClusterFields /\ "instance" \notin ClusterFields
    BY DEF ClusterFields
  <2> QED
    BY <1>1, <1>3, <2>1 DEF deleteFloatingGroup, deleteInstance
<1> QED
  BY <1>2, <1>3

-----------------------------------------------------------------------------
(* Every step of the specification keeps the invariant.                    *)
LEMMA InvKept ==
    CallsInv /\ [Next]_vars => CallsInv'
<1> SUFFICES ASSUME CallsInv, [Next]_vars PROVE CallsInv'
  OBVIOUS
<1>0. /\ \A p \in queued : life[p] # "wanted"
      /\ "machine" \in Reconciled /\ TypeOK
  BY DEF CallsInv, LifeInv, Reconciled
<1>1. ASSUME NEW o \in Reconciled,
             \/ Create(o) \/ EditTemplate(o) \/ Edit(o) \/ Delete(o)
             \/ CompleteSecret \/ Boot
      PROVE  CallsInv'
  BY <1>0, <1>1, UserType, UserKept, SeenUser DEF CallsInv
<1>2. CASE Deliver
  BY <1>0, <1>2, UserType, UserKept, SeenDeliver DEF CallsInv
<1>3. ASSUME NEW o \in Reconciled, Start(o) PROVE CallsInv'
  BY <1>0, <1>3, PassStepType, PassKept, SeenStart DEF CallsInv
<1>4. CASE \/ NewWXOneClients \/ LoginFails \/ CallFails \/ DataUnusable
           \/ Wait \/ FinishCluster \/ FinishDelete
  BY <1>0, <1>4, PassStepType, PassKept, SeenPass DEF CallsInv
<1>5. CASE \/ getDefaultProject \/ createNetwork \/ createFloatingIP
           \/ createKey
  BY <1>0, <1>5, ClusterCallType, ClusterCallKept, SeenCluster DEF CallsInv
<1>6. CASE \/ getFlavorByName \/ getImageList \/ createInstance
           \/ createFloatingGroup
  BY <1>0, <1>6, MachineCallType, MachineCallKept, SeenMachine DEF CallsInv
<1>7. CASE getInstance
  BY <1>0, <1>7, MachineCallType, PassKept, SeenPass DEF CallsInv
<1>8. CASE \/ deleteNetwork \/ deleteFloatingIP \/ deleteKey
           \/ deleteFloatingGroup \/ deleteInstance
  <2>1. TypeOK'
    BY <1>0, <1>8, EraseType
       DEF deleteNetwork, deleteFloatingIP, deleteKey, deleteFloatingGroup,
           deleteInstance
  <2> QED
    BY <1>8, <2>1, EraseKept, SeenErase DEF CallsInv
<1>9. CASE UNCHANGED vars
  <2>1. TypeOK'
    BY <1>0, <1>9 DEF vars, aside, given, pass, objects, TypeOK
  <2>2. LifeInv'
    BY <1>9 DEF vars, pass, objects, CallsInv, LifeInv
  <2>3. IdsInv'
    BY <1>9 DEF vars, aside, given, pass, objects, CallsInv, IdsInv
  <2>4. SeenInv'
    BY <1>9 DEF vars, aside, pass, objects, CallsInv, SeenInv, Behind
  <2> QED
    BY <2>1, <2>2, <2>3, <2>4 DEF CallsInv
<1> QED
  BY <1>0, <1>1, <1>2, <1>3, <1>4, <1>5, <1>6, <1>7, <1>8, <1>9
     DEF Next, Pass

(* The invariant that the theorems below rest on: types, the life of the    *)
(* two objects with what their passes work on, and the order in which ids   *)
(* become known.                                                            *)
THEOREM CallsInvariant == Spec => []CallsInv
<1> QED
  BY InitInv, InvKept, PTL DEF Spec

(* Every variable keeps its shape: what the calls record in the status are *)
(* ids, and the specs stay specs whatever is written through the webhooks. *)
THEOREM TypeCorrect == Spec => []TypeOK
<1>1. CallsInv => TypeOK
  BY DEF CallsInv
<1> QED
  BY <1>1, CallsInvariant, PTL

(* An id that a call sends is recorded; one of the cluster a machine may     *)
(* not have read yet, unless it has an instance.                            *)
LEMMA MissingIds == CallsInv => MissingIdsOnlyBehind
<1> SUFFICES ASSUME CallsInv, NEW inputs \in Inputs, NEW op \in DOMAIN inputs,
                    DueNext(op), ~Complete(op)
             PROVE  /\ op \in {"getImageList", "createInstance"}
                    /\ \E f \in ClusterFields :
                         copy[f] = None /\ ids[f] # None
  BY DEF MissingIdsOnlyBehind
<1>0. calls \in Handlers /\ LifeInv /\ IdsInv /\ SeenInv
  BY DEF CallsInv, TypeOK, Handlers
<1>1. PICK sends \in Inputs : /\ op \in DOMAIN sends
                              /\ \E f \in sends[op] : Sent(f) = None
  BY DEF Complete
<1>2. PICK f \in sends[op] : Sent(f) = None
  BY <1>1
<1>3. calls \notin {ClusterCalls, ClusterDeletes}
  <2>1. ASSUME calls \in {ClusterCalls, ClusterDeletes}
        PROVE  /\ op \in {"getDefaultProject", "createNetwork",
                          "createFloatingIP", "createKey", "deleteNetwork",
                          "deleteFloatingIP", "deleteKey"}
               /\ op \in {"createNetwork", "createFloatingIP", "createKey"}
                    => ids.project # None
               /\ op = "deleteNetwork" => ids.subnet # None
               /\ op = "deleteFloatingIP" => ids.floatingIP # None
               /\ op = "deleteKey" => ids.sshKey # None
    BY <2>1, DueInCluster, DueInClusterDeletes
  <2>2. /\ ids.subnet # None => ids.network # None
        /\ \A g \in {"network", "floatingIP", "sshKey"} :
             ids[g] # None => ids.project # None
    BY <1>0 DEF IdsInv
  <2>3. ASSUME calls \in {ClusterCalls, ClusterDeletes} PROVE ids[f] # None
    <3>1. CASE sends = CreateInputs
      BY <1>1, <1>2, <2>1, <2>3, <3>1 DEF CreateInputs
    <3>2. CASE sends = DeleteInputs
      BY <1>1, <1>2, <2>1, <2>2, <2>3, <3>2 DEF DeleteInputs
    <3>3. CASE sends = LookupInputs
      BY <1>1, <1>2, <2>1, <2>3, <3>3 DEF LookupInputs
    <3> QED
      BY <3>1, <3>2, <3>3 DEF Inputs
  <2> QED
    BY <1>2, <2>3, WorkerFacts DEF Sent
<1>4. calls \in {MachineCalls, MachineDeletes}
  BY <1>0, <1>3, DueInNone DEF Handlers
<1>5. Behind(copy) /\ (ids.instance # None => copy.sshKey # None)
  BY <1>0, <1>4 DEF SeenInv
<1>6. ids.instance # None => \A g \in ClusterFields : copy[g] # None
  BY <1>5 DEF Behind, ClusterFields
<1>7. /\ f \in ClusterFields => copy[f] = None
      /\ f \notin ClusterFields => ids[f] = None
  BY <1>2, <1>4, WorkerFacts DEF Sent
<1>8. /\ op \in {"getFlavorByName", "getImageList", "createInstance",
                "createFloatingGroup", "getInstance", "deleteFloatingGroup",
                "deleteInstance"}
      /\ op \in {"createFloatingGroup", "getInstance", "deleteInstance"}
           => ids.instance # None
      /\ op = "deleteFloatingGroup" => ids.route # None
      /\ op = "createInstance" => ids.image # None /\ ids.flavor # None
      /\ op \in {"getImageList", "createInstance"} =>
           calls = MachineCalls /\ "cluster" \in ready
  BY <1>4, DueInMachine, DueInMachineDeletes
<1>9. ids.route # None => ids.instance # None
  BY <1>0 DEF IdsInv
<1>10. ASSUME op \in {"createFloatingGroup", "getInstance", "deleteInstance",
                     "deleteFloatingGroup"}
       PROVE  FALSE
  <2>1. ids.instance # None
    BY <1>8, <1>9, <1>10
  <2>2. sends[op] \subseteq ClusterFields \cup {"instance"}
    BY <1>1, <1>10
       DEF Inputs, CreateInputs, DeleteInputs, LookupInputs, ClusterFields
  <2> QED
    BY <1>2, <1>6, <1>7, <2>1, <2>2
<1>11. ASSUME op \in {"getImageList", "createInstance"}
       PROVE  f \in ClusterFields /\ ids[f] # None
  <2>1. sends[op] \subseteq {"project", "subnet", "sshKey", "flavor", "image"}
    BY <1>1, <1>11 DEF Inputs, CreateInputs, DeleteInputs, LookupInputs
  <2>2. op = "getImageList" => sends[op] = {"project"}
    BY <1>1 DEF Inputs, CreateInputs, DeleteInputs, LookupInputs
  <2>3. life.cluster = "present" /\ "cluster" \in ready
    BY <1>0, <1>8, <1>11 DEF LifeInv
  <2>4. ids.project # None /\ ids.subnet # None /\ ids.sshKey # None
    BY <1>0, <2>3 DEF IdsInv
  <2> QED
    BY <1>2, <1>7, <1>8, <1>11, <2>1, <2>2, <2>4 DEF ClusterFields
<1>12. op # "getFlavorByName"
  BY <1>1 DEF Inputs, CreateInputs, DeleteInputs, LookupInputs
<1> QED
  BY <1>7, <1>8, <1>10, <1>11, <1>12

(* An empty id is only sent by a machine's pass that has read its cluster   *)
(* before the id was recorded, and only for the images or for an instance: *)
(* whoever has an instance misses nothing, whatever happened to the passes  *)
(* before and to the other object.                                          *)
THEOREM EmptyIdsOnlyBehind == Spec => []MissingIdsOnlyBehind
<1> QED
  BY MissingIds, CallsInvariant, PTL

-----------------------------------------------------------------------------
(* What the webhooks keep *)

(* The specs stay what the templates are, and what is created is what they *)
(* say; an image is looked up by the name that still is in the spec.       *)
WebInv ==
    /\ spec.cluster.project = template.cluster.project
    /\ spec.cluster.subnets = template.cluster.subnets
    /\ spec.machine.image = template.machine.image
    /\ life.cluster # "wanted" => template.cluster.project = "default"
    /\ cloud # {} => life.cluster # "wanted"
    /\ ids.image # None => catalogue[ids.image] = template.machine.image
    /\ \A r \in cloud :
         /\ r.project = DefaultProject
         /\ r.kind = "network" => r.subnets = template.cluster.subnets
         /\ r.kind = "instance" => catalogue[r.image] = template.machine.image

(* What the webhooks let nobody change. *)
Frozen == <<spec.cluster.project, spec.cluster.subnets, spec.machine.image>>

(* With the webhooks, no update of an object or of a template changes the   *)
(* project, the number of subnets or the image.                             *)
LEMMA UpdatesAreFrozen ==
    ASSUME Webhooks
    PROVE  /\ \A old, new \in [project : Projects, subnets : Nat,
                               endpoint : Nat] :
                /\ ValidateUpdateCluster(old, new)
                     \/ ValidateUpdateClusterTemplate(old, new)
                => new.project = old.project /\ new.subnets = old.subnets
           /\ \A old, new \in [image : Images, providerID : Nat] :
                /\ ValidateUpdateMachine(old, new)
                     \/ ValidateUpdateMachineTemplate(old, new)
                => new.image = old.image
  BY DEF ValidateUpdateCluster, ValidateUpdateClusterTemplate,
         ValidateUpdateMachine, ValidateUpdateMachineTemplate

(* With the webhooks, what is written to a spec, by whomever, leaves the    *)
(* three fields as they were.                                               *)
LEMMA SpecFrozen ==
    ASSUME Webhooks, spec \in Specs, spec' \in Specs,
           NEW o \in Reconciled, NEW s, Admits(o, spec[o], s),
           spec' = [spec EXCEPT ![o] = s]
    PROVE  UNCHANGED Frozen
<1>1. CASE o = "cluster"
  <2>1. spec'.cluster = s /\ spec'.machine = spec.machine
    BY <1>1 DEF Specs
  <2>2. ValidateUpdateCluster(spec.cluster, spec'.cluster)
    BY <1>1, <2>1 DEF Admits
  <2>3. /\ spec.cluster \in [project : Projects, subnets : Nat,
                             endpoint : Nat]
        /\ spec'.cluster \in [project : Projects, subnets : Nat,
                              endpoint : Nat]
    BY DEF Specs
  <2>4. /\ spec'.cluster.project = spec.cluster.project
        /\ spec'.cluster.subnets = spec.cluster.subnets
    BY <2>2, <2>3, UpdatesAreFrozen
  <2> QED
    BY <2>1, <2>4 DEF Frozen
<1>2. CASE o = "machine"
  <2>1. spec'.machine = s /\ spec'.cluster = spec.cluster
    BY <1>2 DEF Specs
  <2>2. ValidateUpdateMachine(spec.machine, spec'.machine)
    BY <1>2, <2>1 DEF Admits
  <2>3. /\ spec.machine \in [image : Images, providerID : Nat]
        /\ spec'.machine \in [image : Images, providerID : Nat]
    BY DEF Specs
  <2>4. spec'.machine.image = spec.machine.image
    BY <2>2, <2>3, UpdatesAreFrozen
  <2> QED
    BY <2>1, <2>4 DEF Frozen
<1> QED
  BY <1>1, <1>2 DEF Reconciled

(* What a pass records leaves them as they were, ...                        *)
LEMMA RecordFrozen ==
    ASSUME Webhooks, TypeOK, TypeOK', NEW known, NEW s, Record(known, s)
    PROVE  UNCHANGED Frozen
<1>1. CASE spec' = spec
  BY <1>1 DEF Frozen
<1>2. CASE /\ Admits(Worker, spec[Worker], s)
           /\ spec' = [spec EXCEPT ![Worker] = s]
  BY <1>2, SpecFrozen, WorkerFacts DEF TypeOK
<1> QED
  BY <1>1, <1>2, RecordFacts

(* ... and so does what it finds in an answer, with the image.              *)
LEMMA ReceiveFrozen ==
    ASSUME Webhooks, TypeOK, TypeOK', NEW found, NEW whole, NEW known, NEW s,
           known.image = ids.image, Receive(found, whole, known, s)
    PROVE  UNCHANGED Frozen /\ ids'.image = ids.image
<1>1. CASE Abort
  <2>1. spec' = spec /\ ids' = Persistent
    BY <1>1, EndFacts DEF Abort
  <2>2. ids'.image = ids.image
    BY <2>1 DEF Persistent, TypeOK, Fields
  <2> QED
    BY <2>1, <2>2 DEF Frozen
<1>2. CASE Record(known, s)
  BY <1>2, RecordFrozen, RecordFacts
<1> QED
  BY <1>1, <1>2 DEF Receive

(* A step that changes nothing of this, and creates nothing                *)
LEMMA WebKept ==
    ASSUME WebInv, UNCHANGED <<Frozen, template, catalogue>>,
           ids'.image = ids.image, cloud' \subseteq cloud,
           life'.cluster = "wanted" <=> life.cluster = "wanted"
    PROVE  WebInv'
<1>1. /\ spec'.cluster.project = spec.cluster.project
      /\ spec'.cluster.subnets = spec.cluster.subnets
      /\ spec'.machine.image = spec.machine.image
  BY DEF Frozen
<1> QED
  BY <1>1 DEF WebInv

(* What Cluster API and the user do keeps WebInv.                           *)
LEMMA WebUser ==
    ASSUME Webhooks, CallsInv, CallsInv', WebInv, NEW o \in Reconciled,
           \/ Create(o) \/ EditTemplate(o) \/ Edit(o) \/ Delete(o)
           \/ CompleteSecret \/ Boot \/ Deliver
    PROVE  WebInv'
<1>0. /\ spec \in Specs /\ spec' \in Specs /\ template \in Specs
      /\ template' \in Specs
      /\ life \in [Reconciled -> {"wanted", "present", "deleting", "gone"}]
  BY DEF CallsInv, TypeOK
<1>1. CASE Create(o)
  <2>1. /\ spec' = [spec EXCEPT ![o] = template[o]]
        /\ life' = [life EXCEPT ![o] = "present"]
        /\ o = "cluster" => template.cluster.project = "default"
        /\ UNCHANGED <<template, catalogue, ids, cloud>>
    BY <1>1 DEF Create, Reconciled, ValidateCreateCluster, aside, given, pass
  <2>2. CASE o = "cluster"
    <3>1. spec'.cluster = template.cluster /\ spec'.machine = spec.machine
      BY <1>0, <2>1, <2>2 DEF Specs
    <3> QED
      BY <2>1, <2>2, <3>1 DEF WebInv
  <2>3. CASE o = "machine"
    <3>1. /\ spec'.machine = template.machine
          /\ spec'.cluster = spec.cluster /\ life'.cluster = life.cluster
      BY <1>0, <2>1, <2>3 DEF Specs, Reconciled
    <3> QED
      BY <2>1, <3>1 DEF WebInv
  <2> QED
    BY <2>2, <2>3 DEF Reconciled
<1>2. CASE EditTemplate(o)
  <2>1. PICK new :
          /\ AdmitsTemplate(o, template[o], new)
          /\ template' = [template EXCEPT ![o] = new]
    BY <1>2 DEF EditTemplate
  <2>2. UNCHANGED <<spec, life, catalogue, ids, cloud>>
    BY <1>2 DEF EditTemplate, aside, given, pass
  <2>3. /\ template'.cluster.project = template.cluster.project
        /\ template'.cluster.subnets = template.cluster.subnets
        /\ template'.machine.image = template.machine.image
    <3>1. CASE o = "cluster"
      <4>1. template'.cluster = new /\ template'.machine = template.machine
        BY <1>0, <2>1, <3>1 DEF Specs
      <4>2. ValidateUpdateClusterTemplate(template.cluster, new)
        BY <2>1, <3>1 DEF AdmitsTemplate
      <4>3. {template.cluster, new} \subseteq
              [project : Projects, subnets : Nat, endpoint : Nat]
        BY <1>0, <4>1 DEF Specs
      <4> QED
        BY <4>1, <4>2, <4>3, UpdatesAreFrozen
    <3>2. CASE o = "machine"
      <4>1. template'.machine = new /\ template'.cluster = template.cluster
        BY <1>0, <2>1, <3>2 DEF Specs
      <4>2. ValidateUpdateMachineTemplate(template.machine, new)
        BY <2>1, <3>2 DEF AdmitsTemplate
      <4>3. {template.machine, new} \subseteq
              [image : Images, providerID : Nat]
        BY <1>0, <4>1 DEF Specs
      <4> QED
        BY <4>1, <4>2, <4>3, UpdatesAreFrozen
    <3> QED
      BY <3>1, <3>2 DEF Reconciled
  <2> QED
    BY <2>2, <2>3 DEF WebInv
<1>3. CASE Edit(o)
  <2>1. PICK new : /\ Admits(o, spec[o], new)
                   /\ spec' = [spec EXCEPT ![o] = new]
    BY <1>3 DEF Edit
  <2>2. UNCHANGED Frozen
    BY <1>0, <2>1, SpecFrozen
  <2> QED
    BY <1>3, <2>2, WebKept DEF Edit, aside, given, pass
<1>4. CASE Delete(o)
  <2>1. /\ life[o] = "present" /\ life' = [life EXCEPT ![o] = "deleting"]
        /\ UNCHANGED <<template, spec, catalogue, ids, cloud>>
    BY <1>4 DEF Delete, aside, given, pass
  <2>2. life'.cluster = "wanted" <=> life.cluster = "wanted"
    BY <1>0, <2>1 DEF Reconciled
  <2>3. UNCHANGED <<Frozen, template, catalogue>> /\ cloud' \subseteq cloud
    BY <2>1 DEF Frozen
  <2> QED
    BY <2>1, <2>2, <2>3, WebKept
<1>5. CASE CompleteSecret
  BY <1>5, WebKept DEF CompleteSecret, aside, given, pass, objects, Frozen
<1>6. CASE Boot
  <2>1. PICK v \in cloud :
          cloud' = (cloud \ {v}) \cup {[v EXCEPT !.running = TRUE]}
    BY <1>6 DEF Boot
  <2>2. v \in Resources
    BY DEF CallsInv, TypeOK
  <2>3. LET w == [v EXCEPT !.running = TRUE]
        IN  /\ w.kind = v.kind /\ w.project = v.project
            /\ w.subnets = v.subnets /\ w.image = v.image
    BY <2>2 DEF Resources
  <2>4. UNCHANGED <<template, spec, life, catalogue, ids>>
    BY <1>6 DEF Boot, aside, given, pass, objects
  <2>5. \A x \in cloud' : \E y \in cloud :
          /\ x.kind = y.kind /\ x.project = y.project
          /\ x.subnets = y.subnets /\ x.image = y.image
    <3> DEFINE w == [v EXCEPT !.running = TRUE]
    <3> HIDE DEF w
    <3>1. /\ w.kind = v.kind /\ w.project = v.project
          /\ w.subnets = v.subnets /\ w.image = v.image
      BY <2>3 DEF w
    <3>2. cloud' = (cloud \ {v}) \cup {w}
      BY <2>1 DEF w
    <3> QED
      BY <3>1, <3>2
  <2>6. cloud # {}
    OBVIOUS
  <2> QED
    BY <2>4, <2>5, <2>6 DEF WebInv
<1>7. CASE Deliver
  BY <1>7, WebKept DEF Deliver, given, objects, Frozen
<1> QED
  BY <1>1, <1>2, <1>3, <1>4, <1>5, <1>6, <1>7

(* What a call that is recorded needs is known, and the cluster is there.  *)
LEMMA CreatesKnow ==
    ASSUME CallsInv, NEW op \in DOMAIN CreateInputs, DueNext(op),
           Complete(op)
    PROVE  Sent("project") = DefaultProject /\ life.cluster # "wanted"
<1>1. Sent("project") # None
  <2>1. "project" \in CreateInputs[op]
    BY DEF CreateInputs
  <2> QED
    BY <2>1 DEF Complete, Inputs
<1>2. calls \in {ClusterCalls, MachineCalls}
  <2>1. calls \in Handlers
    BY DEF CallsInv, TypeOK, Handlers
  <2> QED
    BY <2>1, DueWhere DEF CreateInputs
<1>3. Sent("project") \in {None, ids.project}
  <2>1. CASE calls = ClusterCalls
    BY <2>1, WorkerFacts DEF Sent
  <2>2. CASE calls = MachineCalls
    <3>1. Behind(copy) /\ "project" \in ClusterFields
      BY <2>2 DEF CallsInv, SeenInv, ClusterFields
    <3> QED
      BY <3>1 DEF Sent, Behind
  <2> QED
    BY <1>2, <2>1, <2>2
<1> QED
  BY <1>1, <1>2, <1>3 DEF CallsInv, LifeInv, IdsInv

(* A new resource is one of the default project and one the spec asks for. *)
LEMMA WebMade ==
    ASSUME CallsInv, WebInv, UNCHANGED <<Frozen, template, life, catalogue>>,
           ids'.image = ids.image,
           NEW op \in DOMAIN CreateInputs, DueNext(op), Complete(op),
           NEW r, Make(r), r.project = Sent("project"),
           r.kind = "network" => r.subnets = spec.cluster.subnets,
           r.kind = "instance" => r.image = ids.image /\ ids.image # None
    PROVE  WebInv'
<1>1. cloud' = cloud \cup {r}
  BY DEF Make
<1>2. Sent("project") = DefaultProject /\ life.cluster # "wanted"
  BY CreatesKnow
<1>3. /\ spec'.cluster.project = spec.cluster.project
      /\ spec'.cluster.subnets = spec.cluster.subnets
      /\ spec'.machine.image = spec.machine.image
  BY DEF Frozen
<1>4. \A x \in cloud' :
        /\ x.project = DefaultProject
        /\ x.kind = "network" => x.subnets = template.cluster.subnets
        /\ x.kind = "instance" =>
             catalogue[x.image] = template.machine.image
  BY <1>1, <1>2 DEF WebInv
<1> QED
  BY <1>2, <1>3, <1>4 DEF WebInv

(* What begins, ends or interrupts a pass keeps WebInv.                     *)
LEMMA WebPass ==
    ASSUME Webhooks, CallsInv, CallsInv', WebInv, NEW o \in Reconciled,
           \/ Start(o) \/ NewWXOneClients \/ LoginFails \/ CallFails
           \/ DataUnusable \/ Wait \/ FinishCluster \/ FinishDelete
           \/ getInstance
    PROVE  WebInv'
<1>0. /\ spec \in Specs /\ spec' \in Specs /\ ids \in [Fields -> Nat]
      /\ life \in [Reconciled -> {"wanted", "present", "deleting", "gone"}]
  BY DEF CallsInv, TypeOK
<1>1. ASSUME UNCHANGED <<spec, template, life, catalogue, cloud>>,
             ids' = ids \/ ids' = Persistent
      PROVE  WebInv'
  <2>1. ids'.image = ids.image
    BY <1>0, <1>1 DEF Persistent, Fields
  <2> QED
    BY <1>1, <2>1, WebKept DEF Frozen
<1>2. ASSUME Abort PROVE spec' = spec /\ ids' = Persistent
  BY <1>2, EndFacts DEF Abort
<1>3. CASE Start(o) \/ NewWXOneClients \/ Wait
  BY <1>1, <1>3 DEF Start, NewWXOneClients, Wait, aside, given, pass, objects
<1>4. CASE LoginFails
  BY <1>1, <1>2, <1>4 DEF LoginFails, aside, given
<1>5. CASE CallFails
  BY <1>1, <1>2, <1>5 DEF CallFails, aside, given
<1>6. CASE DataUnusable
  BY <1>1, <1>2, <1>6 DEF DataUnusable, aside, given
<1>7. CASE FinishCluster
  <2> DEFINE new == [spec.cluster EXCEPT !.endpoint = ids.floatingIP]
  <2>1. \/ spec' = spec
        \/ spec' = [spec EXCEPT !.cluster = new]
    BY <1>7 DEF FinishCluster
  <2>2. new.project = spec.cluster.project /\ new.subnets = spec.cluster.subnets
    BY <1>0 DEF Specs
  <2>3. spec' = [spec EXCEPT !.cluster = new] =>
          spec'.cluster = new /\ spec'.machine = spec.machine
    BY <1>0 DEF Specs
  <2> HIDE DEF new
  <2>4. UNCHANGED Frozen
    BY <2>1, <2>2, <2>3 DEF Frozen
  <2> QED
    BY <1>7, <2>4, WebKept DEF FinishCluster, aside, given
<1>8. CASE FinishDelete
  <2>1. /\ life' = [life EXCEPT ![Worker] = "gone"]
        /\ UNCHANGED <<spec, template, catalogue, ids, cloud>>
        /\ calls \in {ClusterDeletes, MachineDeletes}
    BY <1>8 DEF FinishDelete, aside, given
  <2>2. life.cluster # "wanted"
    BY <2>1 DEF CallsInv, LifeInv
  <2>3. life'.cluster # "wanted"
    BY <1>0, <2>1, <2>2 DEF Reconciled
  <2>4. UNCHANGED <<Frozen, template, catalogue>> /\ cloud' \subseteq cloud
    BY <2>1 DEF Frozen
  <2> QED
    BY <2>1, <2>2, <2>3, <2>4, WebKept
<1>9. CASE getInstance
  <2>1. UNCHANGED <<spec, template, life, catalogue, cloud, ids>>
    BY <1>9 DEF getInstance, aside, given
  <2> QED
    BY <1>1, <2>1
<1> QED
  BY <1>3, <1>4, <1>5, <1>6, <1>7, <1>8, <1>9

(* The calls that look up or create keep WebInv: what they create is in the *)
(* project and as the spec asks.                                            *)
LEMMA WebCalls ==
    ASSUME Webhooks, CallsInv, CallsInv', WebInv,
           \/ getDefaultProject \/ createNetwork \/ createFloatingIP
           \/ createKey \/ getFlavorByName \/ createInstance
           \/ createFloatingGroup
    PROVE  WebInv'
<1>0. /\ TypeOK /\ TypeOK' /\ ids \in [Fields -> Nat] /\ calls \in Handlers
      /\ spec.cluster.subnets \in Nat
  BY DEF CallsInv, TypeOK, Handlers, Specs
<1>1. CASE getDefaultProject
  <2>1. /\ UNCHANGED <<template, life, catalogue, cloud>>
        /\ \/ Abort
           \/ /\ ids' = [ids EXCEPT !.project = DefaultProject]
              /\ UNCHANGED spec
    BY <1>1
       DEF getDefaultProject, getDefaultProjectResponse, Optional, aside, given
  <2>2. spec' = spec /\ ids'.image = ids.image
    BY <1>0, <2>1, EndFacts DEF Abort, Persistent, Fields
  <2> QED
    BY <2>1, <2>2, WebKept DEF Frozen
<1>2. CASE createNetwork
  <2> DEFINE n == spec.cluster.subnets
             known(found) == [ids EXCEPT !.network = next,
                                         !.subnet = Head(found)]
             r == [New("network") EXCEPT !.subnets = n]
  <2>1. /\ DueNext("createNetwork") /\ Complete("createNetwork")
        /\ Make(r)
        /\ UNCHANGED <<template, life, catalogue>>
    BY <1>2 DEF createNetwork, Ask, aside, given
  <2>2. PICK found \in createNetworkResponse(n) :
          Receive(found, Subnets(n), known(found), spec.cluster)
    BY <1>2 DEF createNetwork
  <2>3. known(found).image = ids.image
    BY <1>0 DEF Fields
  <2>4. /\ r.kind = "network" /\ r.project = Sent("project") /\ r.subnets = n
    BY DEF New
  <2>5. "createNetwork" \in DOMAIN CreateInputs
    BY DEF CreateInputs
  <2> HIDE DEF known, r
  <2>6. UNCHANGED Frozen /\ ids'.image = ids.image
    BY <1>0, <2>2, <2>3, ReceiveFrozen
  <2> QED
    BY <2>1, <2>4, <2>5, <2>6, WebMade
<1>3. ASSUME NEW f \in Fields \ {"image"}, NEW n, NEW s, NEW found, NEW whole,
             Receive(found, whole, [ids EXCEPT ![f] = n], s)
      PROVE  UNCHANGED Frozen /\ ids'.image = ids.image
  <2>1. [ids EXCEPT ![f] = n].image = ids.image
    BY <1>0, <1>3 DEF Fields
  <2> QED
    BY <1>0, <1>3, <2>1, ReceiveFrozen
<1>4. CASE createFloatingIP
  <2>1. /\ DueNext("createFloatingIP") /\ Complete("createFloatingIP")
        /\ Make(New("floatingIP"))
        /\ UNCHANGED <<template, life, catalogue>>
    BY <1>4 DEF createFloatingIP, Ask, aside, given
  <2>2. UNCHANGED Frozen /\ ids'.image = ids.image
    BY <1>3, <1>4 DEF createFloatingIP, Fields
  <2>3. /\ New("floatingIP").kind = "floatingIP"
        /\ New("floatingIP").project = Sent("project")
        /\ "createFloatingIP" \in DOMAIN CreateInputs
    BY DEF New, CreateInputs
  <2> QED
    BY <2>1, <2>2, <2>3, WebMade
<1>5. CASE createKey
  <2>1. /\ DueNext("createKey") /\ Complete("createKey")
        /\ Make(New("sshKey"))
        /\ UNCHANGED <<template, life, catalogue>>
    BY <1>5 DEF createKey, Ask, aside, given
  <2>2. UNCHANGED Frozen /\ ids'.image = ids.image
    BY <1>3, <1>5 DEF createKey, Fields
  <2>3. /\ New("sshKey").kind = "sshKey"
        /\ New("sshKey").project = Sent("project")
        /\ "createKey" \in DOMAIN CreateInputs
    BY DEF New, CreateInputs
  <2> QED
    BY <2>1, <2>2, <2>3, WebMade
<1>6. CASE createFloatingGroup
  <2>1. /\ DueNext("createFloatingGroup") /\ Complete("createFloatingGroup")
        /\ Make(New("route"))
        /\ UNCHANGED <<template, life, catalogue>>
    BY <1>6 DEF createFloatingGroup, Ask, aside, given
  <2>2. UNCHANGED Frozen /\ ids'.image = ids.image
    BY <1>3, <1>6 DEF createFloatingGroup, Fields
  <2>3. /\ New("route").kind = "route"
        /\ New("route").project = Sent("project")
        /\ "createFloatingGroup" \in DOMAIN CreateInputs
    BY DEF New, CreateInputs
  <2> QED
    BY <2>1, <2>2, <2>3, WebMade
<1>7. CASE getFlavorByName
  <2>1. UNCHANGED <<template, life, catalogue, cloud>>
    BY <1>7 DEF getFlavorByName, aside, given
  <2>2. UNCHANGED Frozen /\ ids'.image = ids.image
    BY <1>3, <1>7 DEF getFlavorByName, Fields
  <2> QED
    BY <2>1, <2>2, WebKept
<1>8. CASE createInstance
  <2> DEFINE r == [New("instance") EXCEPT !.image = ids.image,
                                          !.data = Bootstrap.doc]
             s(found) == [spec.machine EXCEPT !.providerID = Head(found)]
  <2>1. /\ DueNext("createInstance") /\ Complete("createInstance")
        /\ Make(r)
        /\ UNCHANGED <<template, life, catalogue>>
    BY <1>8 DEF createInstance, Ask, aside, given
  <2>2. PICK found \in createInstanceResponse :
          Receive(found, <<next>>, [ids EXCEPT !.instance = Head(found)],
                  s(found))
    BY <1>8 DEF createInstance
  <2>3. /\ r.kind = "instance" /\ r.project = Sent("project")
        /\ r.image = ids.image
    BY DEF New
  <2>4. "createInstance" \in DOMAIN CreateInputs
    BY DEF CreateInputs
  <2>5. ids.image # None
    BY <1>0, <2>1, DueWhere
  <2> HIDE DEF r, s
  <2>6. UNCHANGED Frozen /\ ids'.image = ids.image
    BY <1>3, <2>2 DEF Fields
  <2> QED
    BY <2>1, <2>3, <2>4, <2>5, <2>6, WebMade
<1> QED
  BY <1>1, <1>2, <1>4, <1>5, <1>6, <1>7, <1>8

(* The image that is looked up has the name in the spec, now and later.     *)
LEMMA WebImages ==
    ASSUME Webhooks, CallsInv, CallsInv', WebInv, getImageList
    PROVE  WebInv'
<1>1. PICK last \in Nat :
        /\ \/ last = None
           \/ /\ last \in DOMAIN catalogue
              /\ catalogue[last] = spec.machine.image
        /\ \/ Record([ids EXCEPT !.image = last], spec.machine)
           \/ EndWith([ids EXCEPT !.image = last])
  BY ImageFacts DEF CallsInv, TypeOK
<1>2. /\ UNCHANGED <<template, life, catalogue, cloud>>
  BY DEF getImageList, aside, given
<1>3. ids' = [ids EXCEPT !.image = last] /\ UNCHANGED Frozen
  <2>1. CASE Record([ids EXCEPT !.image = last], spec.machine)
    BY <2>1, RecordFacts, RecordFrozen DEF CallsInv
  <2>2. CASE EndWith([ids EXCEPT !.image = last])
    BY <2>2, EndFacts DEF Frozen
  <2> QED
    BY <1>1, <2>1, <2>2
<1>4. ids'.image = last
  BY <1>3 DEF CallsInv, TypeOK, Fields
<1>5. /\ spec'.cluster.project = spec.cluster.project
      /\ spec'.cluster.subnets = spec.cluster.subnets
      /\ spec'.machine.image = spec.machine.image
  BY <1>3 DEF Frozen
<1> QED
  BY <1>1, <1>2, <1>4, <1>5 DEF WebInv

(* Deletions keep WebInv.                                                   *)
LEMMA WebErase ==
    ASSUME Webhooks, CallsInv, CallsInv', WebInv,
           \/ deleteNetwork \/ deleteFloatingIP \/ deleteKey
           \/ deleteFloatingGroup \/ deleteInstance
    PROVE  WebInv'
<1>1. PICK op \in DOMAIN DeleteInputs, kind \in Kinds,
           fields \in SUBSET (Fields \ {"image"}) : Erase(op, kind, fields)
  BY DEF deleteNetwork, deleteFloatingIP, deleteKey, deleteFloatingGroup,
         deleteInstance, DeleteInputs, Kinds, Fields
<1> DEFINE known == [f \in Fields |-> IF f \in fields THEN None ELSE ids[f]]
<1>2. /\ UNCHANGED <<template, life, catalogue>> /\ cloud' \subseteq cloud
      /\ Abort \/ EndWith(known) \/ Record(known, spec[Worker])
  BY <1>1 DEF Erase, aside, given
<1>3. known.image = ids.image
  BY DEF Fields
<1>4. ids \in [Fields -> Nat] /\ TypeOK /\ TypeOK'
  BY DEF CallsInv, TypeOK
<1> HIDE DEF known
<1>5. UNCHANGED Frozen /\ ids'.image = ids.image
  <2>1. CASE Abort
    BY <1>4, <2>1, EndFacts DEF Abort, Persistent, Fields, Frozen
  <2>2. CASE EndWith(known)
    BY <1>3, <2>2, EndFacts DEF Frozen
  <2>3. CASE Record(known, spec[Worker])
    BY <1>3, <1>4, <2>3, RecordFacts, RecordFrozen
  <2> QED
    BY <1>2, <2>1, <2>2, <2>3
<1> QED
  BY <1>2, <1>5, WebKept

(* Every step of the specification keeps WebInv, given the first invariant. *)
LEMMA WebStep ==
    ASSUME Webhooks
    PROVE  CallsInv /\ CallsInv' /\ WebInv /\ [Next]_vars => WebInv'
<1> SUFFICES ASSUME CallsInv, CallsInv', WebInv, [Next]_vars PROVE WebInv'
  OBVIOUS
<1>1. CASE UNCHANGED vars
  BY <1>1 DEF vars, aside, given, pass, objects, WebInv
<1>2. CASE Next
  <2>1. "machine" \in Reconciled
    BY DEF Reconciled
  <2>2. ASSUME NEW o \in Reconciled,
               Create(o) \/ EditTemplate(o) \/ Edit(o) \/ Delete(o)
                 \/ CompleteSecret \/ Boot \/ Deliver
        PROVE  WebInv'
    BY <2>2, WebUser
  <2>3. ASSUME NEW o \in Reconciled, Start(o) PROVE WebInv'
    BY <2>3, WebPass
  <2> QED
    BY <1>2, <2>1, <2>2, <2>3, WebPass, WebCalls, WebImages, WebErase
       DEF Next, Pass
<1> QED
  BY <1>1, <1>2

(* With the webhooks, what is known is what the specs ask for, and the      *)
(* specs ask for what they did at first: WebInv always holds.               *)
THEOREM WebInvariant ==
    ASSUME Webhooks
    PROVE  Spec => []WebInv
<1>1. Init => WebInv
  BY DEF Init, WebInv, Reconciled, Fields, None
<1> QED
  BY <1>1, WebStep, CallsInvariant, PTL DEF Spec

(* With the webhooks everything is created in the project that the spec    *)
(* names, although no reconciler looks at the name.                        *)
THEOREM CreatedInProject ==
    ASSUME Webhooks
    PROVE  Spec => []InNamedProject
<1>1. CallsInv /\ WebInv => InNamedProject
  <2> SUFFICES ASSUME CallsInv, WebInv, cloud # {} PROVE InNamedProject
    BY DEF InNamedProject
  <2>1. spec.cluster.project = "default"
    BY DEF WebInv
  <2> QED
    BY <2>1 DEF WebInv, InNamedProject
<1> QED
  BY <1>1, CallsInvariant, WebInvariant, PTL

(* With the webhooks the network and the instances are what the templates  *)
(* ask for, whatever is edited between the look-up of an image and its use. *)
THEOREM AsTheTemplateAsks ==
    ASSUME Webhooks
    PROVE  Spec => []BuiltToTemplate
<1>1. WebInv => BuiltToTemplate
  BY DEF WebInv, BuiltToTemplate
<1> QED
  BY <1>1, WebInvariant, PTL

-----------------------------------------------------------------------------
(* What a step does to the resources and to what is recorded of them *)

(* Nothing is created or deleted, and what is recorded stays so.           *)
Quiet ==
    /\ UNCHANGED <<cloud, next>> /\ bad' \in {bad, bad + 1}
    /\ \A f \in Kinds : ids'[f] = ids[f]

(* A resource is created that is not there, and recorded unless the answer *)
(* is bad or has nothing to be recorded.                                   *)
Makes(kind) ==
    /\ ids[kind] = None
    /\ kind = "floatingIP" => ids.instance = None
    /\ \A f \in Kinds \ {kind} : ids'[f] = ids[f]
    /\ \/ ids'[kind] = next /\ bad' \in {bad, bad + 1}
       \/ /\ ids'[kind] = None
          /\ \/ bad' = bad + 1
             \/ kind = "network" /\ spec.cluster.subnets = 0 /\ bad' = bad
    /\ \E r \in Resources :
         /\ r.kind = kind /\ r.id = next /\ Make(r)
         /\ kind = "instance" =>
              /\ Bootstrap.ok /\ r.data = Bootstrap.doc
              /\ copy.floatingIP = ids.floatingIP /\ ids.floatingIP # None

(* A resource is forgotten, and is gone unless the answer is bad.          *)
Erases(kind) ==
    /\ kind = "floatingIP" => ids.instance = None
    /\ cloud' \subseteq cloud /\ next' = next
    /\ \A f \in Kinds \ {kind} : ids'[f] = ids[f]
    /\ ids'[kind] \in {ids[kind], None}
    /\ \/ bad' = bad + 1
       \/ /\ bad' = bad
          /\ cloud' = {r \in cloud : r.kind # kind \/ r.id # ids[kind]}

(* A failing pass keeps the ids of what it has created.                     *)
LEMMA PersistentFields ==
    TypeOK => \A f \in Kinds : Persistent[f] = ids[f]
  BY DEF Persistent, TypeOK, Fields, Kinds

(* What is received is recorded, or the pass ends.                         *)
LEMMA ReceiveFields ==
    ASSUME TypeOK, NEW found, NEW whole, NEW known, NEW s,
           Receive(found, whole, known, s)
    PROVE  /\ \/ found # <<>> /\ ids' = known
              \/ found = <<>> /\ \A f \in Kinds : ids'[f] = ids[f]
           /\ bad' \in {bad, bad + 1}
           /\ found # whole => bad' = bad + 1
<1>1. bad' \in {bad, bad + 1} /\ (found # whole => bad' = bad + 1)
  BY DEF Receive, Spend
<1>2. CASE found = <<>>
  <2>1. ids' = Persistent
    BY <1>2, EndFacts DEF Receive, Abort
  <2> QED
    BY <1>1, <1>2, <2>1, PersistentFields
<1>3. CASE found # <<>>
  BY <1>1, <1>3, RecordFacts DEF Receive
<1> QED
  BY <1>2, <1>3

(* These steps leave the cloud and the ids of what was created as they are. *)
LEMMA QuietSteps ==
    ASSUME CallsInv, NEW o \in Reconciled,
           \/ Create(o) \/ EditTemplate(o) \/ Edit(o) \/ Delete(o)
           \/ CompleteSecret \/ Deliver \/ Start(o)
           \/ NewWXOneClients \/ LoginFails \/ CallFails \/ DataUnusable
           \/ Wait \/ FinishCluster \/ FinishDelete \/ getInstance
           \/ getDefaultProject \/ getFlavorByName \/ getImageList
    PROVE  UNCHANGED given /\ Quiet
<1>0. TypeOK /\ ids \in [Fields -> Nat]
  BY DEF CallsInv, TypeOK
<1>1. ASSUME Abort PROVE \A f \in Kinds : ids'[f] = ids[f]
  BY <1>0, <1>1, EndFacts, PersistentFields DEF Abort
<1>2. ASSUME NEW n
      PROVE  \A k \in Kinds : /\ [ids EXCEPT !.project = n][k] = ids[k]
                              /\ [ids EXCEPT !.flavor = n][k] = ids[k]
                              /\ [ids EXCEPT !.image = n][k] = ids[k]
  BY <1>0 DEF Fields, Kinds
<1>3. CASE Create(o) \/ EditTemplate(o) \/ Edit(o) \/ Delete(o)
             \/ CompleteSecret \/ Deliver \/ Start(o) \/ Wait
             \/ FinishCluster \/ FinishDelete
  BY <1>3 DEF Create, EditTemplate, Edit, Delete, CompleteSecret, Deliver,
              Start, Wait, FinishCluster, FinishDelete, aside, objects, Quiet
<1>4. CASE NewWXOneClients
  BY <1>4 DEF NewWXOneClients, Spend, aside, objects, Quiet
<1>5. CASE getInstance
  BY <1>5 DEF getInstance, Spend, aside, Quiet
<1>6. CASE LoginFails \/ CallFails \/ DataUnusable
  <2>1. Abort /\ UNCHANGED <<given, cloud, next>> /\ bad' \in {bad, bad + 1}
    BY <1>6 DEF LoginFails, CallFails, DataUnusable, Spend, aside
  <2> QED
    BY <1>1, <2>1 DEF Quiet
<1>7. CASE getDefaultProject
  <2>1. /\ UNCHANGED <<given, cloud, next>> /\ bad' \in {bad, bad + 1}
        /\ Abort \/ ids' = [ids EXCEPT !.project = DefaultProject]
    BY <1>7 DEF getDefaultProject, getDefaultProjectResponse, Optional,
                Spend, aside
  <2>2. \A f \in Kinds : ids'[f] = ids[f]
    BY <1>1, <1>2, <2>1
  <2> QED
    BY <2>1, <2>2 DEF Quiet
<1>8. CASE getFlavorByName
  <2>1. PICK found \in Optional(1) :
          Receive(found, <<1>>, [ids EXCEPT !.flavor = Head(found)],
                  spec.machine)
    BY <1>8 DEF getFlavorByName, getFlavorByNameResponse
  <2>2. UNCHANGED <<given, cloud, next>>
    BY <1>8 DEF getFlavorByName, aside
  <2>3. /\ bad' \in {bad, bad + 1}
        /\ \/ ids' = [ids EXCEPT !.flavor = Head(found)]
           \/ \A f \in Kinds : ids'[f] = ids[f]
    BY <1>0, <2>1, ReceiveFields
  <2>4. \A f \in Kinds : ids'[f] = ids[f]
    BY <1>2, <2>3
  <2> QED
    BY <2>2, <2>3, <2>4 DEF Quiet
<1>9. CASE getImageList
  <2>1. PICK last \in Nat :
          /\ bad' = bad \/ Spend
          /\ \/ Record([ids EXCEPT !.image = last], spec.machine)
             \/ EndWith([ids EXCEPT !.image = last])
    BY <1>9, ImageFacts DEF CallsInv, TypeOK
  <2>2. UNCHANGED <<given, cloud, next>>
    BY <1>9 DEF getImageList, aside
  <2>3. ids' = [ids EXCEPT !.image = last]
    BY <2>1, RecordFacts, EndFacts
  <2> QED
    BY <1>2, <2>1, <2>2, <2>3 DEF Quiet, Spend
<1> QED
  BY <1>3, <1>4, <1>5, <1>6, <1>7, <1>8, <1>9

(* The five creating calls are each a case of Makes.                        *)
LEMMA MakeSteps ==
    ASSUME CallsInv,
           \/ createNetwork \/ createFloatingIP \/ createKey
           \/ createInstance \/ createFloatingGroup
    PROVE  UNCHANGED given /\ \E kind \in Kinds : Makes(kind)
<1>0. /\ TypeOK /\ LifeInv /\ IdsInv /\ calls \in Handlers
      /\ ids \in [Fields -> Nat] /\ next \in Nat \ {0}
      /\ spec.cluster.subnets \in Nat
  BY DEF CallsInv, TypeOK, Handlers, Specs
<1>1. ASSUME NEW kind \in Kinds, ids[kind] = None,
             kind = "floatingIP" => ids.instance = None,
             NEW found \in Optional(next), NEW s,
             Receive(found, <<next>>, [ids EXCEPT ![kind] = Head(found)], s),
             NEW r \in Resources, r.kind = kind, r.id = next, Make(r),
             kind = "instance" =>
               /\ Bootstrap.ok /\ r.data = Bootstrap.doc
               /\ copy.floatingIP = ids.floatingIP /\ ids.floatingIP # None
      PROVE  Makes(kind)
  <2>1. /\ found # <<>> => Head(found) = next
        /\ found # <<next>> => found = <<>>
    BY DEF Optional
  <2>2. kind \in Fields
    BY DEF Kinds, Fields
  <2>3. CASE found # <<>>
    <3>1. ids' = [ids EXCEPT ![kind] = next] /\ bad' \in {bad, bad + 1}
      BY <1>0, <1>1, <2>1, <2>3, ReceiveFields
    <3>2. /\ ids'[kind] = next
          /\ \A f \in Kinds \ {kind} : ids'[f] = ids[f]
      BY <1>0, <2>2, <3>1 DEF Kinds, Fields
    <3> QED
      BY <1>1, <3>1, <3>2 DEF Makes
  <2>4. CASE found = <<>>
    <3>1. /\ \A f \in Kinds : ids'[f] = ids[f]
          /\ bad' = bad + 1
      <4>1. found # <<next>>
        BY <2>4
      <4> DEFINE known == [ids EXCEPT ![kind] = Head(found)]
      <4>2. Receive(found, <<next>>, known, s)
        BY <1>1
      <4> HIDE DEF known
      <4> QED
        <5>1. /\ \/ found # <<>> /\ ids' = known
                 \/ found = <<>> /\ \A f \in Kinds : ids'[f] = ids[f]
              /\ bad' \in {bad, bad + 1}
              /\ found # <<next>> => bad' = bad + 1
          BY <1>0, <4>2, ReceiveFields
        <5> QED
          BY <2>4, <4>1, <5>1
    <3> QED
      BY <1>1, <3>1 DEF Makes
  <2> QED
    BY <2>3, <2>4
<1>2. ASSUME NEW kind \in Kinds
      PROVE  /\ New(kind) \in Resources /\ New(kind).kind = kind
             /\ New(kind).id = next
  BY <1>0, NewType
<1>3. CASE createNetwork
  <2> DEFINE n == spec.cluster.subnets
             r == [New("network") EXCEPT !.subnets = n]
             known(found) == [ids EXCEPT !.network = next,
                                         !.subnet = Head(found)]
  <2>1. /\ Make(r) /\ UNCHANGED given /\ DueNext("createNetwork")
    BY <1>3 DEF createNetwork, Ask, aside
  <2>2. PICK found \in createNetworkResponse(n) :
          Receive(found, Subnets(n), known(found), spec.cluster)
    BY <1>3 DEF createNetwork
  <2>3. ids.network = None
    BY <1>0, <2>1, DueWhere DEF IdsInv
  <2>4. /\ known(found).network = next
        /\ \A f \in Kinds \ {"network"} : known(found)[f] = ids[f]
    BY <1>0 DEF Kinds, Fields
  <2>5. r \in Resources /\ r.kind = "network" /\ r.id = next
    <3>1. "network" \in Kinds
      BY DEF Kinds
    <3> QED
      BY <1>0, <1>2, <3>1 DEF Resources
  <2>6. found = <<>> /\ n # 0 => found # Subnets(n)
    BY <1>0 DEF Subnets
  <2> HIDE DEF known, r
  <2>7. /\ bad' \in {bad, bad + 1}
        /\ found # Subnets(n) => bad' = bad + 1
        /\ \/ found # <<>> /\ ids' = known(found)
           \/ found = <<>> /\ \A f \in Kinds : ids'[f] = ids[f]
    BY <1>0, <2>2, ReceiveFields
  <2>8. CASE found # <<>>
    BY <2>1, <2>3, <2>4, <2>5, <2>7, <2>8 DEF Makes, Kinds
  <2>9. CASE found = <<>>
    <3>1. ids'.network = None /\ \A f \in Kinds : ids'[f] = ids[f]
      BY <2>3, <2>7, <2>9 DEF Kinds
    <3>2. \/ bad' = bad + 1
          \/ spec.cluster.subnets = 0 /\ bad' = bad
      BY <2>6, <2>7, <2>9
    <3> QED
      BY <2>1, <2>3, <2>5, <3>1, <3>2 DEF Makes, Kinds
  <2> QED
    BY <2>8, <2>9
<1>4. CASE createFloatingIP
  <2>1. /\ UNCHANGED given /\ Make(New("floatingIP"))
        /\ DueNext("createFloatingIP")
    BY <1>4 DEF createFloatingIP, Ask, aside
  <2>2. PICK found \in Optional(next) :
          Receive(found, <<next>>, [ids EXCEPT !.floatingIP = Head(found)],
                  spec.cluster)
    BY <1>4 DEF createFloatingIP, createFloatingIPResponse
  <2>3. ids.floatingIP = None
    BY <1>0, <2>1, DueWhere
  <2>4. ids.instance = None
    BY <1>0, <2>3 DEF LifeInv, IdsInv
  <2>5. "floatingIP" \in Kinds
    BY DEF Kinds
  <2> QED
    BY <1>1, <1>2, <2>1, <2>2, <2>3, <2>4, <2>5
<1>5. CASE createKey
  <2>1. /\ UNCHANGED given /\ Make(New("sshKey")) /\ DueNext("createKey")
    BY <1>5 DEF createKey, Ask, aside
  <2>2. PICK found \in Optional(next) :
          Receive(found, <<next>>, [ids EXCEPT !.sshKey = Head(found)],
                  spec.cluster)
    BY <1>5 DEF createKey, createKeyResponse
  <2>3. ids.sshKey = None
    BY <1>0, <2>1, DueWhere
  <2>4. "sshKey" \in Kinds
    BY DEF Kinds
  <2> QED
    BY <1>1, <1>2, <2>1, <2>2, <2>3, <2>4
<1>6. CASE createFloatingGroup
  <2>1. /\ UNCHANGED given /\ Make(New("route"))
        /\ DueNext("createFloatingGroup")
    BY <1>6 DEF createFloatingGroup, Ask, aside
  <2>2. PICK found \in Optional(next) :
          Receive(found, <<next>>, [ids EXCEPT !.route = Head(found)],
                  spec.machine)
    BY <1>6 DEF createFloatingGroup, createFloatingGroupResponse
  <2>3. ids.route = None
    BY <1>0, <2>1, DueWhere
  <2>4. "route" \in Kinds
    BY DEF Kinds
  <2> QED
    BY <1>1, <1>2, <2>1, <2>2, <2>3, <2>4
<1>7. CASE createInstance
  <2> DEFINE r == [New("instance") EXCEPT !.image = ids.image,
                                          !.data = Bootstrap.doc]
             s(found) == [spec.machine EXCEPT !.providerID = Head(found)]
  <2>1. /\ UNCHANGED given /\ Make(r) /\ DueNext("createInstance")
        /\ Bootstrap.ok
    BY <1>7 DEF createInstance, Ask, Sendable, aside
  <2>2. PICK found \in Optional(next) :
          Receive(found, <<next>>, [ids EXCEPT !.instance = Head(found)],
                  s(found))
    BY <1>7 DEF createInstance, createInstanceResponse
  <2>3. ids.instance = None
    BY <1>0, <2>1, DueWhere
  <2>4. "instance" \in Kinds
    BY DEF Kinds
  <2>5. copy.floatingIP = ids.floatingIP /\ ids.floatingIP # None
    BY <1>7, KeyIsRead DEF createInstance, Ask
  <2>6. r \in Resources /\ r.kind = "instance" /\ r.id = next
        /\ r.data = Bootstrap.doc
    <3>1. /\ data \in Documents /\ controlPlane \in BOOLEAN
          /\ copy.floatingIP \in Nat /\ ids.image \in Nat
      BY <1>0 DEF TypeOK, Fields, ClusterFields
    <3>2. Bootstrap.doc \in Documents
      BY <2>1, <3>1, UserDataType DEF Bootstrap
    <3>3. /\ New("instance") \in Resources /\ New("instance").id = next
          /\ New("instance").kind = "instance"
      BY <1>2, <2>4
    <3> QED
      BY <3>1, <3>2, <3>3 DEF Resources
  <2> HIDE DEF r, s
  <2> QED
    BY <1>1, <2>1, <2>2, <2>3, <2>4, <2>5, <2>6
<1> QED
  BY <1>3, <1>4, <1>5, <1>6, <1>7

(* The five deleting calls are each a case of Erases.                       *)
LEMMA EraseSteps ==
    ASSUME CallsInv,
           \/ deleteNetwork \/ deleteFloatingIP \/ deleteKey
           \/ deleteFloatingGroup \/ deleteInstance
    PROVE  UNCHANGED given /\ \E kind \in Kinds : Erases(kind)
<1>0. /\ TypeOK /\ LifeInv /\ IdsInv /\ calls \in Handlers
      /\ ids \in [Fields -> Nat]
  BY DEF CallsInv, TypeOK, Handlers
<1>1. ASSUME NEW op, NEW kind \in Kinds, NEW fields, Erase(op, kind, fields),
             kind \in fields, \A f \in Kinds \ {kind} : f \notin fields,
             kind = "floatingIP" => ids.instance = None
      PROVE  UNCHANGED given /\ Erases(kind)
  <2> DEFINE known == [f \in Fields |-> IF f \in fields THEN None ELSE ids[f]]
  <2>1. PICK found \in deleteResponse :
          /\ IF found = "done" THEN UNCHANGED bad ELSE Spend
          /\ cloud' = IF found = "inband" THEN cloud
                      ELSE {r \in cloud : r.kind # kind \/ r.id # ids[kind]}
          /\ IF found = "lost" THEN Abort
             ELSE EndWith(known) \/ Record(known, spec[Worker])
    BY <1>1 DEF Erase
  <2>2. UNCHANGED given /\ next' = next
    BY <1>1 DEF Erase, aside
  <2>3. Kinds \subseteq Fields
    BY DEF Kinds, Fields
  <2>4. /\ known[kind] = None
        /\ \A f \in Kinds \ {kind} : known[f] = ids[f]
    BY <1>1, <2>3
  <2> HIDE DEF known
  <2>5. CASE found = "lost"
    <3>1. ids' = Persistent
      BY <2>1, <2>5, EndFacts DEF Abort
    <3>2. \A f \in Kinds : ids'[f] = ids[f]
      BY <1>0, <3>1, PersistentFields
    <3>3. bad' = bad + 1 /\ cloud' \subseteq cloud
      BY <2>1, <2>5 DEF Spend
    <3> QED
      BY <1>1, <2>2, <3>2, <3>3 DEF Erases
  <2>6. CASE found # "lost"
    <3>1. ids' = known
      BY <2>1, <2>6, EndFacts, RecordFacts
    <3>2. \/ bad' = bad + 1 /\ cloud' \subseteq cloud
          \/ /\ bad' = bad
             /\ cloud' = {r \in cloud : r.kind # kind \/ r.id # ids[kind]}
      BY <2>1, <2>6 DEF Spend, deleteResponse
    <3>3. cloud' \subseteq cloud
      BY <3>2
    <3> QED
      BY <1>1, <2>2, <2>4, <3>1, <3>2, <3>3 DEF Erases
  <2> QED
    BY <2>5, <2>6
<1>2. CASE deleteNetwork
  BY <1>1, <1>2 DEF deleteNetwork, Kinds
<1>3. CASE deleteFloatingIP
  <2>1. calls = ClusterDeletes
    BY <1>0, <1>3, DueWhere DEF deleteFloatingIP, Erase, Ask
  <2>2. ids.instance = None
    BY <1>0, <2>1 DEF LifeInv, IdsInv
  <2> QED
    BY <1>1, <1>3, <2>2 DEF deleteFloatingIP, Kinds
<1>4. CASE deleteKey
  BY <1>1, <1>4 DEF deleteKey, Kinds
<1>5. CASE deleteFloatingGroup
  BY <1>1, <1>5 DEF deleteFloatingGroup, Kinds
<1>6. CASE deleteInstance
  BY <1>1, <1>6 DEF deleteInstance, Kinds
<1> QED
  BY <1>2, <1>3, <1>4, <1>5, <1>6

(* Every step is one of these, or an instance boots. *)
LEMMA StepKinds ==
    CallsInv /\ [Next]_vars =>
      /\ UNCHANGED given
      /\ Quiet \/ Boot \/ \E kind \in Kinds : Makes(kind) \/ Erases(kind)
<1> SUFFICES ASSUME CallsInv, [Next]_vars
             PROVE  /\ UNCHANGED given
                    /\ \/ Quiet \/ Boot
                       \/ \E kind \in Kinds : Makes(kind) \/ Erases(kind)
  OBVIOUS
<1>1. CASE UNCHANGED vars
  BY <1>1 DEF vars, aside, Quiet
<1>2. CASE Boot
  BY <1>2 DEF Boot, aside
<1>3. CASE Next /\ ~Boot
  <2>1. "machine" \in Reconciled
    BY DEF Reconciled
  <2>2. ASSUME NEW o \in Reconciled,
               \/ Create(o) \/ EditTemplate(o) \/ Edit(o) \/ Delete(o)
               \/ Start(o)
        PROVE  UNCHANGED given /\ Quiet
    BY <2>2, QuietSteps
  <2> QED
    BY <1>3, <2>1, <2>2, QuietSteps, MakeSteps, EraseSteps DEF Next, Pass
<1> QED
  BY <1>1, <1>2, <1>3

-----------------------------------------------------------------------------
(* The user data of the instances *)

(* Every instance has been sent the bootstrap data, with the floating IP   *)
(* the cluster had then: the one it has for as long as the instance is     *)
(* recorded.                                                               *)
DataInv ==
    /\ Unaddressed(AsList(data.write_files))
    /\ \A v \in cloud : v.kind = "instance" =>
         \E addr \in Nat \ {None} :
           /\ SentFor(v.data, data, controlPlane, addr)
           /\ v.id = ids.instance => addr = ids.floatingIP

(* Every step keeps DataInv: an instance is created with the document of    *)
(* its machine and the address of its cluster, and the address stays.       *)
LEMMA DataStep ==
    CallsInv /\ CallsInv' /\ DataInv /\ [Next]_vars => DataInv'
<1> SUFFICES ASSUME CallsInv, CallsInv', DataInv, [Next]_vars PROVE DataInv'
  OBVIOUS
<1>0. /\ cloud \subseteq Resources /\ next \in Nat \ {0}
      /\ \A r \in cloud : r.id \in 1..(next - 1)
      /\ \A r \in cloud' : r.id \in 1..(next' - 1)
      /\ ids \in [Fields -> Nat]
      /\ data \in Documents /\ controlPlane \in BOOLEAN
  BY DEF CallsInv, TypeOK
<1>1. UNCHANGED <<data, controlPlane>>
  BY StepKinds DEF given
(* Who was there is still told the right address. *)
<1>2. ASSUME \/ ids'.instance = None \/ ids'.instance = next
             \/ /\ ids'.instance = ids.instance
                /\ ids'.floatingIP = ids.floatingIP,
             NEW v \in cloud, v.kind = "instance"
      PROVE  \E addr \in Nat \ {None} :
               /\ SentFor(v.data, data, controlPlane, addr)
               /\ v.id = ids'.instance => addr = ids'.floatingIP
  <2>1. v.id # None /\ v.id # next
    BY <1>0 DEF None
  <2>2. PICK addr \in Nat \ {None} :
           /\ SentFor(v.data, data, controlPlane, addr)
           /\ v.id = ids.instance => addr = ids.floatingIP
    BY <1>2 DEF DataInv
  <2> QED
    BY <1>2, <2>1, <2>2
<1>3. ASSUME \/ ids'.instance = None \/ ids'.instance = next
             \/ /\ ids'.instance = ids.instance
                /\ ids'.floatingIP = ids.floatingIP,
             cloud' \subseteq cloud
      PROVE  DataInv'
  BY <1>1, <1>2, <1>3 DEF DataInv
<1>4. CASE Quiet
  <2>1. /\ ids'.instance = ids.instance
        /\ ids'.floatingIP = ids.floatingIP
    BY <1>4 DEF Quiet, Kinds
  <2>2. cloud' \subseteq cloud
    BY <1>4 DEF Quiet
  <2> QED
    BY <1>3, <2>1, <2>2
<1>5. CASE Boot
  <2>1. PICK b \in cloud :
          cloud' = (cloud \ {b}) \cup {[b EXCEPT !.running = TRUE]}
    BY <1>5 DEF Boot
  <2> DEFINE w == [b EXCEPT !.running = TRUE]
  <2>2. w.kind = b.kind /\ w.id = b.id /\ w.data = b.data
    BY <1>0 DEF Resources
  <2>3. ids' = ids
    BY <1>5 DEF Boot
  <2> HIDE DEF w
  <2>4. ASSUME NEW v \in cloud', v.kind = "instance"
        PROVE  \E addr \in Nat \ {None} :
                 /\ SentFor(v.data, data, controlPlane, addr)
                 /\ v.id = ids'.instance => addr = ids'.floatingIP
    <3>1. CASE v \in cloud
      BY <1>2, <2>3, <2>4, <3>1
    <3>2. CASE v = w
      BY <1>2, <2>2, <2>3, <2>4, <3>2
    <3> QED
      BY <2>1, <3>1, <3>2 DEF w
  <2> QED
    BY <1>1, <2>4 DEF DataInv
<1>6. ASSUME NEW kind \in Kinds, Makes(kind) PROVE DataInv'
  <2>1. PICK r \in Resources :
          /\ r.kind = kind /\ r.id = next /\ cloud' = cloud \cup {r}
          /\ kind = "instance" =>
               /\ Bootstrap.ok /\ r.data = Bootstrap.doc
               /\ copy.floatingIP = ids.floatingIP /\ ids.floatingIP # None
    BY <1>6 DEF Makes, Make
  <2>2. \/ ids'.instance = None \/ ids'.instance = next
        \/ /\ ids'.instance = ids.instance
           /\ ids'.floatingIP = ids.floatingIP
    <3>1. CASE kind = "instance"
      <4>1. ids'[kind] \in {next, None}
        BY <1>6 DEF Makes
      <4> QED
        BY <3>1, <4>1
    <3>2. CASE kind = "floatingIP"
      <4>1. /\ kind = "floatingIP" => ids.instance = None
            /\ \A f \in Kinds \ {kind} : ids'[f] = ids[f]
        BY <1>6 DEF Makes
      <4>2. ids.instance = None /\ ids'.instance = ids.instance
        BY <3>2, <4>1 DEF Kinds
      <4> QED
        BY <4>2
    <3>3. CASE kind \notin {"instance", "floatingIP"}
      <4>1. \A f \in Kinds \ {kind} : ids'[f] = ids[f]
        BY <1>6 DEF Makes
      <4> QED
        BY <3>3, <4>1 DEF Kinds
    <3> QED
      BY <3>1, <3>2, <3>3
  <2>3. ASSUME kind = "instance"
        PROVE  \E addr \in Nat \ {None} :
                 /\ SentFor(r.data, data, controlPlane, addr)
                 /\ r.id = ids'.instance => addr = ids'.floatingIP
    <3>1. ids.floatingIP \in Nat \ {None}
      BY <1>0, <2>1, <2>3 DEF Fields
    <3>2. SentFor(r.data, data, controlPlane, ids.floatingIP)
      <4> DEFINE u == UserData(data, controlPlane, ids.floatingIP)
      <4>1. u.ok /\ r.data = u.doc
        BY <2>1, <2>3 DEF Bootstrap
      <4>2. Unaddressed(AsList(data.write_files))
        BY DEF DataInv
      <4>3. SentFor(u.doc, data, controlPlane, ids.floatingIP)
        BY <1>0, <3>1, <4>1, <4>2, UserDataSent
      <4> HIDE DEF u
      <4> QED
        BY <4>1, <4>3
    <3>3. ids'.floatingIP = ids.floatingIP
      BY <1>6, <2>3 DEF Makes, Kinds
    <3> QED
      BY <3>1, <3>2, <3>3
  <2>4. ASSUME NEW v \in cloud', v.kind = "instance"
        PROVE  \E addr \in Nat \ {None} :
                 /\ SentFor(v.data, data, controlPlane, addr)
                 /\ v.id = ids'.instance => addr = ids'.floatingIP
    <3>1. CASE v \in cloud
      BY <1>2, <2>2, <2>4, <3>1
    <3>2. CASE v = r
      BY <2>1, <2>3, <2>4, <3>2
    <3> QED
      BY <2>1, <3>1, <3>2
  <2> QED
    BY <1>1, <2>4 DEF DataInv
<1>7. ASSUME NEW kind \in Kinds, Erases(kind) PROVE DataInv'
  <2>1. \/ ids'.instance = None
        \/ /\ ids'.instance = ids.instance
           /\ ids'.floatingIP = ids.floatingIP
    <3>1. CASE kind = "instance"
      BY <1>7, <3>1 DEF Erases, Kinds
    <3>2. CASE kind # "instance"
      BY <1>7, <3>2 DEF Erases, Kinds
    <3> QED
      BY <3>1, <3>2
  <2>2. cloud' \subseteq cloud
    BY <1>7 DEF Erases
  <2> QED
    BY <1>3, <2>1, <2>2
<1> QED
  BY <1>4, <1>5, <1>6, <1>7, StepKinds

(* DataInv holds at first, there being no instance.                         *)
LEMMA InitData == Init => DataInv
<1> SUFFICES ASSUME Init PROVE DataInv
  OBVIOUS
<1>1. PICK s \in Situations : data = s.data
  BY Zenon DEF Init
<1>2. cloud = {}
  BY DEF Init
<1> QED
  BY <1>1, <1>2, SituationType DEF DataInv

(* Every instance was sent what its machine's bootstrap data and its        *)
(* cluster's address make of it: DataInv always holds.                      *)
THEOREM DataInvariant == Spec => []DataInv
<1> QED
  BY InitData, DataStep, CallsInvariant, PTL DEF Spec

(* IsPrefix of the community modules, entry by entry *)
LEMMA BeginsIsPrefix ==
    ASSUME NEW s \in Seq(Entries), NEW t \in Seq(Entries), Begins(s, t)
    PROVE  IsPrefix(s, t)
<1>1. /\ Len(s) \in Nat /\ Len(t) \in Nat /\ Len(s) <= Len(t)
      /\ \A i \in 1..Len(s) : t[i] = s[i]
  BY LenProperties DEF Begins
<1>2. SubSeq(s, 1, Len(s)) = [i \in 1..Len(s) |-> s[i]]
  BY <1>1, SubSeqProperties
<1>3. SubSeq(t, 1, Len(s)) = [i \in 1..Len(s) |-> t[i]]
  BY <1>1, SubSeqProperties
<1> QED
  BY <1>1, <1>2, <1>3 DEF IsPrefix

(* Every instance has the bootstrap data unchanged and, on the control     *)
(* plane, the floating IP of its cluster once and after what was there.    *)
THEOREM UserDataComplete == Spec => []UserDataOnce
<1>1. CallsInv /\ DataInv => UserDataOnce
  <2> SUFFICES ASSUME CallsInv, DataInv,
                      NEW v \in cloud, v.kind = "instance"
               PROVE  /\ ~v.data.header
                      /\ ~controlPlane =>
                           /\ v.data.write_files = data.write_files
                           /\ v.data.runcmd = data.runcmd
                      /\ controlPlane =>
                           /\ IsPrefix(AsList(data.write_files),
                                       v.data.write_files)
                           /\ IsPrefix(AsList(data.runcmd), v.data.runcmd)
                           /\ \E i \in DOMAIN v.data.write_files :
                                /\ \A j \in DOMAIN v.data.write_files :
                                     v.data.write_files[j][2] # None <=> j = i
                                /\ v.id = ids.instance =>
                                     v.data.write_files[i][2] = ids.floatingIP
    BY Zenon DEF UserDataOnce, AsList
  <2>0. /\ data \in Documents /\ v \in Resources
    BY DEF CallsInv, TypeOK
  <2>1. /\ data.write_files \in Seq(Entries) /\ data.runcmd \in Seq(Entries)
        /\ v.data.write_files \in Seq(Entries)
        /\ v.data.runcmd \in Seq(Entries)
    BY <2>0 DEF Resources, Documents
  <2>2. PICK addr \in Nat \ {None} :
          /\ SentFor(v.data, data, controlPlane, addr)
          /\ v.id = ids.instance => addr = ids.floatingIP
    BY DEF DataInv
  <2>3. ASSUME controlPlane
        PROVE  /\ IsPrefix(AsList(data.write_files), v.data.write_files)
               /\ IsPrefix(AsList(data.runcmd), v.data.runcmd)
    <3>1. /\ AsList(data.write_files) \in Seq(Entries)
          /\ AsList(data.runcmd) \in Seq(Entries)
      BY <2>1, EmptySeq DEF AsList
    <3>2. /\ Begins(AsList(data.write_files), v.data.write_files)
          /\ Begins(AsList(data.runcmd), v.data.runcmd)
      BY <2>2, <2>3 DEF SentFor
    <3> QED
      BY <2>1, <3>1, <3>2, BeginsIsPrefix
  <2>4. ASSUME controlPlane
        PROVE  \E i \in DOMAIN v.data.write_files :
                 /\ \A j \in DOMAIN v.data.write_files :
                      v.data.write_files[j][2] # None <=> j = i
                 /\ v.id = ids.instance =>
                      v.data.write_files[i][2] = ids.floatingIP
    <3> DEFINE files == v.data.write_files
    <3>1. DOMAIN files = 1..Len(files)
      BY <2>1, LenProperties
    <3>2. PICK i \in 1..Len(files) :
            /\ files[i][2] = addr
            /\ \A k \in 1..Len(files) : k # i => files[k][2] = 0
      BY <2>2, <2>4 DEF SentFor
    <3> HIDE DEF files
    <3>3. \A j \in DOMAIN files : files[j][2] # None <=> j = i
      BY <3>1, <3>2 DEF None
    <3> QED
      BY <2>2, <3>1, <3>2, <3>3 DEF files
  <2> QED
    BY <2>2, <2>3, <2>4 DEF SentFor
<1> QED
  BY <1>1, CallsInvariant, DataInvariant, PTL

-----------------------------------------------------------------------------
(* How much is left behind *)

(* What no status records *)
Leaked == {r \in cloud : ids[r.kind] # r.id}

(* There is one of each id, and none is recorded that has not been handed  *)
(* out; so one bad answer leaves one resource behind.                      *)
LeakInv ==
    /\ IsFiniteSet(cloud)
    /\ \A r, s \in cloud : r.id = s.id => r = s
    /\ \A f \in Kinds : ids[f] < next
    /\ template.cluster.subnets > 0 => Cardinality(Leaked) <= bad

(* What the counting below uses of the first invariant.                     *)
LEMMA CountFacts ==
    ASSUME CallsInv
    PROVE  /\ cloud \subseteq Resources /\ next \in Nat \ {0} /\ bad \in Nat
           /\ \A r \in cloud : r.id \in 1..(next - 1) /\ r.kind \in Kinds
           /\ ids \in [Fields -> Nat] /\ Kinds \subseteq Fields
<1>1. MaxBad \in Nat /\ bad \in 0..MaxBad
  BY BoundsAssumption DEF CallsInv, TypeOK
<1>2. bad \in Nat
  BY <1>1
<1>3. /\ cloud \subseteq Resources /\ next \in Nat \ {0}
      /\ \A r \in cloud : r.id \in 1..(next - 1)
      /\ ids \in [Fields -> Nat]
  BY DEF CallsInv, TypeOK
<1>4. \A r \in cloud : r.kind \in Kinds
  BY <1>3 DEF Resources
<1>5. Kinds \subseteq Fields
  BY DEF Kinds, Fields
<1> QED
  BY <1>2, <1>3, <1>4, <1>5

(* A creating call leaks what it has created only when its answer is lost   *)
(* or not recorded, and that is counted.                                    *)
LEMMA LeakedMakes ==
    ASSUME CallsInv, LeakInv, template.cluster.subnets > 0,
           spec.cluster.subnets = template.cluster.subnets,
           NEW kind \in Kinds, Makes(kind)
    PROVE  Cardinality(Leaked') <= bad'
<1>0. /\ cloud \subseteq Resources /\ next \in Nat \ {0} /\ bad \in Nat
      /\ \A r \in cloud : r.id \in 1..(next - 1) /\ r.kind \in Kinds
      /\ ids \in [Fields -> Nat] /\ Kinds \subseteq Fields
  BY CountFacts
<1>1. PICK r \in Resources : /\ r.kind = kind /\ r.id = next
                             /\ cloud' = cloud \cup {r}
  BY DEF Makes, Make
<1>2. /\ ids[kind] = None /\ \A f \in Kinds \ {kind} : ids'[f] = ids[f]
  BY DEF Makes
<1>3. IsFiniteSet(Leaked) /\ Cardinality(Leaked) \in Nat
      /\ Cardinality(Leaked) <= bad
  BY FS_Subset, FS_CardinalityType DEF LeakInv, Leaked
<1>4. CASE ids'[kind] = next /\ bad' \in {bad, bad + 1}
  <2>1. Leaked' \subseteq Leaked
    BY <1>0, <1>1, <1>2, <1>4 DEF Leaked, None
  <2>2. Cardinality(Leaked') <= Cardinality(Leaked)
        /\ Cardinality(Leaked') \in Nat
    BY <1>3, <2>1, FS_Subset, FS_CardinalityType
  <2> QED
    BY <1>0, <1>3, <1>4, <2>2
<1>5. CASE ids'[kind] = None /\ bad' = bad + 1
  <2>1. Leaked' \subseteq Leaked \cup {r}
    BY <1>0, <1>1, <1>2, <1>5 DEF Leaked, None
  <2>2. IsFiniteSet(Leaked') /\ Cardinality(Leaked') <= Cardinality(Leaked) + 1
    BY <1>3, <2>1, OneMore
  <2>3. Cardinality(Leaked') \in Nat
    BY <2>2, FS_CardinalityType
  <2> QED
    BY <1>0, <1>3, <1>5, <2>2, <2>3
<1> QED
  BY <1>0, <1>4, <1>5 DEF Makes

(* A deleting call leaks nothing but what it has failed to delete, and that *)
(* is counted.                                                              *)
LEMMA LeakedErases ==
    ASSUME CallsInv, LeakInv, template.cluster.subnets > 0,
           NEW kind \in Kinds, Erases(kind)
    PROVE  Cardinality(Leaked') <= bad'
<1>0. /\ bad \in Nat /\ \A r \in cloud : r.kind \in Kinds
  BY CountFacts
<1>1. /\ cloud' \subseteq cloud /\ \A f \in Kinds \ {kind} : ids'[f] = ids[f]
      /\ ids'[kind] \in {ids[kind], None}
  BY DEF Erases
<1>2. IsFiniteSet(Leaked) /\ Cardinality(Leaked) \in Nat
      /\ Cardinality(Leaked) <= bad
  BY FS_Subset, FS_CardinalityType DEF LeakInv, Leaked
<1>3. CASE bad' = bad + 1
  <2>1. CASE \E r \in cloud : r.kind = kind /\ r.id = ids[kind]
    <3>1. PICK r \in cloud : r.kind = kind /\ r.id = ids[kind]
      BY <2>1
    <3>2. Leaked' \subseteq Leaked \cup {r}
      BY <1>0, <1>1, <3>1 DEF Leaked, LeakInv
    <3>3. /\ IsFiniteSet(Leaked')
          /\ Cardinality(Leaked') <= Cardinality(Leaked) + 1
      BY <1>2, <3>2, OneMore
    <3>4. Cardinality(Leaked') \in Nat
      BY <3>3, FS_CardinalityType
    <3> QED
      BY <1>0, <1>2, <1>3, <3>3, <3>4
  <2>2. CASE ~\E r \in cloud : r.kind = kind /\ r.id = ids[kind]
    <3>1. Leaked' \subseteq Leaked
      BY <1>0, <1>1, <2>2 DEF Leaked
    <3>2. /\ Cardinality(Leaked') <= Cardinality(Leaked)
          /\ Cardinality(Leaked') \in Nat
      BY <1>2, <3>1, FS_Subset, FS_CardinalityType
    <3> QED
      BY <1>0, <1>2, <1>3, <3>2
  <2> QED
    BY <2>1, <2>2
<1>4. CASE /\ bad' = bad
           /\ cloud' = {r \in cloud : r.kind # kind \/ r.id # ids[kind]}
  <2>1. Leaked' \subseteq Leaked
    BY <1>0, <1>1, <1>4 DEF Leaked
  <2>2. /\ Cardinality(Leaked') <= Cardinality(Leaked)
        /\ Cardinality(Leaked') \in Nat
    BY <1>2, <2>1, FS_Subset, FS_CardinalityType
  <2> QED
    BY <1>0, <1>2, <1>4, <2>2
<1> QED
  BY <1>3, <1>4 DEF Erases

(* Booting replaces an instance by one of the same id. *)
LEMMA BootFacts ==
    ASSUME CallsInv, Boot
    PROVE  /\ ids' = ids /\ bad' = bad /\ next' = next
           /\ \E v \in cloud, w \in Resources :
                /\ w.kind = v.kind /\ w.id = v.id
                /\ cloud' = (cloud \ {v}) \cup {w}
<1>1. PICK v \in cloud :
        cloud' = (cloud \ {v}) \cup {[v EXCEPT !.running = TRUE]}
  BY DEF Boot
<1> DEFINE w == [v EXCEPT !.running = TRUE]
<1>2. v \in Resources
  BY CountFacts
<1>3. w \in Resources /\ w.kind = v.kind /\ w.id = v.id
  BY <1>2 DEF Resources
<1>4. cloud' = (cloud \ {v}) \cup {w}
  BY <1>1
<1>5. ids' = ids /\ bad' = bad /\ next' = next
  BY DEF Boot
<1> HIDE DEF w
<1> QED
  BY <1>3, <1>4, <1>5

(* An instance that boots is leaked only if it was.                         *)
LEMMA LeakedBoot ==
    ASSUME CallsInv, LeakInv, template.cluster.subnets > 0, Boot
    PROVE  Cardinality(Leaked') <= bad'
<1>0. bad \in Nat
  BY CountFacts
<1>1. PICK v \in cloud, w \in Resources :
        /\ w.kind = v.kind /\ w.id = v.id
        /\ cloud' = (cloud \ {v}) \cup {w}
  BY BootFacts
<1>2. ids' = ids /\ bad' = bad
  BY BootFacts
<1>3. /\ IsFiniteSet(Leaked) /\ Cardinality(Leaked) \in Nat
      /\ Cardinality(Leaked) <= bad
  BY FS_Subset, FS_CardinalityType DEF LeakInv, Leaked
<1>4. CASE v \in Leaked
  <2>1. Leaked' \subseteq (Leaked \ {v}) \cup {w}
    BY <1>1, <1>2 DEF Leaked
  <2>2. /\ IsFiniteSet(Leaked \ {v})
        /\ Cardinality(Leaked \ {v}) = Cardinality(Leaked) - 1
    BY <1>3, <1>4, FS_RemoveElement
  <2>3. /\ IsFiniteSet(Leaked')
        /\ Cardinality(Leaked') <= Cardinality(Leaked \ {v}) + 1
    BY <2>1, <2>2, OneMore
  <2>4. Cardinality(Leaked') \in Nat
    BY <2>3, FS_CardinalityType
  <2> QED
    BY <1>0, <1>2, <1>3, <2>2, <2>3, <2>4
<1>5. CASE v \notin Leaked
  <2>1. Leaked' \subseteq Leaked
    BY <1>1, <1>2, <1>5 DEF Leaked
  <2>2. /\ Cardinality(Leaked') <= Cardinality(Leaked)
        /\ Cardinality(Leaked') \in Nat
    BY <1>3, <2>1, FS_Subset, FS_CardinalityType
  <2> QED
    BY <1>0, <1>2, <1>3, <2>2
<1> QED
  BY <1>4, <1>5

(* The number of subnets is not changed in the template. *)
LEMMA SubnetsFixed ==
    ASSUME Webhooks, CallsInv, CallsInv', [Next]_vars
    PROVE  template'.cluster.subnets = template.cluster.subnets
<1>0. template \in Specs /\ template' \in Specs
  BY DEF CallsInv, TypeOK
<1>1. ASSUME NEW o \in Reconciled, EditTemplate(o)
      PROVE  template'.cluster.subnets = template.cluster.subnets
  <2>1. PICK new : /\ AdmitsTemplate(o, template[o], new)
                   /\ template' = [template EXCEPT ![o] = new]
    BY <1>1 DEF EditTemplate
  <2>2. CASE o = "machine"
    BY <1>0, <2>1, <2>2 DEF Specs
  <2>3. CASE o = "cluster"
    <3>1. template'.cluster = new
      BY <1>0, <2>1, <2>3 DEF Specs
    <3>2. ValidateUpdateClusterTemplate(template.cluster, new)
      BY <2>1, <2>3 DEF AdmitsTemplate
    <3>3. {template.cluster, new} \subseteq
            [project : Projects, subnets : Nat, endpoint : Nat]
      BY <1>0, <3>1 DEF Specs
    <3> QED
      BY <3>1, <3>2, <3>3, UpdatesAreFrozen
  <2> QED
    BY <2>2, <2>3 DEF Reconciled
<1>2. ASSUME NEW o \in Reconciled,
             Create(o) \/ Edit(o) \/ Delete(o) \/ Start(o)
      PROVE  template' = template
  BY <1>2 DEF Create, Edit, Delete, Start, objects
<1>3. CASE \/ CompleteSecret \/ Boot \/ Deliver \/ NewWXOneClients
           \/ LoginFails \/ CallFails \/ DataUnusable \/ FinishCluster
           \/ Wait \/ FinishDelete \/ UNCHANGED vars
  BY <1>3 DEF CompleteSecret, Boot, Deliver, NewWXOneClients, LoginFails,
              CallFails, DataUnusable, FinishCluster, Wait, FinishDelete,
              objects, vars
<1>4. CASE \/ getDefaultProject \/ createNetwork \/ createFloatingIP
           \/ createKey \/ getFlavorByName \/ getImageList
           \/ createInstance \/ createFloatingGroup \/ getInstance
  BY <1>4 DEF getDefaultProject, createNetwork, createFloatingIP, createKey,
              getFlavorByName, getImageList, createInstance,
              createFloatingGroup, getInstance
<1>5. CASE \/ deleteNetwork \/ deleteFloatingIP \/ deleteKey
           \/ deleteFloatingGroup \/ deleteInstance
  BY <1>5 DEF deleteNetwork, deleteFloatingIP, deleteKey,
              deleteFloatingGroup, deleteInstance, Erase
<1> QED
  BY <1>1, <1>2, <1>3, <1>4, <1>5 DEF Next, Pass

(* Every step keeps LeakInv, given the other two invariants.                *)
LEMMA LeakStep ==
    ASSUME Webhooks
    PROVE  CallsInv /\ CallsInv' /\ WebInv /\ LeakInv /\ [Next]_vars
             => LeakInv'
<1> SUFFICES ASSUME CallsInv, CallsInv', WebInv, LeakInv, [Next]_vars
             PROVE  LeakInv'
  OBVIOUS
<1>0. /\ cloud \subseteq Resources /\ next \in Nat \ {0} /\ bad \in Nat
      /\ \A r \in cloud : r.id \in 1..(next - 1) /\ r.kind \in Kinds
      /\ ids \in [Fields -> Nat] /\ Kinds \subseteq Fields
  BY CountFacts
<1>1. /\ template'.cluster.subnets = template.cluster.subnets
      /\ template.cluster.subnets = spec.cluster.subnets
  BY SubnetsFixed DEF WebInv
<1>2. CASE Quiet
  <2>1. /\ cloud' = cloud /\ next' = next /\ bad' \in {bad, bad + 1}
        /\ \A f \in Kinds : ids'[f] = ids[f]
    BY <1>2 DEF Quiet
  <2>2. Leaked' = Leaked
    BY <1>0, <2>1 DEF Leaked
  <2>3. IsFiniteSet(Leaked) /\ Cardinality(Leaked) \in Nat
    BY FS_Subset, FS_CardinalityType DEF LeakInv, Leaked
  <2>4. template'.cluster.subnets > 0 => Cardinality(Leaked') <= bad'
    BY <1>0, <1>1, <2>1, <2>2, <2>3 DEF LeakInv
  <2> QED
    BY <2>1, <2>4 DEF LeakInv
<1>3. CASE Boot
  <2>1. PICK v \in cloud, w \in Resources :
          /\ w.kind = v.kind /\ w.id = v.id
          /\ cloud' = (cloud \ {v}) \cup {w}
    BY <1>3, BootFacts
  <2>2. IsFiniteSet(cloud')
    BY <2>1, FS_RemoveElement, FS_AddElement DEF LeakInv
  <2>3. \A x, y \in cloud' : x.id = y.id => x = y
    BY <2>1 DEF LeakInv
  <2>4. \A f \in Kinds : ids'[f] < next'
    BY <1>3, BootFacts DEF LeakInv
  <2>5. template'.cluster.subnets > 0 => Cardinality(Leaked') <= bad'
    BY <1>1, <1>3, LeakedBoot
  <2> QED
    BY <2>2, <2>3, <2>4, <2>5 DEF LeakInv
<1>4. ASSUME NEW kind \in Kinds, Makes(kind) PROVE LeakInv'
  <2>1. PICK r \in Resources : /\ r.kind = kind /\ r.id = next
                               /\ cloud' = cloud \cup {r} /\ next' = next + 1
    BY <1>4 DEF Makes, Make
  <2>2. /\ \A f \in Kinds \ {kind} : ids'[f] = ids[f]
        /\ ids'[kind] \in {next, None}
    BY <1>4 DEF Makes
  <2>3. \A f \in Kinds : ids'[f] < next'
    BY <1>0, <2>1, <2>2 DEF LeakInv, None
  <2>4. IsFiniteSet(cloud')
    BY <2>1, FS_AddElement DEF LeakInv
  <2>5. \A x, y \in cloud' : x.id = y.id => x = y
    BY <1>0, <2>1 DEF LeakInv
  <2>6. template'.cluster.subnets > 0 => Cardinality(Leaked') <= bad'
    BY <1>1, <1>4, LeakedMakes
  <2> QED
    BY <2>3, <2>4, <2>5, <2>6 DEF LeakInv
<1>5. ASSUME NEW kind \in Kinds, Erases(kind) PROVE LeakInv'
  <2>1. /\ cloud' \subseteq cloud /\ next' = next
        /\ \A f \in Kinds \ {kind} : ids'[f] = ids[f]
        /\ ids'[kind] \in {ids[kind], None}
    BY <1>5 DEF Erases
  <2>2. \A f \in Kinds : ids'[f] < next'
    BY <1>0, <2>1 DEF LeakInv, None
  <2>3. IsFiniteSet(cloud')
    BY <2>1, FS_Subset DEF LeakInv
  <2>4. \A x, y \in cloud' : x.id = y.id => x = y
    BY <2>1 DEF LeakInv
  <2>5. template'.cluster.subnets > 0 => Cardinality(Leaked') <= bad'
    BY <1>1, <1>5, LeakedErases
  <2> QED
    BY <2>2, <2>3, <2>4, <2>5 DEF LeakInv
<1> QED
  BY <1>2, <1>3, <1>4, <1>5, StepKinds

(* With the webhooks, what is in the cloud and in no status is at most as   *)
(* many as there were bad answers: LeakInv always holds.                   *)
THEOREM LeakInvariant ==
    ASSUME Webhooks
    PROVE  Spec => []LeakInv
<1>1. Init => LeakInv
  <2> SUFFICES ASSUME Init PROVE LeakInv
    OBVIOUS
  <2>1. cloud = {} /\ bad = 0 /\ next = 1 /\ \A f \in Kinds : ids[f] = 0
    BY DEF Init, Kinds, Fields, None
  <2>2. Leaked = {}
    BY <2>1 DEF Leaked
  <2> QED
    BY <2>1, <2>2, FS_EmptySet DEF LeakInv
<1> QED
  BY <1>1, LeakStep, CallsInvariant, WebInvariant, PTL DEF Spec

(* A bad answer leaves at most one resource behind that no status records, *)
(* over any number of retries and whatever is edited or deleted meanwhile. *)
THEOREM LeaksBounded ==
    ASSUME Webhooks
    PROVE  Spec => []LeakBounded
<1>1. LeakInv => LeakBounded
  BY DEF LeakInv, LeakBounded, Leaked
<1> QED
  BY <1>1, LeakInvariant, PTL
=============================================================================
