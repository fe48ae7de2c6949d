------------------------------ MODULE Admission ------------------------------
(***************************************************************************)
(* Writes to one object of a kind with admission control: the app's        *)
(* admission (k8s/apiserver/admission.go in the API server itself, or      *)
(* k8s/webhooks.go behind a webhook), simple.App's dispatch, the           *)
(* opinionated controllers of k8s/admission.go and the update strategies   *)
(* of k8s/apiserver/strategy.go.                                           *)
(*                                                                         *)
(* The generic registry (external) handles an update so: read the object,  *)
(* mutating admission, compare the resource versions, PrepareForUpdate,    *)
(* validating admission, write if the object is still the one read, else   *)
(* all of it again.                                                        *)
(***************************************************************************)
EXTENDS Naturals

CONSTANTS
    Users,      \* names of the users; "" is an anonymous one
    MaxWrites,  \* bound: writes to the object
    MaxTime     \* bound: the seconds a clock may show

ASSUME AdmissionAssumption == MaxWrites \in Nat /\ MaxTime \in Nat

VARIABLES
    config,   \* what the manifest declares and what the app implements
    ready,    \* the app is initialized; its controllers are registered
    stored,   \* the object
    writes,   \* writes so far, the source of resource versions
    req,      \* user -> its request
    creator,  \* history: the user that created the object
    writers,  \* history: the users whose create or update it took
    turned    \* history: denied although no protected field was touched

admissionVars == <<config, ready, stored, writes, req, creator, writers, turned>>
history == <<creator, writers, turned>>

Ops == {"CREATE", "UPDATE"}
Names == Users \cup {""}
NoObject == [rv |-> 0]
Idle == [pc |-> "idle"]

(* How requests reach the app; the operations the manifest declares for      *)
(* mutation and for validation, and whether the app has controllers for      *)
(* them; whether an object's status is a field of a Go struct, or an entry   *)
(* of a map that is there when it was set.  Behind a webhook the strategies  *)
(* are the API server's own, and they keep the status.                       *)
Configs ==
    LET Capabilities == {<<{}, FALSE>>, <<{"UPDATE"}, TRUE>>, <<Ops, FALSE>>, <<Ops, TRUE>>}
    IN  {[transport |-> t, mutates |-> m[1], mutator |-> m[2], validates |-> v[1], validator |-> v[2],
          statusField |-> f \/ t = "webhook"] :
            t \in {"apiserver", "webhook"}, m \in Capabilities, v \in Capabilities, f \in BOOLEAN}

-----------------------------------------------------------------------------
(* The opinionated controllers.  SetCommonMetadata writes an annotation     *)
(* only for a value that is not empty; an object that is being created has  *)
(* no creationTimestamp yet, so its updateTimestamp stays as it is.         *)

Named(user, old) == IF user = "" THEN old ELSE user

Mutate(op, user, o, now) ==
    IF op = "CREATE" THEN [o EXCEPT !.createdBy = Named(user, @)]
    ELSE [o EXCEPT !.updatedBy = Named(user, @), !.stamp = now]

(* Mutant of Valid: an update may set createdBy to the name of the user.    *)
MutValid(op, user, o, old) ==
    IF op = "CREATE"
    THEN o.createdBy \in {"", user} /\ o.updatedBy \in {"", user} /\ o.stamp = 0
    ELSE /\ o.createdBy \in {old.createdBy, user}
         /\ o.updatedBy \in {old.updatedBy, user}
         /\ o.stamp = old.stamp

(* Mutant of Valid: a create has to name the user.                          *)
MutValidCreate(op, user, o, old) ==
    IF op = "CREATE" THEN o.createdBy = user /\ o.updatedBy \in {"", user} /\ o.stamp = 0
    ELSE /\ o.createdBy = old.createdBy
         /\ o.updatedBy \in {old.updatedBy, user}
         /\ o.stamp = old.stamp

(* A stamp is a number here.  The code compares time.Time values with !=,   *)
(* which tells the same instant in two zones apart, and takes an unreadable *)
(* annotation for the zero time.                                            *)
Valid(op, user, o, old) ==
    IF op = "CREATE"
    THEN o.createdBy \in {"", user} /\ o.updatedBy \in {"", user} /\ o.stamp = 0
    ELSE /\ o.createdBy = old.createdBy
         /\ o.updatedBy \in {old.updatedBy, user}
         /\ o.stamp = old.stamp

(* Whether a request gets to the app's controller: "pass" if it is not      *)
(* asked, "unavailable" if it is not there yet, "denied" for a webhook      *)
(* whose app answers ErrNotImplemented.                                     *)
Handles(op) == op \in config.mutates \cup config.validates

Ask(op, declared, implemented) ==
    IF config.transport = "apiserver"
    THEN IF ~Handles(op) THEN "pass"
         ELSE IF ~ready THEN "unavailable"
         ELSE IF op \in declared /\ implemented THEN "ask" ELSE "pass"
    ELSE IF op \notin declared THEN "pass"
         ELSE IF ~ready THEN "unavailable"
         ELSE IF implemented THEN "ask" ELSE "denied"

-----------------------------------------------------------------------------
(* GetSubresource finds a status in the object; "" is one never set.        *)
HasStatus(o) == config.statusField \/ o.status # ""

(* The strategies: an update of the object keeps the status if there is     *)
(* one, else takes the request's; an update of the status keeps the rest.   *)
PrepareForUpdate(sub, o, old) ==
    IF sub = "status" THEN [old EXCEPT !.status = o.status]
    ELSE IF HasStatus(old) THEN [o EXCEPT !.status = old.status] ELSE o

(* The request ends: with a write, or with the reason why there was none.   *)
End(u, result) ==
    /\ req' = [req EXCEPT ![u] = Idle]
    /\ turned' = IF result = "denied" /\ req[u].honest
                 THEN turned \cup {<<req[u].op, req[u].sub>>} ELSE turned

(* A user sends a request: an object made from the stored one, with the     *)
(* protected fields as they were, or one of them changed.                   *)
Bodies(from) ==
    {from} \cup {[from EXCEPT !.createdBy = n] : n \in Names}
           \cup {[from EXCEPT !.updatedBy = n] : n \in Names}
           \cup {[from EXCEPT !.stamp = t] : t \in 0..MaxTime}

Send(u) ==
    /\ req[u] = Idle /\ writes < MaxWrites
    /\ LET from == IF stored # NoObject THEN [stored EXCEPT !.spec = u, !.status = u]
                   ELSE [rv |-> 0, spec |-> u, status |-> "", createdBy |-> "", updatedBy |-> "", stamp |-> 0]
       IN  \E body \in Bodies(from), sub \in IF stored = NoObject THEN {""} ELSE {"", "status"} :
              req' = [req EXCEPT ![u] =
                  [pc |-> "sent", op |-> IF stored = NoObject THEN "CREATE" ELSE "UPDATE", sub |-> sub,
                   body |-> body, honest |-> body = from]]
    /\ UNCHANGED <<config, ready, stored, writes, history>>

(* The registry reads the object; Admit.                                    *)
Admit(u) ==
    LET r == req[u]
        a == Ask(r.op, config.mutates, config.mutator)
    IN  /\ r.pc = "sent"
        /\ \/ r.op = "UPDATE" /\ stored = NoObject /\ End(u, "not found")
           \/ /\ r.op = "CREATE" \/ stored # NoObject
              /\ a \in {"unavailable", "denied"} /\ End(u, a)
           \/ /\ r.op = "CREATE" \/ stored # NoObject
              /\ a \in {"pass", "ask"}
              /\ \E now \in 1..MaxTime :
                    req' = [req EXCEPT ![u] =
                        [pc |-> "admitted", op |-> r.op, sub |-> r.sub, body |-> r.body, honest |-> r.honest,
                         old |-> IF r.op = "CREATE" THEN NoObject ELSE stored,
                         new |-> IF a = "ask" THEN Mutate(r.op, u, r.body, now) ELSE r.body]]
              /\ UNCHANGED turned
        /\ UNCHANGED <<config, ready, stored, writes, creator, writers>>

(* The comparison of the versions, PrepareForUpdate, Validate, the write.   *)
Validate(u) ==
    LET r   == req[u]
        new == IF r.op = "CREATE" THEN r.new ELSE PrepareForUpdate(r.sub, r.new, r.old)
        a   == Ask(r.op, config.validates, config.validator)
        result == IF r.op = "UPDATE" /\ r.body.rv # r.old.rv THEN "conflict"
                  ELSE IF a \in {"unavailable", "denied"} THEN a
                  ELSE IF a = "ask" /\ ~Valid(r.op, u, new, r.old) THEN "denied"
                  ELSE IF stored = r.old THEN "ok"
                  ELSE IF r.op = "CREATE" THEN "exists" ELSE "again"
    IN  /\ r.pc = "admitted"
        /\ \/ /\ result = "again"
              /\ req' = [req EXCEPT ![u] = [pc |-> "sent", op |-> r.op, sub |-> r.sub,
                                            body |-> r.body, honest |-> r.honest]]
              /\ UNCHANGED <<stored, writes, history>>
           \/ /\ result \notin {"again", "ok"}
              /\ End(u, result)
              /\ UNCHANGED <<stored, writes, creator, writers>>
           \/ /\ result = "ok"
              /\ stored' = [new EXCEPT !.rv = writes + 1]
              /\ writes' = writes + 1
              /\ creator' = IF r.op = "CREATE" THEN u ELSE creator
              /\ writers' = IF r.op = "CREATE" THEN {u}
                            ELSE IF r.sub = "" THEN writers \cup {u} ELSE writers
              /\ End(u, "ok")
        /\ UNCHANGED <<config, ready>>

(* The object is deleted; the app has no part in it.                        *)
Delete ==
    /\ stored # NoObject
    /\ stored' = NoObject
    /\ UNCHANGED <<config, ready, writes, req, history>>

(* The app is set for appGetter, or the Runner has added its controllers to *)
(* the webhook server.                                                      *)
Ready ==
    /\ ~ready /\ ready' = TRUE
    /\ UNCHANGED <<config, stored, writes, req, history>>

AdmissionInit ==
    /\ config \in Configs
    /\ ready = FALSE /\ stored = NoObject /\ writes = 0
    /\ req = [u \in Users |-> Idle]
    /\ creator = "" /\ writers = {} /\ turned = {}

AdmissionNext == Ready \/ Delete \/ \E u \in Users : Send(u) \/ Admit(u) \/ Validate(u)

AdmissionSpec == AdmissionInit /\ [][AdmissionNext]_admissionVars

-----------------------------------------------------------------------------
(* The opinionated validation protects the metadata it is for: with it in   *)
(* place for creates and updates, createdBy names nobody but the creator    *)
(* and updatedBy nobody but a user who wrote this object, in this life of   *)
(* it, and the updateTimestamp is not a user's invention.                   *)
Attributed ==
    stored # NoObject /\ config.validator /\ config.validates = Ops =>
        /\ stored.createdBy \in {"", creator}
        /\ stored.updatedBy \in writers \cup {""}
        /\ stored.stamp = 0

(* Admission is no obstacle to a request that leaves the protected fields   *)
(* alone.  Two set-ups are: a webhook for a controller that the app lacks,  *)
(* and the two opinionated controllers together, for an update of the       *)
(* object: what the one has written, the other refuses.                     *)
HonestAdmitted ==
    \A t \in turned :
        \/ config.transport = "webhook"
           /\ \/ t[1] \in config.mutates /\ ~config.mutator
              \/ t[1] \in config.validates /\ ~config.validator
        \/ t = <<"UPDATE", "">> /\ config.mutator /\ config.validator
           /\ "UPDATE" \in config.mutates \cap config.validates

=============================================================================
