---------------------------- MODULE FenceUpload -----------------------------
(***************************************************************************)
(* MissionItemProtocol with its fence backend: ground stations upload a    *)
(* fence item by item, each item asked for by the vehicle, into a list in  *)
(* memory that replaces the stored fence when it is complete.              *)
(*                                                                         *)
(* A message of any ground station may arrive at any time, which covers    *)
(* lost, repeated and delayed ones.  The handlers, update() and            *)
(* AC_Fence::update() all run on the main thread, one after the other.     *)
(***************************************************************************)
EXTENDS PolyFence, FiniteSets

CONSTANTS
    Stations,       \* system and component id of a ground station
    Links,          \* GCS_MAVLINK backends
    UploadTimeout,  \* upload_timeout_ms, in calls of update()
    MaxStarts,      \* bound: uploads that are started
    NoLink, NoRequest, Garbage

ASSUME FenceAssumption ==
    /\ StorageSize \in Nat /\ UploadTimeout \in Nat /\ MaxStarts \in Nat
    /\ JunkCounts \subseteq Nat /\ Stations # {} /\ \A it \in Items : it.n \in Nat
    /\ NoLink \notin Links

VARIABLES
    receiving, link, dest, request_i, request_last,
    waited,       \* calls of update() since timelast_receive_ms
    queued,       \* links that have the next request in their queue of messages
    asked,        \* history: the last request that went out for this upload
    new_items, new_items_count, updated_mask,
    stored,       \* the items in fence_storage
    index,        \* _index_attempted, _indexed, _eeprom_item_count, and if there was memory for it
    result,       \* the answer of the last handler, and to whom
    sent, base,   \* history: the items of this upload, and the list that a partial one changes
    starts

\* No set of item numbers: updated_mask is nullptr.
NoMask == {-1}

protVars == <<receiving, link, dest, request_i, request_last, waited, asked>>
bufVars == <<new_items, new_items_count, updated_mask>>
fenceVars == <<stored, index>>
histVars == <<sent, base, starts>>
vars == <<protVars, queued, bufVars, fenceVars, result, histVars>>

Results == {"accepted", "refused", "sent"}  \* sent: what was asked for
Reply(g, what) == result' = [to |-> g, what |-> what]

\* num_stored_items(), and item_count() when nothing is being received.
num_stored_items == index.count

\* check_indexed(): what the index may be afterwards.
check_indexed == IF index.attempted THEN {index} ELSE IndexResults(stored)

\* After write_fence(): format() cleared the counts, void_index() the rest.
VoidIndex == [attempted |-> FALSE, indexed |-> FALSE, memory |-> TRUE, count |-> 0]
-----------------------------------------------------------------------------
(* Uploads                                                                 *)

\* Mutant: the mask of a partial list is not freed.
free_upload_resources_list ==
    new_items' = <<>> /\ UNCHANGED <<new_items_count, updated_mask>>
free_upload_resources ==
    /\ new_items' = <<>> /\ updated_mask' = NoMask
    /\ UNCHANGED new_items_count

StopReceiving ==
    /\ receiving' = FALSE /\ link' = NoLink /\ asked' = NoRequest
    /\ UNCHANGED <<dest, request_i, request_last, waited>>

\* Mutant: anybody may restart an upload.
MayCancelAnybody(g) == TRUE
\* cancel_upload() does not deny.
MayCancel(g) == receiving => g = dest

\* MAV_MISSION_DENIED, or an error.
Refused(g) == Reply(g, "refused") /\ UNCHANGED <<protVars, queued, bufVars, fenceVars, histVars>>

EndHistory == sent' = <<>> /\ base' = <<>> /\ UNCHANGED starts

\* The upload in progress is cancelled and no other one started.
CancelOnly(g) ==
    /\ StopReceiving
    /\ IF receiving THEN free_upload_resources ELSE UNCHANGED bufVars
    /\ Reply(g, "refused")
    /\ EndHistory
    /\ UNCHANGED <<queued, fenceVars>>

init_send_requests(g, l, first, last) ==
    /\ receiving' = TRUE /\ link' = l /\ dest' = g
    /\ request_i' = first /\ request_last' = last /\ waited' = 0
    /\ queued' = queued \cup {l} /\ asked' = NoRequest

StartHistory(old) == sent' = <<>> /\ base' = old /\ starts' = starts + 1

\* write_fence() of no items: it always fits.
StoreNothing == stored' = <<>> /\ index' = VoidIndex

\* allocate_receive_resources() is refused, as an internal error, when the list of
\* the previous upload was not freed.
NoLeftover == receiving \/ new_items = <<>>

handle_mission_count(g, n) ==
    \/ ~MayCancel(g) /\ Refused(g)
    \/ MayCancel(g) /\ n > max_items /\ CancelOnly(g)
    \/ /\ MayCancel(g) /\ n <= max_items
       /\ n > 0 \/ ~NoLeftover                                   \* n > 0: out of memory
       /\ CancelOnly(g)
    \/ /\ MayCancel(g) /\ n = 0 /\ NoLeftover
       /\ StopReceiving /\ StoreNothing
       /\ new_items' = <<>> /\ updated_mask' = NoMask /\ new_items_count' = 0
       /\ Reply(g, "accepted")
       /\ EndHistory
       /\ UNCHANGED queued
    \/ /\ MayCancel(g) /\ n \in 1 .. max_items /\ NoLeftover /\ starts < MaxStarts
       /\ \E l \in Links : init_send_requests(g, l, 0, n - 1)
       /\ new_items' = [i \in 1 .. n |-> Garbage] /\ new_items_count' = n
       /\ updated_mask' = IF receiving THEN NoMask ELSE updated_mask
       /\ StartHistory(<<>>)
       /\ UNCHANGED <<fenceVars, result>>

handle_mission_write_partial_list(g, first, last) ==
    \/ receiving /\ Refused(g)
    \/ /\ ~receiving
       /\ first > num_stored_items \/ last > num_stored_items \/ last < first
       /\ Refused(g)
    \/ /\ ~receiving /\ first <= last /\ last <= num_stored_items
       /\ Refused(g)                                            \* out of memory
    \/ /\ ~receiving /\ NoLeftover /\ starts < MaxStarts
       /\ first <= last /\ last <= num_stored_items
       /\ \E l \in Links : init_send_requests(g, l, first, last)
       /\ new_items' = [i \in 1 .. num_stored_items |-> Garbage]
       /\ new_items_count' = num_stored_items /\ updated_mask' = {}
       /\ StartHistory(stored)
       /\ UNCHANGED <<fenceVars, result>>
-----------------------------------------------------------------------------
(* Items                                                                   *)

\* Mutant: an item is looked up in the mask by the number of the one after it.
KeptNext(mask, i) == mask # NoMask /\ i \notin mask
\* The list that complete() writes: items of a partial list that were not sent are
\* read from storage.
Kept(mask, i) == mask # NoMask /\ i - 1 \notin mask
Merged(items, mask) ==
    [i \in DOMAIN items |-> IF Kept(mask, i) THEN stored[i] ELSE items[i]]
ReadsStorage(items, mask) == \E i \in DOMAIN items : Kept(mask, i)
Readable(x, items, mask) ==
    x.indexed /\ \A i \in DOMAIN items : Kept(mask, i) => i <= Len(stored)

\* complete(): what write_fence() stores has to be indexed again.
Complete(g, items, mask) ==
    \E x \in IF ReadsStorage(items, mask) THEN check_indexed ELSE {index} :
        \/ /\ ReadsStorage(items, mask) /\ ~Readable(x, items, mask)
           /\ index' = x /\ UNCHANGED stored /\ Reply(g, "refused")
        \/ /\ ReadsStorage(items, mask) => Readable(x, items, mask)
           /\ ~Fits(Merged(items, mask))
           /\ index' = x /\ UNCHANGED stored /\ Reply(g, "refused")
        \/ /\ ReadsStorage(items, mask) => Readable(x, items, mask)
           /\ Fits(Merged(items, mask))
           /\ stored' = Merged(items, mask) /\ index' = VoidIndex /\ Reply(g, "accepted")

transfer_is_complete(g, items, mask) ==
    /\ Complete(g, items, mask)
    /\ free_upload_resources
    /\ receiving' = FALSE /\ link' = NoLink /\ asked' = NoRequest

\* replace_item() and append_item(): both refuse what was not allocated.
Replaceable(seq, it) == seq < new_items_count /\ new_items # <<>> /\ it.type # "other"

\* Mutant: nothing asks for the next item when the link has no room.
AskNextOrNot ==
    \/ asked' = [to |-> dest, seq |-> request_i + 1] /\ UNCHANGED queued
    \/ UNCHANGED <<queued, asked>>
\* The next request goes out at once when the link has room for it.
AskNext ==
    \/ asked' = [to |-> dest, seq |-> request_i + 1] /\ UNCHANGED queued
    \/ queued' = queued \cup {link} /\ UNCHANGED asked

Received ==
    /\ waited' = 0 /\ request_i' = request_i + 1
    /\ UNCHANGED <<dest, request_last>>

SentAlso(seq, it) ==
    /\ sent' = [i \in DOMAIN sent \cup {seq} |-> IF i = seq THEN it ELSE sent[i]]
    /\ UNCHANGED <<base, starts>>

\* Mutant: an item that was not asked for also counts as a sign of life.
UnexpectedItemResets(g, seq, it) ==
    /\ seq # request_i \/ g # dest
    /\ waited' = 0 /\ Reply(g, "refused")
    /\ UNCHANGED <<receiving, link, dest, request_i, request_last, asked, queued, bufVars, fenceVars,
                   histVars>>
\* Out of sequence, or not from the system that initiated the upload.
UnexpectedItem(g, seq, it) ==
    /\ seq # request_i \/ g # dest
    /\ Refused(g)

handle_mission_item(g, seq, it) ==
    \/ ~receiving /\ Refused(g)
    \/ receiving /\ UnexpectedItem(g, seq, it)
    \/ receiving /\ seq = request_i /\ g = dest /\ ~Replaceable(seq, it) /\ CancelOnly(g)
    \/ /\ receiving /\ seq = request_i /\ g = dest /\ Replaceable(seq, it)
       /\ Received
       /\ LET items == [new_items EXCEPT ![seq + 1] = it]
              mask == IF updated_mask = NoMask THEN NoMask ELSE updated_mask \cup {seq}
          IN  \/ /\ request_i = request_last
                 /\ transfer_is_complete(g, items, mask)
                 /\ IF result'.what = "accepted" THEN SentAlso(seq, it) ELSE EndHistory
                 /\ UNCHANGED queued
              \/ /\ request_i < request_last
                 /\ new_items' = items /\ updated_mask' = mask /\ AskNext
                 /\ SentAlso(seq, it)
                 /\ UNCHANGED <<receiving, link, new_items_count, fenceVars, result>>

\* A denied cancel_upload() is followed by a second answer, MAV_MISSION_ERROR.
handle_mission_clear_all(g) ==
    \/ ~MayCancel(g) /\ Refused(g)
    \/ /\ MayCancel(g)
       /\ StopReceiving /\ StoreNothing
       /\ IF receiving THEN free_upload_resources ELSE UNCHANGED bufVars
       /\ Reply(g, "accepted")
       /\ EndHistory
       /\ UNCHANGED queued
-----------------------------------------------------------------------------
(* Downloads                                                               *)

handle_mission_request_list(g) ==
    /\ Reply(g, IF receiving THEN "refused" ELSE "sent")
    /\ UNCHANGED <<protVars, queued, bufVars, fenceVars, histVars>>

\* MissionItemProtocol_Fence::get_item()
get_item(g, seq) ==
    /\ \/ seq >= num_stored_items /\ Reply(g, "refused") /\ UNCHANGED index
       \/ /\ seq < num_stored_items
          /\ index' \in check_indexed
          /\ Reply(g, IF index'.indexed /\ seq < Len(stored) THEN "sent" ELSE "refused")
    /\ UNCHANGED <<protVars, queued, bufVars, stored, histVars>>

handle_mission_request_int(g, seq) ==
    \/ receiving /\ Refused(g)
    \/ ~receiving /\ get_item(g, seq)

\* The older MISSION_REQUEST is also answered during an upload.
handle_mission_request(g, seq) == get_item(g, seq)
-----------------------------------------------------------------------------
(* The main loop                                                           *)

\* update(): the upload is given up, or time passes and the request may be repeated.
update ==
    /\ receiving
    /\ \/ /\ waited = UploadTimeout
          /\ StopReceiving /\ free_upload_resources /\ Reply(dest, "refused")
          /\ EndHistory /\ UNCHANGED queued
       \/ /\ waited < UploadTimeout
          /\ waited' = waited + 1
          /\ queued' \in {queued, queued \cup {link}}
          /\ UNCHANGED <<receiving, link, dest, request_i, request_last, asked, bufVars, result,
                         histVars>>
    /\ UNCHANGED fenceVars

\* queued_request_send(), for a link whose queue holds the message; it may be the
\* queue of an earlier upload, and the link of this one may have no room.
queued_request_send(l) ==
    /\ l \in queued
    /\ queued' = queued \ {l}
    /\ \/ receiving /\ asked' = [to |-> dest, seq |-> request_i]
       \/ (~receiving \/ l # link) /\ UNCHANGED asked
    /\ UNCHANGED <<receiving, link, dest, request_i, request_last, waited, bufVars, fenceVars,
                   result, histVars>>

\* AC_Fence::update() indexes what was written.
FenceUpdate ==
    /\ ~index.attempted
    /\ index' \in check_indexed
    /\ UNCHANGED <<protVars, queued, bufVars, stored, result, histVars>>
-----------------------------------------------------------------------------
\* A fence of an earlier flight, indexed by init().
Init ==
    /\ receiving = FALSE /\ link = NoLink /\ dest = CHOOSE g \in Stations : TRUE
    /\ request_i = 0 /\ request_last = 0 /\ waited = 0
    /\ queued = {} /\ asked = NoRequest
    /\ new_items = <<>> /\ new_items_count = 0 /\ updated_mask = NoMask
    /\ \E n \in 0 .. max_items : stored \in [1 .. n -> Items]
    /\ Fits(stored) /\ EndOffset(stored) < StorageSize /\ index \in IndexResults(stored)
    /\ result = [to |-> dest, what |-> "refused"]
    /\ sent = <<>> /\ base = <<>> /\ starts = 0

Message(g) ==
    \/ \E n \in 0 .. max_items + 1 : handle_mission_count(g, n)
    \/ \E first, last \in 0 .. max_items : handle_mission_write_partial_list(g, first, last)
    \/ \E seq \in 0 .. max_items, it \in Items : handle_mission_item(g, seq, it)
    \/ \E seq \in 0 .. max_items :
          handle_mission_request_int(g, seq) \/ handle_mission_request(g, seq)
    \/ handle_mission_clear_all(g) \/ handle_mission_request_list(g)

Next ==
    \/ \E g \in Stations : Message(g)
    \/ update \/ FenceUpdate
    \/ \E l \in Links : queued_request_send(l)

\* The scheduler calls GCS::update_send(), and with it update(), again and again.
Spec == Init /\ [][Next]_vars /\ WF_vars(update)
-----------------------------------------------------------------------------
(* Properties                                                              *)

\* Every variable keeps its type.
TypeOK ==
    /\ receiving \in BOOLEAN /\ link \in Links \cup {NoLink} /\ dest \in Stations
    /\ request_i \in Nat /\ request_last \in Nat /\ waited \in 0 .. UploadTimeout
    /\ queued \subseteq Links /\ asked \in [to : Stations, seq : Nat] \cup {NoRequest}
    /\ new_items \in Seq(Items \cup {Garbage}) /\ new_items_count \in Nat
    /\ updated_mask = NoMask \/ updated_mask \subseteq Nat
    /\ stored \in Seq(Items)
    /\ index \in [attempted : BOOLEAN, indexed : BOOLEAN, memory : BOOLEAN, count : Nat]
    /\ result \in [to : Stations, what : Results]
    /\ starts \in 0 .. MaxStarts

\* There is a link exactly while items are expected, and the list and the mask of an
\* upload are freed whichever way it ends: the internal errors about the link and
\* about a list that was not freed are not reached.
ResourcesFreed ==
    /\ receiving <=> link # NoLink
    /\ ~receiving => new_items = <<>> /\ updated_mask = NoMask

\* While items are expected, either the request for the next one is still in the queue
\* of the link, or it is the last request that went out for this upload, and to the
\* uploader: also when messages of an earlier upload are still queued on another link.
AsksForNext ==
    receiving /\ link \notin queued => asked = [to |-> dest, seq |-> request_i]

\* During an upload the fence changes only in one step that ends the upload, and on a
\* message of the uploader that is answered with "accepted".
UploaderOwnsFence ==
    [][receiving /\ stored' # stored =>
         ~receiving' /\ result' = [to |-> dest, what |-> "accepted"]]_vars

\* When the last item is accepted the fence is exactly what the uploader sent, and for
\* a partial list what was stored before elsewhere; nothing uninitialised is stored.
AcceptedIsStored ==
    [][receiving /\ request_i' # request_i /\ ~receiving' /\ result'.what = "accepted" =>
         /\ DOMAIN stored' = 1 .. new_items_count
         /\ \A i \in DOMAIN stored' :
               \/ i - 1 \in DOMAIN sent' /\ stored'[i] = sent'[i - 1]
               \/ i - 1 \notin DOMAIN sent' /\ i \in DOMAIN base /\ stored'[i] = base[i]]_vars

\* A fence that leaves a byte of the storage free is counted and indexed completely, if there
\* is memory for the index: the scan comes from each type byte to the next one that was
\* written, over the vertices of polygons, and to the end marker.
ShorterIsReadable ==
    index.attempted /\ fence_storage_space_required(stored) < StorageSize =>
        index.indexed = index.memory /\ index.count = Len(stored)

\* An upload ends: it is completed, cancelled, or given up.
UploadEnds == []<>~receiving

\* What write_fence() has written can be read back.
StoredIsReadable ==
    index.attempted /\ index.memory => index.indexed /\ index.count = Len(stored)
=============================================================================
