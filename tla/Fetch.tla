-------------------------------- MODULE Fetch --------------------------------
(***************************************************************************)
(* One download over an unreliable link (core/fetch): a body that breaks   *)
(* off is continued by a ranged request, as often as the attempts allow.   *)
(* The host may hold another representation of the file at any request (a  *)
(* mirror, a republish in place), ignore the range, refuse it, or answer   *)
(* from the wrong offset.  It honours If-Range, as HTTP requires.          *)
(*                                                                         *)
(* A body is the sequence of the representations its bytes came from.      *)
(***************************************************************************)
EXTENDS Naturals, Sequences

CONSTANTS
  Reps,       \* representations: [id, len, etag]; etag "" is no strong validator
  Attempts,   \* further requests one download may issue (ResumeAttempts)
  Ceiling     \* maxLength: the signed length of the target

ASSUME FetchAssumption ==
  /\ Attempts \in Nat /\ Ceiling \in Nat
  /\ \A r \in Reps : r.len \in Nat

VARIABLE dl   \* the download: its body, what is known of it, and how it ended

\* No download is under way.
NoDownload == [state |-> "none"]

\* The body came to nothing, or to a whole one as far as this layer can tell.
Failed == [state |-> "failed"]
Arrived(body, etag) == [state |-> "arrived", body |-> body, etag |-> etag]

\* DownloadFile starts with nothing: the total length is unknown (0), no validator.
StartDownload == [state |-> "run", body |-> <<>>, total |-> 0, etag |-> "", tries |-> 0]

\* The next request, if one is left; restart discards what was held.
Again(body, total, etag) ==
  IF dl.tries = Attempts THEN Failed
  ELSE [state |-> "run", body |-> body, total |-> total, etag |-> etag, tries |-> dl.tries + 1]

\* n bytes of one representation.
Bytes(rep, n) == [i \in 1..n |-> rep.id]

\* What becomes of a body after a response that announced want bytes (0: it did not
\* say) and carried n of them; broken is a link that failed, a body that just ends
\* is one the host closed.  Too many bytes are refused, too few are continued from --
\* unless there were none, which ends the download.
Take(body, n, want, broken, total, etag) ==
  LET short == broken \/ (want > 0 /\ n < want) \/ (total > 0 /\ Len(body) < total)
  IN  IF Len(body) > Ceiling THEN Failed
      ELSE IF ~short THEN Arrived(body, etag)
      ELSE IF n = 0 THEN Failed
      ELSE Again(body, total, etag)

\* Mutant of Whole: what was held stays in front of it.
WholeAfter(rep, n, announced, broken) ==
  LET total == IF announced THEN rep.len ELSE 0
  IN  Take(dl.body \o Bytes(rep, n), n, total, broken, total, rep.etag)

\* 200: the whole file, to the first request or because the range was ignored or the
\* representation changed.  Whatever was held is discarded.
Whole(rep, n, announced, broken) ==
  LET total == IF announced THEN rep.len ELSE 0
  IN  IF total > Ceiling THEN Failed
      ELSE Take(Bytes(rep, n), n, total, broken, total, rep.etag)

\* 206 to a request from an offset: it must start there, agree with the total and
\* the validator seen before, and end below the ceiling.
checkPartial(rep, first, announced) ==
  /\ first = Len(dl.body)
  /\ (announced /\ dl.total > 0) => rep.len = dl.total
  /\ (dl.etag # "" /\ rep.etag # "") => rep.etag = dl.etag

Partial(rep, first, n, announced, broken) ==
  LET want == rep.len - first
      total == IF announced THEN rep.len ELSE dl.total
  IN  IF ~checkPartial(rep, first, announced) \/ total > Ceiling \/ first + want > Ceiling
      THEN Failed
      ELSE Take(dl.body \o Bytes(rep, n), n, want, broken, total, dl.etag)

\* One request and its response.  A host holding a representation with another
\* validator than the one If-Range names answers 200; one that has no validator
\* cannot tell.
request(rep, answer) ==
  \/ /\ answer.status = 200
     /\ dl' = Whole(rep, answer.n, answer.announced, answer.broken)
  \/ /\ answer.status = 206
     /\ dl.body # <<>>
     /\ dl.etag = "" \/ rep.etag = dl.etag
     /\ dl' = Partial(rep, answer.first, answer.n, answer.announced, answer.broken)
  \/ /\ answer.status = 416
     /\ dl.body # <<>>
     /\ dl' = Again(<<>>, 0, "")
  \/ /\ answer.status = 404
     /\ dl' = Failed
  \/ /\ answer.status = 0        \* no response: a flaky link, not a refused one
     /\ dl' = Again(dl.body, dl.total, dl.etag)

\* The responses a host holding some representation can give.  One that runs past
\* what it announced ends the download like a 404 does, and so does a link that fails
\* for good.
Responses ==
  LET possible(rep, a) ==
        /\ a.first + a.n <= rep.len
        /\ IF a.status = 206 THEN a.first < rep.len ELSE a.first = 0
        /\ a.status \in {0, 404, 416} => a.n = 0 /\ ~a.announced /\ ~a.broken
      shapes == [status : {0, 200, 206, 404, 416}, first : 0..Ceiling, n : 0..Ceiling,
                 announced : BOOLEAN, broken : BOOLEAN]
  IN  {x \in Reps \X shapes : possible(x[1], x[2])}

\* The response of a healthy host to the request as it stands: the whole file where
\* there is no range or If-Range names another one, 416 where nothing is left.
GoodAnswer(rep) ==
  LET whole == [status |-> 200, first |-> 0, n |-> rep.len, announced |-> TRUE, broken |-> FALSE]
      held == Len(dl.body)
  IN  IF held = 0 \/ (dl.etag # "" /\ dl.etag # rep.etag) THEN whole
      ELSE IF held >= rep.len
      THEN [whole EXCEPT !.status = 416, !.n = 0, !.announced = FALSE]
      ELSE [whole EXCEPT !.status = 206, !.first = held, !.n = rep.len - held]

---------------------------------------------------------------------------
\* A body is never spliced: everything held under a strong validator comes from the
\* one representation it names, however often the link broke and the file changed in
\* between.  (Where the host gives none, only the signed hash can tell.)
NeverSpliced ==
  (dl.state \in {"run", "arrived"} /\ dl.etag # "") =>
    \A i \in DOMAIN dl.body : \E r \in Reps : r.id = dl.body[i] /\ r.etag = dl.etag
=============================================================================
