SPECIFICATION Spec
CONSTANTS
  Requests = {r1, r2}
  Names = {ann, bob}
  AdminUser = ann
  Tokens = {t1}
  Tickets = {k1}
  AdminToken = admin_token
  None = None
INVARIANTS TicketAdmitsOnce AdminLostOnlyByOverlap
PROPERTIES EndedSessionStaysEnded
