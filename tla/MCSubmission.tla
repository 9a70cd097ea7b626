----------------------------- MODULE MCSubmission -----------------------------
EXTENDS SubmissionThreads
CONSTANTS poller, resolver, other
=============================================================================
