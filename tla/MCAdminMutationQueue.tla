------------------------ MODULE MCAdminMutationQueue ------------------------
\* Model-checking instance of AdminMutationQueue: a few requests.
EXTENDS AdminMutationQueue
=============================================================================
