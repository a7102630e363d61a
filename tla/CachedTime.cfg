\* The ticker thread and a caller of time() and gettimeofday().
SPECIFICATION Spec
PROPERTY TimeKeepsRenewing
