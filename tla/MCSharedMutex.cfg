CONSTANTS
    Threads = {t1, t2, t3, t4}
    MaxReaders = 9
SPECIFICATION FairSpec
INVARIANTS Exclusive QuietMeansClean
PROPERTIES WriterGetsIn ReaderGetsIn
